----------------------------- MODULE NodeLocks -----------------------------
(***************************************************************************)
(* Lock-level model of the in-memory backend of the local node             *)
(* (src/anvil/src/eth/backend/mem/mod.rs, struct Backend).                 *)
(*                                                                         *)
(* The backend keeps its state behind three parking_lot RwLocks: `env`     *)
(* (chain env, block number, base fee), `db` (accounts) and                *)
(* `blockchain.storage` (blocks, hashes, mined transactions).  The node    *)
(* service task calls `mine_block`, which write-locks all three; RPC       *)
(* handler tasks, running on other worker threads, take read or write      *)
(* guards in the order each handler's code takes them.                     *)
(*                                                                         *)
(* parking_lot's RwLock is task-fair: a writer first claims the WRITER bit *)
(* (blocking every later reader) and then waits for the present readers to *)
(* leave.  A thread that already holds a read guard and asks for a second  *)
(* one therefore blocks behind a waiting writer.                           *)
(*                                                                         *)
(* Each handler is a program: a sequence of lock steps and data steps      *)
(* taken from the handler's code.  The only data kept is what the safety   *)
(* property reads: the block number in `env` and the heights stored in     *)
(* `storage`.                                                              *)
(***************************************************************************)
EXTENDS Naturals, Sequences

CONSTANTS
    Miner,          \* the node service task that calls Backend::mine_block
    RpcThreads,     \* worker threads that serve RPC requests
    RpcHandlers,    \* names of the RPC handlers that requests may run
    MaxHeight,      \* bound on the number of blocks mined
    NoThread,       \* holder of a WRITER bit that nobody claimed
    NoNum           \* a height not yet read by a request

ASSUME /\ Miner \notin RpcThreads
       /\ MaxHeight \in Nat \ {0}

Threads == {Miner} \cup RpcThreads
Locks == {"env", "db", "storage"}

VARIABLES
    writer,     \* writer[l]: thread holding the WRITER bit of lock l
    writing,    \* writing[l]: the WRITER-bit holder got past the readers
    readers,    \* readers[l][t]: read guards of lock l held by thread t
    prog,       \* prog[t]: the handler thread t runs, or "Idle"
    pc,         \* pc[t]: index of the next step of prog[t]
    envNumber,  \* env.block.number
    stored,     \* heights h with storage.hashes[h] present
    readNum     \* readNum[t]: best number the request of t read from env

lockVars == <<writer, writing, readers>>
vars == <<writer, writing, readers, prog, pc, envNumber, stored, readNum>>

-----------------------------------------------------------------------------
(* Steps of a program.                                                     *)

Read(l)   == [op |-> "read", lock |-> l]
Write(l)  == [op |-> "write", lock |-> l]
Unlock(l) == [op |-> "unlock", lock |-> l]
Do(e)     == [op |-> "do", effect |-> e]

(* Mutant: the env guard is scoped to the number bump and dropped before  *)
(* the block is inserted into storage.                                     *)
MineBlockEarlyEnvRelease ==
    << Write("env"), Write("db"), Write("storage"),
       Do("bump"), Unlock("env"), Do("insert"),
       Unlock("storage"), Unlock("db") >>

(* Mutant: the block number is bumped twice, once here and once more when  *)
(* the executor builds the header.                                         *)
MineBlockDoubleBump ==
    << Write("env"), Write("db"), Write("storage"),
       Do("bump"), Do("bump"), Do("insert"),
       Unlock("storage"), Unlock("db"), Unlock("env") >>

(* Backend::mine_block: env, db, storage write guards, bump the block      *)
(* number, execute, insert the block, then the guards drop in reverse      *)
(* order of declaration.                                                   *)
MineBlock ==
    << Write("env"), Write("db"), Write("storage"),
       Do("bump"), Do("insert"),
       Unlock("storage"), Unlock("db"), Unlock("env") >>

(* Backend::logs with a range filter: best_number() reads env, then        *)
(* logs_for_range calls get_block and mined_logs_for_block, each taking    *)
(* and dropping its own storage read guard.                                *)
LogsByRange ==
    << Read("env"), Do("loadBest"), Unlock("env"),
       Read("storage"), Unlock("storage"),
       Read("storage"), Unlock("storage") >>

(* Backend::logs with a block hash, block found locally: the guard         *)
(* created in the `if let` scrutinee of logs_for_block lives through the   *)
(* body, where mined_logs_for_block takes a second storage read guard.     *)
LogsByBlockHash ==
    << Read("storage"), Read("storage"), Unlock("storage"),
       Unlock("storage") >>

(* Mutant: the storage guard of get_receipts is bound to a variable and    *)
(* still held when base_fee() reads env.                                   *)
TransactionReceiptHeldGuard ==
    << Read("storage"), Unlock("storage"), Read("storage"), Unlock("storage"),
       Read("storage"), Read("env"), Unlock("env"), Unlock("storage") >>

(* Backend::mined_transaction_receipt: two storage reads, get_receipts,    *)
(* then base_fee() reads env; no guard outlives its statement.             *)
TransactionReceipt ==
    << Read("storage"), Unlock("storage"), Read("storage"), Unlock("storage"),
       Read("storage"), Unlock("storage"), Read("env"), Unlock("env") >>

(* Backend::get_balance: convert_block_number reads env, then              *)
(* current_balance reads db.                                               *)
GetBalance ==
    << Read("env"), Unlock("env"), Read("db"), Unlock("db") >>

(* Backend::call: gas_limit() and the env clone read env; the db read      *)
(* guard is held while the EVM runs.                                       *)
Call ==
    << Read("env"), Unlock("env"), Read("env"), Unlock("env"),
       Read("db"), Unlock("db") >>

(* Backend::set_balance, set_nonce, set_code, set_storage_at.              *)
SetAccount == << Write("db"), Unlock("db") >>

(* Backend::set_base_fee.                                                  *)
SetBaseFee == << Write("env"), Unlock("env") >>

(* Backend::validate_transaction.                                          *)
ValidateTransaction == << Read("db"), Unlock("db") >>

(* Backend::mined_block_by_hash: storage read, then convert_block reads    *)
(* the base fee from env.                                                  *)
BlockByHash ==
    << Read("storage"), Unlock("storage"), Read("env"), Unlock("env") >>

(* Backend::block_by_number, block stored: get_block binds the storage    *)
(* guard to a local that drops when it returns, then convert_block reads   *)
(* the base fee from env.                                                  *)
BlockByNumber ==
    << Read("storage"), Unlock("storage"), Read("env"), Unlock("env") >>

(* Backend::transaction_by_hash and transaction_by_block_hash_and_index,   *)
(* transaction mined: two storage reads, each a statement temporary, then  *)
(* base_fee() for transaction_build reads env.                             *)
TransactionByHash ==
    << Read("storage"), Unlock("storage"), Read("storage"), Unlock("storage"),
       Read("env"), Unlock("env") >>

(* Backend::storage_at, get_code and get_nonce on the local chain:        *)
(* convert_block_number reads env for Latest, then db is read.             *)
StorageAt == << Read("env"), Unlock("env"), Read("db"), Unlock("db") >>

AllRpcHandlers ==
    [ LogsByRange |-> LogsByRange, LogsByBlockHash |-> LogsByBlockHash,
      TransactionReceipt |-> TransactionReceipt, GetBalance |-> GetBalance,
      Call |-> Call, SetAccount |-> SetAccount, SetBaseFee |-> SetBaseFee,
      ValidateTransaction |-> ValidateTransaction, BlockByHash |-> BlockByHash,
      BlockByNumber |-> BlockByNumber, TransactionByHash |-> TransactionByHash,
      StorageAt |-> StorageAt ]

ASSUME RpcHandlers \subseteq DOMAIN AllRpcHandlers

Program(h) == IF h = "MineBlock" THEN MineBlock ELSE AllRpcHandlers[h]

-----------------------------------------------------------------------------

Busy(t) == prog[t] # "Idle"
CurStep(t) == Program(prog[t])[pc[t]]
ReadersOf(l) == {t \in Threads : readers[l][t] > 0}

Init ==
    /\ writer = [l \in Locks |-> NoThread]
    /\ writing = [l \in Locks |-> FALSE]
    /\ readers = [l \in Locks |-> [t \in Threads |-> 0]]
    /\ prog = [t \in Threads |-> "Idle"]
    /\ pc = [t \in Threads |-> 1]
    /\ envNumber = 0
    /\ stored = {0}
    /\ readNum = [t \in Threads |-> NoNum]

(* The miner starts mining a block: NodeService polling a mine request.    *)
StartMine ==
    /\ ~Busy(Miner)
    /\ envNumber < MaxHeight
    /\ prog' = [prog EXCEPT ![Miner] = "MineBlock"]
    /\ pc' = [pc EXCEPT ![Miner] = 1]
    /\ UNCHANGED <<lockVars, envNumber, stored, readNum>>

(* An RPC request arrives on an idle worker thread.                        *)
StartRequest(t, h) ==
    /\ ~Busy(t)
    /\ prog' = [prog EXCEPT ![t] = h]
    /\ pc' = [pc EXCEPT ![t] = 1]
    /\ UNCHANGED <<lockVars, envNumber, stored, readNum>>

(* Advance past the current step; the request ends after its last step and *)
(* forgets what it read.                                                   *)
Advance(t) ==
    IF pc[t] = Len(Program(prog[t]))
    THEN /\ prog' = [prog EXCEPT ![t] = "Idle"]
         /\ pc' = [pc EXCEPT ![t] = 1]
         /\ readNum' = [readNum EXCEPT ![t] = NoNum]
    ELSE /\ pc' = [pc EXCEPT ![t] = @ + 1]
         /\ UNCHANGED <<prog, readNum>>

(* RwLock::read: no WRITER bit set, or the thread must park.              *)
AcquireRead(t) ==
    LET l == CurStep(t).lock IN
    /\ CurStep(t).op = "read"
    /\ writer[l] = NoThread
    /\ readers' = [readers EXCEPT ![l][t] = @ + 1]
    /\ Advance(t)
    /\ UNCHANGED <<writer, writing, envNumber, stored>>

(* RwLock::write, first half: take the WRITER bit, blocking new readers.   *)
ClaimWrite(t) ==
    LET l == CurStep(t).lock IN
    /\ CurStep(t).op = "write"
    /\ writer[l] = NoThread
    /\ writer' = [writer EXCEPT ![l] = t]
    /\ UNCHANGED <<writing, readers, prog, pc, envNumber, stored, readNum>>

(* RwLock::write, second half: wait_for_readers, then own the lock.        *)
EnterWrite(t) ==
    LET l == CurStep(t).lock IN
    /\ CurStep(t).op = "write"
    /\ writer[l] = t
    /\ ReadersOf(l) = {}
    /\ writing' = [writing EXCEPT ![l] = TRUE]
    /\ Advance(t)
    /\ UNCHANGED <<writer, readers, envNumber, stored>>

(* A guard is dropped.                                                     *)
Release(t) ==
    LET l == CurStep(t).lock IN
    /\ CurStep(t).op = "unlock"
    /\ IF writer[l] = t /\ writing[l]
       THEN /\ writer' = [writer EXCEPT ![l] = NoThread]
            /\ writing' = [writing EXCEPT ![l] = FALSE]
            /\ UNCHANGED readers
       ELSE /\ readers' = [readers EXCEPT ![l][t] = @ - 1]
            /\ UNCHANGED <<writer, writing>>
    /\ Advance(t)
    /\ UNCHANGED <<envNumber, stored>>

(* mine_block line: env.block.number = env.block.number + 1.               *)
Bump(t) ==
    /\ CurStep(t).op = "do" /\ CurStep(t).effect = "bump"
    /\ envNumber' = envNumber + 1
    /\ Advance(t)
    /\ UNCHANGED <<lockVars, stored>>

(* mine_block: storage.best_number, best_hash, blocks, hashes updated.     *)
InsertBlock(t) ==
    /\ CurStep(t).op = "do" /\ CurStep(t).effect = "insert"
    /\ stored' = stored \cup {envNumber}
    /\ Advance(t)
    /\ UNCHANGED <<lockVars, envNumber>>

(* best_number(): the request reads env.block.number (never a last step).  *)
LoadBest(t) ==
    /\ CurStep(t).op = "do" /\ CurStep(t).effect = "loadBest"
    /\ readNum' = [readNum EXCEPT ![t] = envNumber]
    /\ pc' = [pc EXCEPT ![t] = @ + 1]
    /\ UNCHANGED <<lockVars, prog, envNumber, stored>>

Step(t) ==
    /\ Busy(t)
    /\ \/ AcquireRead(t) \/ ClaimWrite(t) \/ EnterWrite(t) \/ Release(t)
       \/ Bump(t) \/ InsertBlock(t) \/ LoadBest(t)

Next ==
    \/ StartMine
    \/ \E t \in RpcThreads, h \in RpcHandlers : StartRequest(t, h)
    \/ \E t \in Threads : Step(t)

(* parking_lot locks are eventually fair (a releasing thread hands the     *)
(* lock over fairly at least every 0.5ms), so a thread that is repeatedly  *)
(* able to take a lock eventually does: strong fairness on every step.     *)
(* Starting a request or a mine is not fair: clients may stay silent.      *)
Fairness == \A t \in Threads : SF_vars(Step(t))

Spec == Init /\ [][Next]_vars /\ Fairness

-----------------------------------------------------------------------------

TypeOK ==
    /\ writer \in [Locks -> Threads \cup {NoThread}]
    /\ writing \in [Locks -> BOOLEAN]
    /\ readers \in [Locks -> [Threads -> 0..2]]
    /\ prog \in [Threads -> DOMAIN AllRpcHandlers \cup {"MineBlock", "Idle"}]
    /\ envNumber \in 0..MaxHeight
    /\ stored \subseteq 0..MaxHeight
    /\ readNum \in [Threads -> 0..MaxHeight \cup {NoNum}]

(* A request that read the best block number from env finds that block in  *)
(* storage: mine_block must hold the env write guard from the number bump  *)
(* until the block is inserted, or logs_for_range reads a height whose     *)
(* block is missing and silently skips it.                                 *)
ReadHeightStored ==
    \A t \in RpcThreads : readNum[t] # NoNum => readNum[t] \in stored

(* Every request that starts eventually completes, and so does every mine: *)
(* no set of tasks waits on one another's guards forever.                  *)
RequestsComplete == \A t \in Threads : Busy(t) ~> ~Busy(t)

=============================================================================

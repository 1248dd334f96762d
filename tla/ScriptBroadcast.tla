-------------------------- MODULE ScriptBroadcast --------------------------
(***************************************************************************)
(* forge script's broadcast of a deployment sequence and its --resume      *)
(* (src/cli/src/cmd/forge/script/broadcast.rs).                            *)
(*                                                                         *)
(* The sequence holds N transactions of one account with nonces 0..N-1.   *)
(* Each invocation of send_transactions skips the receipts the sequence    *)
(* already records and sends the rest: one at a time, with a nonce check   *)
(* and a wait for the receipt when more than one wallet is unlocked         *)
(* (sequential), or all at once, joined by wait_for_receipts, otherwise.   *)
(* The node mines the pending transaction whose nonce is the account's.   *)
(* A send may fail before reaching the node or after it (reply lost).      *)
(* The first invocation comes from handle_broadcastable_transactions,      *)
(* after every transaction was simulated on the fork; a failed simulation  *)
(* or a run without --broadcast sends nothing.                             *)
(***************************************************************************)
EXTENDS Naturals, Sequences, SequencesExt

CONSTANTS
    N,             \* transactions in the deployment sequence
    MaxFailures,   \* transport failures over the whole behaviour
    MaxRuns,       \* invocations of forge script (the first and resumes)
    Modes          \* values of local_wallets.len() != 1 to explore

Txs == 0 .. N-1

VARIABLES
    broadcast,   \* the --broadcast flag
    simulated,   \* execute_transactions has run
    simFailed,   \* txs whose simulation failed
    sequential,  \* local_wallets.len() != 1, fixed for the deployment
    receipts,    \* deployment_sequence.receipts: tx indices, persisted
    chainNonce,  \* the account's nonce on chain: txs below it are mined
    pool,        \* txs the node holds but has not mined
    running,     \* send_transactions is executing
    fut,         \* per tx of this run: Skip, Idle, Checked, Pending, Ok or Err
    local,       \* the run's `receipts` vector (sequential mode)
    runs,
    failures

vars == <<broadcast, simulated, simFailed, sequential, receipts, chainNonce, pool, running, fut, local, runs, failures>>

States == {"Skip", "Idle", "Checked", "Pending", "Ok", "Err"}

Init ==
    /\ broadcast \in BOOLEAN
    /\ simulated = FALSE
    /\ simFailed = {}
    /\ sequential \in Modes
    /\ receipts = <<>>
    /\ chainNonce = 0
    /\ pool = {}
    /\ running = FALSE
    /\ fut = [i \in Txs |-> "Skip"]
    /\ local = <<>>
    /\ runs = 0
    /\ failures = 0

CanFail == failures < MaxFailures

\* The run ends with an error: the `?` returns before add_receipts, so
\* the receipts collected by this run are dropped.
Abort ==
    /\ running' = FALSE
    /\ local' = <<>>
    /\ UNCHANGED receipts

(* send_transactions entry: the sequence is the transactions after the     *)
(* receipts already recorded.                                              *)
StartRun ==
    /\ running' = TRUE
    /\ runs' = runs + 1
    /\ fut' = [i \in Txs |-> IF i < Len(receipts) THEN "Skip" ELSE "Idle"]
    /\ local' = <<>>

(* execute_transactions: simulates every tx on the fork (a failing one     *)
(* sets `failed`, never clears it) and bails if any failed.                *)
ExecuteTransactions(failed) == failed # {}

(* handle_broadcastable_transactions: simulate, then with --broadcast call *)
(* send_transactions on the new sequence, which has no receipts yet.       *)
HandleBroadcastableTransactions ==
    /\ ~simulated
    /\ simulated' = TRUE
    /\ \E failed \in SUBSET Txs :
          /\ simFailed' = failed
          /\ IF ~ExecuteTransactions(failed) /\ broadcast
             THEN StartRun
             ELSE UNCHANGED <<running, runs, fut, local>>
    /\ UNCHANGED <<broadcast, sequential, receipts, chainNonce, pool, failures>>

(* A later invocation with --resume: send_transactions on the sequence as  *)
(* it was saved.                                                           *)
SendTransactions ==
    /\ ~running
    /\ runs > 0
    /\ runs < MaxRuns
    /\ Len(receipts) < N
    /\ StartRun
    /\ UNCHANGED <<broadcast, simulated, simFailed, sequential, receipts, chainNonce, pool, failures>>

\* The node accepts a tx unless its nonce is used or it already holds it.
Accepts(i) == i >= chainNonce /\ i \notin pool

(* broadcast(signer, tx): the node accepts it, the request fails before    *)
(* reaching the node, or the node takes it and the reply is lost.          *)
Broadcast(i) ==
    \/ /\ Accepts(i)
       /\ pool' = pool \cup {i}
       /\ fut' = [fut EXCEPT ![i] = "Pending"]
       /\ UNCHANGED failures
    \/ /\ ~Accepts(i)
       /\ fut' = [fut EXCEPT ![i] = "Err"]
       /\ UNCHANGED <<pool, failures>>
    \/ /\ CanFail
       /\ failures' = failures + 1
       /\ fut' = [fut EXCEPT ![i] = "Err"]
       /\ pool' = IF Accepts(i) THEN pool \cup {i} ELSE pool
    \/ /\ CanFail
       /\ failures' = failures + 1
       /\ fut' = [fut EXCEPT ![i] = "Err"]
       /\ UNCHANGED pool

NextIdle == Min({i \in Txs : fut[i] = "Idle"})

(* Sequential mode, send_transaction for the next tx once the previous    *)
(* receipt is in: next_nonce queries the account's nonce (a failed query   *)
(* bails), and a nonce other than the tx's bails; an error ends the run.   *)
NextNonce ==
    /\ running /\ sequential
    /\ \E i \in Txs : fut[i] = "Idle"
    /\ \A i \in Txs : fut[i] \notin {"Checked", "Pending"}
    /\ LET i == NextIdle IN
       \/ /\ chainNonce = i
          /\ fut' = [fut EXCEPT ![i] = "Checked"]
          /\ UNCHANGED <<running, local, receipts, failures>>
       \/ /\ chainNonce # i
          /\ Abort /\ UNCHANGED <<fut, failures>>
       \/ /\ CanFail
          /\ failures' = failures + 1
          /\ Abort /\ UNCHANGED fut
    /\ UNCHANGED <<broadcast, simulated, simFailed, sequential, chainNonce, pool, runs>>

(* Sequential mode, the broadcast after the nonce check: the node may have *)
(* mined a tx of the account in between, so the check can be stale.        *)
SendSequential ==
    /\ running /\ sequential
    /\ \E i \in Txs :
          /\ fut[i] = "Checked"
          /\ Broadcast(i)
          /\ IF fut'[i] = "Err" THEN Abort
             ELSE UNCHANGED <<running, local, receipts>>
    /\ UNCHANGED <<broadcast, simulated, simFailed, sequential, chainNonce, runs>>

\* Mutant: the receipt is taken as soon as the node accepts the tx.
AwaitSequentialNoWait(i) ==
    /\ running /\ sequential /\ fut[i] = "Pending"
    /\ fut' = [fut EXCEPT ![i] = "Ok"]
    /\ local' = Append(local, i)
    /\ UNCHANGED <<broadcast, simulated, simFailed, running, receipts, failures, sequential, chainNonce, pool, runs>>

\* Mutant: the receipt is awaited with one more confirmation block.
AwaitSequentialLate(i) ==
    /\ running /\ sequential /\ fut[i] = "Pending"
    /\ i + 1 < chainNonce
    /\ fut' = [fut EXCEPT ![i] = "Ok"]
    /\ local' = Append(local, i)
    /\ UNCHANGED <<broadcast, simulated, simFailed, running, receipts, failures, sequential, chainNonce, pool, runs>>

(* Sequential mode: `receipt.await?` resolves when the tx is mined, or    *)
(* fails while polling.                                                     *)
AwaitSequential(i) ==
    /\ running /\ sequential /\ fut[i] = "Pending"
    /\ \/ /\ i < chainNonce
          /\ fut' = [fut EXCEPT ![i] = "Ok"]
          /\ local' = Append(local, i)
          /\ UNCHANGED <<running, receipts, failures>>
       \/ /\ CanFail
          /\ failures' = failures + 1
          /\ fut' = [fut EXCEPT ![i] = "Err"]
          /\ Abort
    /\ UNCHANGED <<broadcast, simulated, simFailed, sequential, chainNonce, pool, runs>>

\* Sequential mode, all sent and mined: add_receipts(receipts).
FinishSequential ==
    /\ running /\ sequential
    /\ \A i \in Txs : fut[i] \in {"Skip", "Ok"}
    /\ receipts' = receipts \o local
    /\ running' = FALSE /\ local' = <<>>
    /\ UNCHANGED <<broadcast, simulated, simFailed, sequential, chainNonce, pool, fut, runs, failures>>

\* Single wallet: every send future runs concurrently under join_all.
SendConcurrent(i) ==
    /\ running /\ ~sequential /\ fut[i] = "Idle"
    /\ Broadcast(i)
    /\ UNCHANGED <<broadcast, simulated, simFailed, sequential, receipts, chainNonce, running, local, runs>>

AwaitConcurrent(i) ==
    /\ running /\ ~sequential /\ fut[i] = "Pending"
    /\ \/ /\ i < chainNonce
          /\ fut' = [fut EXCEPT ![i] = "Ok"]
          /\ UNCHANGED failures
       \/ /\ CanFail
          /\ failures' = failures + 1
          /\ fut' = [fut EXCEPT ![i] = "Err"]
    /\ UNCHANGED <<broadcast, simulated, simFailed, sequential, receipts, chainNonce, pool, running, local, runs>>

(* wait_for_receipts: once join_all has every result, the first Err is    *)
(* returned and add_receipts is never reached; otherwise the receipts,     *)
(* sorted by nonce, are added.                                             *)
WaitForReceipts ==
    /\ running /\ ~sequential
    /\ \A i \in Txs : fut[i] \in {"Skip", "Ok", "Err"}
    /\ IF \E i \in Txs : fut[i] = "Err"
       THEN UNCHANGED receipts
       ELSE receipts' = receipts \o
                SetToSortSeq({i \in Txs : fut[i] = "Ok"}, <)
    /\ running' = FALSE
    /\ UNCHANGED <<broadcast, simulated, simFailed, sequential, chainNonce, pool, fut, local, runs, failures>>

\* The node mines the pending tx that carries the account's nonce.
Mine ==
    /\ chainNonce \in pool
    /\ pool' = pool \ {chainNonce}
    /\ chainNonce' = chainNonce + 1
    /\ UNCHANGED <<broadcast, simulated, simFailed, sequential, receipts, running, fut, local, runs, failures>>

Next ==
    \/ HandleBroadcastableTransactions
    \/ SendTransactions
    \/ NextNonce
    \/ SendSequential
    \/ FinishSequential
    \/ WaitForReceipts
    \/ Mine
    \/ \E i \in Txs : AwaitSequential(i) \/ SendConcurrent(i) \/ AwaitConcurrent(i)

(* Every step of a run is taken once enabled (the tokio task is polled),   *)
(* anvil mines what it can, and the user resumes an incomplete deployment. *)
Fairness ==
    /\ WF_vars(HandleBroadcastableTransactions)
    /\ WF_vars(SendTransactions)
    /\ WF_vars(NextNonce)
    /\ WF_vars(SendSequential)
    /\ WF_vars(FinishSequential)
    /\ WF_vars(WaitForReceipts)
    /\ WF_vars(Mine)
    /\ \A i \in Txs : /\ WF_vars(AwaitSequential(i))
                     /\ WF_vars(SendConcurrent(i))
                     /\ WF_vars(AwaitConcurrent(i))

Spec == Init /\ [][Next]_vars /\ Fairness

-----------------------------------------------------------------------------

(* The receipts the deployment sequence records are those of its first    *)
(* transactions, in order, and each of them is mined: --resume skips       *)
(* exactly Len(receipts) transactions, so a recorded receipt for a tx that *)
(* is not mined, or out of place, makes a resume skip or repeat a tx.      *)
ReceiptsRecordMinedPrefix ==
    /\ receipts = [k \in 1 .. Len(receipts) |-> k - 1]
    /\ Len(receipts) <= chainNonce

(* Every invocation of send_transactions ends, successfully or with an     *)
(* error.                                                                  *)
RunEnds == running ~> ~running

(* With more than one wallet, where each tx is awaited before the next is  *)
(* sent, every invocation ends.                                            *)
SequentialRunEnds == sequential => RunEnds

(* When a run of send_transactions ends, every transaction whose receipt  *)
(* it obtained is recorded in the deployment sequence. --resume ("Resumes  *)
(* submitting transactions that failed or timed-out previously") skips     *)
(* exactly the recorded receipts, so a receipt obtained and not recorded   *)
(* makes the resume re-send a mined transaction, whose nonce is used.      *)
ReceiptsKept ==
    [][running /\ ~running' =>
         \A i \in Txs : fut'[i] = "Ok" => i \in Range(receipts')]_vars

=============================================================================

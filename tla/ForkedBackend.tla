---------------------------- MODULE ForkedBackend ----------------------------
(***************************************************************************)
(* ForkMemoryBackend (src/evm-adapters/src/sputnik/forked_backend.rs): the *)
(* sputnik Backend that reads a remote chain pinned at a block, through a  *)
(* RefCell'd BTreeMap of accounts. Reads are made one at a time by the     *)
(* EVM (the RefCell admits no concurrency). A remote call may fail; the    *)
(* code then uses the default value (unwrap_or_default).                   *)
(***************************************************************************)
EXTENDS Naturals, TLC

CONSTANTS
    Addrs, Slots, Remote, RemoteStorage, ZeroAccount, ZeroWord,
    MaxFailures, NoAnswer

VARIABLES
    cache,     \* cache: addr -> MemoryAccount [nonce, balance, code]
    answer,    \* the value the last read returned to the EVM
    failures   \* remote calls that failed so far

vars == <<cache, answer, failures>>

Abs == INSTANCE ForkState

NonEmpty(acct) == Abs!NonEmpty(acct)

Init ==
    /\ cache = <<>>
    /\ answer = NoAnswer
    /\ failures = 0

(* provider.get_account(address, pin_block).unwrap_or_default(): the       *)
(* remote account, or the default account after a failed call, together    *)
(* with the failure count after the call.                                   *)
GetAccount(a) ==
    {[acct |-> Remote[a], failures |-> failures]}
    \cup (IF failures < MaxFailures
          THEN {[acct |-> ZeroAccount, failures |-> failures + 1]}
          ELSE {})

Answer(op, a, s, v) == [op |-> op, addr |-> a, slot |-> s, value |-> v]

(* exists: a cached address exists; otherwise the account is fetched,      *)
(* inserted with or_insert_with, and exists iff it is non-empty.           *)
Exists(a) ==
    IF a \in DOMAIN cache
    THEN /\ answer' = Answer("exists", a, NoAnswer, TRUE)
         /\ UNCHANGED <<cache, failures>>
    ELSE \E r \in GetAccount(a) :
            /\ cache' = (a :> r.acct) @@ cache
            /\ failures' = r.failures
            /\ answer' = Answer("exists", a, NoAnswer, NonEmpty(r.acct))

(* basic: the cached nonce and balance, or the fetched ones; on a miss     *)
(* get_mut finds no entry, so nothing is cached.                           *)
Basic(a) ==
    IF a \in DOMAIN cache
    THEN /\ answer' = Answer("basic", a, NoAnswer,
                          [nonce |-> cache[a].nonce, balance |-> cache[a].balance])
         /\ UNCHANGED <<cache, failures>>
    ELSE \E r \in GetAccount(a) :
            /\ failures' = r.failures
            /\ answer' = Answer("basic", a, NoAnswer,
                             [nonce |-> r.acct.nonce, balance |-> r.acct.balance])
            /\ UNCHANGED cache

(* code: the cached code, or provider.get_code(..).unwrap_or_default().    *)
Code(a) ==
    IF a \in DOMAIN cache
    THEN /\ answer' = Answer("code", a, NoAnswer, cache[a].code)
         /\ UNCHANGED <<cache, failures>>
    ELSE \E r \in GetAccount(a) :
            /\ failures' = r.failures
            /\ answer' = Answer("code", a, NoAnswer, r.acct.code)
            /\ UNCHANGED cache

(* provider.get_storage_at(address, index, pin_block).unwrap_or_default(). *)
GetStorageAt(a, s) ==
    {[value |-> RemoteStorage[a][s], failures |-> failures]}
    \cup (IF failures < MaxFailures
          THEN {[value |-> ZeroWord, failures |-> failures + 1]}
          ELSE {})

\* Mutant: a slot missing from a cached account reads as zero.
StorageCachedZero(a, s) ==
    IF a \in DOMAIN cache
    THEN /\ answer' = Answer("storage", a, s, ZeroWord)
         /\ UNCHANGED <<cache, failures>>
    ELSE \E r \in GetStorageAt(a, s) :
            /\ failures' = r.failures
            /\ answer' = Answer("storage", a, s, r.value)
            /\ UNCHANGED cache

(* storage: the storage map of a cached account is never written here, so  *)
(* the lookup always misses and every read goes to the remote.             *)
Storage(a, s) ==
    \E r \in GetStorageAt(a, s) :
        /\ failures' = r.failures
        /\ answer' = Answer("storage", a, s, r.value)
        /\ UNCHANGED cache

Next ==
    \E a \in Addrs :
        \/ Exists(a)
        \/ Basic(a)
        \/ Code(a)
        \/ \E s \in Slots : Storage(a, s)

Spec == Init /\ [][Next]_vars

-----------------------------------------------------------------------------

(* ForkMemoryBackend implements ForkState: every read answers the pinned   *)
(* remote state, or the default when that very call failed.                *)
AbsSpec == Abs!Spec

=============================================================================

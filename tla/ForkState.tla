----------------------------- MODULE ForkState -----------------------------
(***************************************************************************)
(* What a forked backend promises its EVM: every read answers from the     *)
(* remote chain's state at the pinned block, which never changes. A read   *)
(* whose remote call fails answers the default (zero) value; a read that   *)
(* does not fail answers the remote value, whatever failed before.         *)
(***************************************************************************)
EXTENDS Naturals

CONSTANTS
    Addrs, Slots,
    Remote,          \* addr -> [nonce, balance, code] at the pinned block
    RemoteStorage,   \* addr -> slot -> value at the pinned block
    ZeroAccount,     \* the default account: unwrap_or_default()
    ZeroWord,
    MaxFailures,
    NoAnswer

VARIABLES answer, failures

\* Sputnik's notion of existence: a non-empty account.
NonEmpty(acct) ==
    acct.balance # 0 \/ acct.nonce # 0 \/ acct.code # ZeroAccount.code

\* The answer the remote state gives to each read.
Truth(op, a, s) ==
    CASE op = "exists"  -> NonEmpty(Remote[a])
      [] op = "basic"   -> [nonce |-> Remote[a].nonce, balance |-> Remote[a].balance]
      [] op = "code"    -> Remote[a].code
      [] op = "storage" -> RemoteStorage[a][s]

\* The answer of a read whose remote call failed.
Default(op) ==
    CASE op = "exists"  -> NonEmpty(ZeroAccount)
      [] op = "basic"   -> [nonce |-> ZeroAccount.nonce, balance |-> ZeroAccount.balance]
      [] op = "code"    -> ZeroAccount.code
      [] op = "storage" -> ZeroWord

Ops == {"exists", "basic", "code", "storage"}

Init == answer = NoAnswer /\ failures = 0

Read(op, a, s) ==
    \/ /\ answer' = [op |-> op, addr |-> a, slot |-> s, value |-> Truth(op, a, s)]
       /\ UNCHANGED failures
    \/ /\ failures < MaxFailures
       /\ failures' = failures + 1
       /\ answer' = [op |-> op, addr |-> a, slot |-> s, value |-> Default(op)]

\* Account reads carry no slot.
Next ==
    \E a \in Addrs :
        \/ \E op \in Ops \ {"storage"} : Read(op, a, NoAnswer)
        \/ \E s \in Slots : Read("storage", a, s)

Spec == Init /\ [][Next]_<<answer, failures>>

=============================================================================

---------------------------- MODULE InvariantFuzz ----------------------------
(***************************************************************************)
(* The invariant fuzzer (src/evm/src/fuzz/invariant.rs): proptest runs     *)
(* Cases test cases; each case is a sequence of calls to the targeted      *)
(* contracts, executed and committed one by one on the executor's db,      *)
(* with the invariant functions called after every call that did not       *)
(* revert. A call that creates a contract starts a new branch: the rest of *)
(* the sequence is generated afresh. After each case the db is reset to    *)
(* the state after setUp and the created contracts are untargeted.         *)
(*                                                                         *)
(* The EVM and the contracts under test are abstracted: the db is a number *)
(* st, each call kind adds Bump[c] to it, reverts, or creates a contract,  *)
(* and an invariant i holds while st < Limit[i].                           *)
(***************************************************************************)
EXTENDS Naturals, Sequences, SequencesExt, FiniteSets

CONSTANTS
    Calls,          \* call kinds the strategy can generate
    Bump,           \* Bump[c]: how a call changes the db
    Reverting,      \* calls that revert
    Creating,       \* calls that deploy a new contract
    Invariants,     \* the invariant functions of the test contract
    Limit,          \* invariant i holds while st < Limit[i]
    Depth,          \* invariant_depth
    Cases,          \* proptest cases
    FailOnRevert,   \* fail_on_revert
    None

VARIABLES
    phase,    \* "idle" between cases, "call" inside one, "done"
    case,     \* cases run so far
    inputs,   \* the case's call sequence (replaced in place on a branch)
    cd,       \* current_depth
    st,       \* the executor's db
    reverts,  \* the reverts Cell, shared by all cases
    record,   \* invariant_doesnt_hold: name -> None or [origin, seq]
    created   \* contracts created and targeted in this case

vars == <<phase, case, inputs, cd, st, reverts, record, created>>

Clean == 0                   \* clean_db: the state after setUp
Holds(i, s) == s < Limit[i]

\* invariant_strat: a vector of 1 ..= depth generated calls.
InvariantStrat(d) == UNION {[1 .. n -> Calls] : n \in 1 .. d}

Init ==
    /\ phase = "idle"
    /\ case = 0
    /\ inputs = <<>>
    /\ cd = 0
    /\ st = Clean
    /\ reverts = 0
    /\ record = [i \in Invariants |-> None]
    /\ created = 0

(* The test closure's entry: with fail_on_revert, any revert of an earlier *)
(* case fails the test at once and proptest stops.                         *)
StartCase ==
    /\ phase = "idle"
    /\ case < Cases
    /\ IF FailOnRevert /\ reverts > 0
       THEN /\ phase' = "done"
            /\ UNCHANGED <<case, inputs, cd>>
       ELSE /\ \E in \in InvariantStrat(Depth) : inputs' = in
            /\ cd' = 0
            /\ phase' = "call"
            /\ UNCHANGED case
    /\ UNCHANGED <<st, reverts, record, created>>

(* assert_invariants: call every invariant; a failing one is inserted in   *)
(* invariant_doesnt_hold with the inputs so far; the sequence is cut when  *)
(* the map has grown.                                                      *)
AssertInvariants(s, prefix) ==
    LET broken == {i \in Invariants : ~Holds(i, s)}
        rec == [i \in DOMAIN record \cup broken |->
                   IF i \in broken THEN [origin |-> i, seq |-> prefix]
                   ELSE record[i]]
    IN [record |-> rec,
        bail   |-> Cardinality(DOMAIN rec) > Cardinality(DOMAIN record)]

\* The test closure's exit: reset the db and untarget created contracts.
EndCase ==
    /\ phase' = "idle"
    /\ case' = case + 1
    /\ st' = Clean
    /\ created' = 0

(* One iteration of the 'inner loop: call_raw, commit the state changeset, *)
(* then check the invariants, or count the revert and, with                *)
(* fail_on_revert, mark every invariant as failed by it. A created         *)
(* contract branches: the rest of the inputs are regenerated.              *)
CallInput ==
    /\ phase = "call"
    /\ LET c      == inputs[cd + 1]
           s      == IF c \in Reverting THEN st ELSE st + Bump[c]
           prefix == SubSeq(inputs, 1, cd + 1)
           chk    == AssertInvariants(s, prefix)
           stop   == IF c \in Reverting THEN FailOnRevert ELSE chk.bail
           branch == c \in Creating /\ c \notin Reverting /\ ~stop
       IN /\ reverts' = IF c \in Reverting THEN reverts + 1 ELSE reverts
          /\ record' = CASE c \notin Reverting -> chk.record
                         [] FailOnRevert -> [i \in Invariants |->
                                               [origin |-> "Revert", seq |-> prefix]] @@ record
                         [] OTHER -> record
          /\ IF stop \/ cd + 1 = Len(inputs)
             THEN EndCase /\ UNCHANGED <<inputs, cd>>
             ELSE /\ cd' = cd + 1
                  /\ st' = s
                  /\ created' = IF branch THEN created + 1 ELSE created
                  /\ \/ ~branch /\ inputs' = inputs
                     \/ /\ branch
                        /\ \E new \in [1 .. Len(inputs) - (cd + 1) -> Calls] :
                              inputs' = SubSeq(inputs, 1, cd + 1) \o new
                  /\ UNCHANGED <<phase, case>>

Next == StartCase \/ CallInput

Spec == Init /\ [][Next]_vars

-----------------------------------------------------------------------------

\* The db after running a call sequence from the state after setUp.
Replay(seq) ==
    FoldLeft(LAMBDA s, c : IF c \in Reverting THEN s ELSE s + Bump[c], Clean, seq)

(* The counterexample reported for a broken invariant ("hammer the         *)
(* deployed contracts ... until it finds a counterexample sequence") is    *)
(* the sequence up to the call that broke it: replayed from setUp it       *)
(* breaks the invariant, and no earlier checked call of it does.           *)
RecordIsFirstBreak ==
    \A i \in DOMAIN record :
        (record[i] # None /\ record[i].origin = i) =>
            LET q == record[i].seq IN
            /\ ~Holds(i, Replay(q))
            /\ \A k \in 1 .. Len(q) - 1 :
                  q[k] \notin Reverting => Holds(i, Replay(SubSeq(q, 1, k)))

=============================================================================

------------------------------ MODULE Linker ------------------------------
(***************************************************************************)
(* Library linking for a script target (src/crates/forge/src/link.rs) and *)
(* the library deploy transactions built from its output                   *)
(* (create_deploy_transactions, src/cli/src/cmd/forge/script/mod.rs).      *)
(*                                                                         *)
(* Artifacts are the target and a few libraries; refs[a] is the set of     *)
(* libraries a's bytecode has link references to (a graph that may have   *)
(* cycles). The user may provide addresses for some libraries. Every other *)
(* library the target needs gets the address sender.create(nonce), in the  *)
(* order in which a HashSet iterates, which the code does not fix: every   *)
(* order is a possible run.                                                *)
(***************************************************************************)
EXTENDS Naturals, Sequences, SequencesExt, Relation

CONSTANTS
    Target,     \* the contract being linked
    Libs,       \* library artifacts
    Nonce0,     \* the sender's nonce passed to link_with_nonce_or_address
    NoAddress   \* no entry in `libraries`

Artifacts == {Target} \cup Libs

\* sender.create(nonce): the CREATE address, injective in the nonce.
Create(n) == <<"create", n>>
UserAddress == "user"
BadAddress == "bad"     \* a user-given address Address::from_str rejects

VARIABLES
    refs,           \* all_link_references of each artifact
    given,          \* the libraries the user passed in
    libraries,      \* libraries.libs: lib -> address
    needed,         \* needed_libraries
    libsToDeploy,   \* libs_to_deploy, in push order
    nonce,          \* nonce after the loop
    deployTxs,      \* the deploy transactions: [lib, nonce] in order
    linked,         \* the linked contracts: linked[a][l] is the address
                    \* a's reference to l holds, NoAddress if unlinked
    phase

vars == <<refs, given, libraries, needed, libsToDeploy, nonce, deployTxs, linked, phase>>

(* collect_dependencies: depth-first over the link references; a library  *)
(* is descended into only when deps.insert(id) reports it new.            *)
\* Mutant: only the direct references of the target are collected.
CollectDependenciesDirect(t, deps) == deps \cup refs[t]

RECURSIVE CollectDependencies(_, _), CollectEach(_, _)
CollectEach(ids, deps) ==
    IF ids = {} THEN deps
    ELSE LET id == CHOOSE x \in ids : TRUE
         IN  CollectEach(ids \ {id},
                         IF id \in deps THEN deps
                         ELSE CollectDependencies(id, deps \cup {id}))

CollectDependencies(t, deps) == CollectEach(refs[t], deps)

(* One iteration of the loop over needed_libraries: or_insert_with gives  *)
(* a library without an address the next CREATE address, pushes it to     *)
(* libs_to_deploy and bumps the nonce.                                      *)
\* Mutant: the nonce is bumped for every library, provided or not.
AssignAddressAlwaysBump(acc, id) ==
    IF acc.libs[id] # NoAddress
    THEN [acc EXCEPT !.nonce = @ + 1]
    ELSE [libs   |-> [acc.libs EXCEPT ![id] = Create(acc.nonce)],
          deploy |-> Append(acc.deploy, id),
          nonce  |-> acc.nonce + 1]

AssignAddress(acc, id) ==
    IF acc.libs[id] # NoAddress
    THEN acc
    ELSE [libs   |-> [acc.libs EXCEPT ![id] = Create(acc.nonce)],
          deploy |-> Append(acc.deploy, id),
          nonce  |-> acc.nonce + 1]

\* Mutant: only the target's own references are linked.
LinkTargetOnly(libs) ==
    [a \in Artifacts |-> [l \in refs[a] |-> IF a = Target THEN libs[l] ELSE NoAddress]]

(* link(contracts, libraries): every artifact gets each library of        *)
(* `libraries` linked into its bytecode; a reference to a library with no *)
(* entry stays a placeholder.                                               *)
Link(libs) == [a \in Artifacts |-> [l \in refs[a] |-> libs[l]]]

Init ==
    /\ refs \in [Artifacts -> SUBSET Libs]
    /\ given \in [Libs -> {NoAddress, UserAddress, BadAddress}]
    /\ libraries = given
    /\ needed = {}
    /\ libsToDeploy = <<>>
    /\ nonce = Nonce0
    /\ deployTxs = <<>>
    /\ linked = [a \in Artifacts |-> [l \in refs[a] |-> NoAddress]]
    /\ phase = "init"

(* link_with_nonce_or_address: collect the dependencies, assign addresses *)
(* in some iteration order of the HashSet, then link every contract. link  *)
(* parses every entry of `libraries`, needed or not, and its `?` fails the *)
(* whole call on one it cannot parse.                                      *)
LinkWithNonceOrAddress ==
    /\ phase = "init"
    /\ LET deps == CollectDependencies(Target, {}) IN
       \E order \in SetToSeqs(deps) :
          LET out == FoldLeft(AssignAddress,
                        [libs |-> libraries, deploy |-> <<>>, nonce |-> Nonce0],
                        order)
          IN IF \E l \in Libs : out.libs[l] = BadAddress
             THEN /\ phase' = "failed"
                  /\ UNCHANGED <<needed, libraries, libsToDeploy, nonce, linked>>
             ELSE /\ needed' = deps
                  /\ libraries' = out.libs
                  /\ libsToDeploy' = out.deploy
                  /\ nonce' = out.nonce
                  /\ linked' = Link(out.libs)
                  /\ phase' = "linked"
    /\ UNCHANGED <<refs, given, deployTxs>>

\* Mutant: the i-th transaction is numbered from one.
CreateDeployTransactionsOneBased ==
    /\ phase = "linked"
    /\ deployTxs' = [i \in 1 .. Len(libsToDeploy) |->
                        [lib |-> libsToDeploy[i], nonce |-> Nonce0 + i]]
    /\ phase' = "deploy"
    /\ UNCHANGED <<refs, given, libraries, needed, libsToDeploy, nonce, linked>>

(* create_deploy_transactions(from, nonce, data): the i-th library         *)
(* (enumerate, from zero) is sent with nonce + i.                          *)
CreateDeployTransactions ==
    /\ phase = "linked"
    /\ deployTxs' = [i \in 1 .. Len(libsToDeploy) |->
                        [lib |-> libsToDeploy[i], nonce |-> Nonce0 + (i - 1)]]
    /\ phase' = "deploy"
    /\ UNCHANGED <<refs, given, libraries, needed, libsToDeploy, nonce, linked>>

Next == LinkWithNonceOrAddress \/ CreateDeployTransactions

Spec == Init /\ [][Next]_vars

-----------------------------------------------------------------------------

\* The link-reference graph as a relation, and the libraries it reaches.
RefRelation == [p \in Artifacts \X Artifacts |-> p[2] \in refs[p[1]]]
Reachable == {l \in Libs : TransitiveClosure(RefRelation, Artifacts)[Target, l]}

(* collect_dependencies finds exactly the libraries reachable from the    *)
(* target through link references, cycles and shared libraries included.  *)
NeededIsClosure == phase \in {"linked", "deploy"} => needed = Reachable

(* After linking, every library the target needs has an address, an      *)
(* address the user gave is kept, and each library without one is        *)
(* deployed exactly once, at consecutive nonces from the sender's.        *)
LinkedCompletely ==
    phase \in {"linked", "deploy"} =>
        /\ \A l \in needed : libraries[l] # NoAddress
        /\ \A l \in Libs : given[l] = UserAddress => libraries[l] = UserAddress
        /\ IsInjective(libsToDeploy)
        /\ nonce = Nonce0 + Len(libsToDeploy)

(* Each library deploy transaction lands at the address the contracts      *)
(* were linked against: its nonce is the one its CREATE address was        *)
(* computed from, and it deploys every library that had no address.        *)
DeployedWhereLinked ==
    phase = "deploy" =>
        /\ \A i \in DOMAIN deployTxs :
              libraries[deployTxs[i].lib] = Create(deployTxs[i].nonce)
        /\ {deployTxs[i].lib : i \in DOMAIN deployTxs}
              = {l \in needed : libraries[l] # UserAddress}

(* LinkOutput's promise: the target and all its dependencies come out     *)
(* fully linked, so that get_bytecode_bytes() of each library to deploy,   *)
(* unwrapped in link_with_nonce_or_address, has bytecode.                *)
FullyLinked ==
    phase \in {"linked", "deploy"} =>
        \A a \in {Target} \cup needed : \A l \in refs[a] : linked[a][l] # NoAddress

=============================================================================

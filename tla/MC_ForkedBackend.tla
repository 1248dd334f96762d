--------------------------- MODULE MC_ForkedBackend ---------------------------
EXTENDS ForkedBackend

CONSTANTS a1, a2, a3, s1, s2, none

MCAddrs == {a1, a2, a3}
MCSlots == {s1, s2}

\* Code is abstracted to empty ("") or some bytecode ("c").
MCZeroAccount == [nonce |-> 0, balance |-> 0, code |-> ""]

\* Accounts that exist on the remote chain: two contracts and an EOA.
MCRemoteNonEmpty ==
    (a1 :> [nonce |-> 1, balance |-> 0, code |-> "c"])
    @@ (a2 :> [nonce |-> 0, balance |-> 1, code |-> ""])
    @@ (a3 :> [nonce |-> 1, balance |-> 1, code |-> "c"])

\* A contract and an address that is empty on the remote chain.
MCRemoteWithEmpty ==
    (a1 :> [nonce |-> 1, balance |-> 0, code |-> "c"])
    @@ (a2 :> MCZeroAccount)
    @@ (a3 :> [nonce |-> 1, balance |-> 1, code |-> "c"])

MCRemoteStorage ==
    (a1 :> (s1 :> 1 @@ s2 :> 2)) @@ (a2 :> (s1 :> 0 @@ s2 :> 0))
    @@ (a3 :> (s1 :> 0 @@ s2 :> 1))

=============================================================================

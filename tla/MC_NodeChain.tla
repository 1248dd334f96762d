--------------------------- MODULE MC_NodeChain ---------------------------
(* Instantiates NodeChain: three transactions, the first emitting one log, *)
(* the second two logs from two contracts, the third none, so that blocks  *)
(* mix transactions with different log counts.                             *)
EXTENDS NodeChain

CONSTANTS t1, t2, t3, a1, a2, anyAddr

MCTxs == {t1, t2, t3}
MCAddrs == {a1, a2}
MCLogAddrs == (t1 :> <<a1>>) @@ (t2 :> <<a2, a1>>) @@ (t3 :> <<>>)
MCGasOf == (t1 :> 2) @@ (t2 :> 1) @@ (t3 :> 1)
MCTips == (t1 :> 0) @@ (t2 :> 1) @@ (t3 :> 0)
=============================================================================

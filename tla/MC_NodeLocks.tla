--------------------------- MODULE MC_NodeLocks ---------------------------
(* Instantiates NodeLocks: the miner task and two RPC worker threads.      *)
EXTENDS NodeLocks

CONSTANTS m, r1, r2, none, unread

MCRpcThreads == {r1, r2}

(* Every handler whose guards never nest.                                  *)
HandlersNoNesting ==
    {"LogsByRange", "TransactionReceipt", "GetBalance", "Call",
     "SetAccount", "SetBaseFee", "ValidateTransaction", "BlockByHash",
     "BlockByNumber", "TransactionByHash", "StorageAt"}

(* The handlers of the hash-filter log query and the node service.         *)
HandlersLogsByHash == {"LogsByBlockHash", "GetBalance"}
=============================================================================

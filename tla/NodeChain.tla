----------------------------- MODULE NodeChain -----------------------------
(***************************************************************************)
(* Data model of the chain kept by the in-memory backend of the local node *)
(* (src/anvil/src/eth/backend/mem/mod.rs): Backend::mine_block appending   *)
(* blocks to the blockchain storage, and the read paths that rebuild logs  *)
(* and receipts from that storage (mined_logs_for_block, logs_for_range,   *)
(* logs, mined_transaction_receipt, convert_block).                        *)
(*                                                                         *)
(* A block hash is abstracted to a fresh natural number per block.  The   *)
(* EVM is abstracted to the gas each transaction uses (GasOf) and the      *)
(* addresses of the logs it emits (LogAddrs); the transaction executor,    *)
(* which is not part of this source tree, is modelled from the spec.       *)
(***************************************************************************)
EXTENDS Naturals, Sequences, SequencesExt, Functions, TLC

CONSTANTS
    Txs,            \* signed transactions handed to the miner
    Addrs,          \* contract addresses that emit logs
    LogAddrs,       \* LogAddrs[tx]: addresses of the logs tx emits, in order
    GasOf,          \* GasOf[tx]: gas the EVM reports for tx
    BaseFees,       \* base fees the set-base-fee endpoint may set
    MaxHeight,      \* bound on the number of mined blocks
    MaxBlockTxs,    \* bound on the transactions of one block
    AnyAddr,        \* a log filter without an address
    Tips            \* Tips[tx]: max_priority_fee_per_gas of an EIP-1559 tx

ASSUME /\ LogAddrs \in [Txs -> Seq(Addrs)]
       /\ GasOf \in [Txs -> Nat]
       /\ AnyAddr \notin Addrs
       /\ Tips \in [Txs -> Nat]

VARIABLES
    envNumber,  \* env.block.number, what best_number() returns
    baseFee,    \* env.block.basefee
    bestNumber, \* storage.best_number
    bestHash,   \* storage.best_hash
    blocks,     \* storage.blocks: hash -> [number, parent, txs]
    hashes,     \* storage.hashes: number -> hash
    mined       \* storage.transactions: tx -> [block, index, receipt]

vars == <<envNumber, baseFee, bestNumber, bestHash, blocks, hashes, mined>>

Genesis == 0

-----------------------------------------------------------------------------
(* Transaction executor (TransactionExecutor::create_block, modelled from  *)
(* the spec): executes the transactions in order; the receipt of the i-th  *)
(* keeps the cumulative gas used by transactions 1..i and its logs.        *)

Receipts(txs) ==
    [i \in DOMAIN txs |->
        [cumGas |-> SumFunction([j \in 1..i |-> GasOf[txs[j]]]),
         logs   |-> LogAddrs[txs[i]]]]

(* Mutant: transaction_index taken 1-based.                                *)
TxInfosOneBased(txs, h) ==
    [tx \in Range(txs) |->
        LET i == CHOOSE k \in DOMAIN txs : txs[k] = tx IN
        [block |-> h, index |-> i, receipt |-> Receipts(txs)[i]]]

(* MinedTransaction records for the block with hash h: transaction_index   *)
(* is the 0-based position in the block.                                   *)
TxInfos(txs, h) ==
    [tx \in Range(txs) |->
        LET i == CHOOSE k \in DOMAIN txs : txs[k] = tx IN
        [block |-> h, index |-> i - 1, receipt |-> Receipts(txs)[i]]]

-----------------------------------------------------------------------------

Init ==
    /\ envNumber = 0
    /\ baseFee \in BaseFees
    /\ bestNumber = 0
    /\ bestHash = Genesis
    /\ blocks = (Genesis :> [number |-> 0, parent |-> Genesis, txs |-> <<>>])
    /\ hashes = (0 :> Genesis)
    /\ mined = <<>>

(* Transactions not yet mined, in sequences a block can hold.              *)
Unmined == Txs \ DOMAIN mined
BlockTxSeqs == {s \in BoundedSeq(Unmined, MaxBlockTxs) : IsInjective(s)}

(* Mutant: the block number is read before it is bumped.                   *)
MineBlockStaleNumber(txs) ==
    LET h == Cardinality(DOMAIN blocks)
        n == envNumber
    IN /\ envNumber < MaxHeight
       /\ envNumber' = envNumber + 1
       /\ bestNumber' = n
       /\ bestHash' = h
       /\ blocks' = (h :> [number |-> n, parent |-> bestHash, txs |-> txs]) @@ blocks
       /\ hashes' = (n :> h) @@ hashes
       /\ mined' = TxInfos(txs, h) @@ mined
       /\ UNCHANGED baseFee

(* Mutant: the mined records carry the hash of a header other than the one *)
(* the block is stored under.                                              *)
MineBlockRecordsOtherHash(txs) ==
    LET h == Cardinality(DOMAIN blocks)
        n == envNumber + 1
    IN /\ envNumber < MaxHeight
       /\ envNumber' = n
       /\ bestNumber' = n
       /\ bestHash' = h
       /\ blocks' = (h :> [number |-> n, parent |-> bestHash, txs |-> txs]) @@ blocks
       /\ hashes' = (n :> h) @@ hashes
       /\ mined' = TxInfos(txs, h + 1) @@ mined
       /\ UNCHANGED baseFee

(* Backend::mine_block(pool_transactions): bump env.block.number, execute  *)
(* the transactions on top of best_hash, then store best number and hash,  *)
(* the block under its hash, the hash under its number, and a mined record *)
(* per transaction.  HashMap::insert replaces, hence the left-biased @@.   *)
MineBlock(txs) ==
    LET h == Cardinality(DOMAIN blocks)
        n == envNumber + 1
    IN /\ envNumber < MaxHeight
       /\ envNumber' = n
       /\ bestNumber' = n
       /\ bestHash' = h
       /\ blocks' = (h :> [number |-> n, parent |-> bestHash, txs |-> txs]) @@ blocks
       /\ hashes' = (n :> h) @@ hashes
       /\ mined' = TxInfos(txs, h) @@ mined
       /\ UNCHANGED baseFee

(* Backend::set_base_fee: env.block.basefee = basefee.                     *)
SetBaseFee(v) ==
    /\ baseFee' = v
    /\ UNCHANGED <<envNumber, bestNumber, bestHash, blocks, hashes, mined>>

Next ==
    \/ \E txs \in BlockTxSeqs : MineBlock(txs)
    \/ \E v \in BaseFees : SetBaseFee(v)

Spec == Init /\ [][Next]_vars

-----------------------------------------------------------------------------
(* Read paths.                                                             *)

(* Every log of the block with hash h, in transaction order then log       *)
(* order, before filtering.                                                *)
BlockLogs(h) ==
    LET txs == blocks[h].txs IN
    FlattenSeq([i \in DOMAIN txs |->
        [k \in DOMAIN LogAddrs[txs[i]] |->
            [tx |-> txs[i], txIndex |-> mined[txs[i]].index, txLog |-> k - 1,
             addr |-> LogAddrs[txs[i]][k], block |-> h,
             number |-> blocks[h].number]]])

Matches(f, log) == f = AnyAddr \/ f = log.addr

(* Mutant: block_log_index only advances on a matching log.                *)
MinedLogsForBlockMatchCounter(f, h) ==
    LET kept == SelectSeq(BlockLogs(h), LAMBDA l : Matches(f, l)) IN
    {kept[p] @@ [logIndex |-> p - 1] : p \in DOMAIN kept}

(* Backend::mined_logs_for_block: block_log_index counts every log of the  *)
(* block, matching or not; matching logs get it as log_index.              *)
MinedLogsForBlock(f, h) ==
    LET all == BlockLogs(h) IN
    {all[p] @@ [logIndex |-> p - 1] :
        p \in {q \in DOMAIN all : Matches(f, all[q])}}

(* Backend::get_block(Number(n)).                                          *)
HasBlock(n) == n \in DOMAIN hashes /\ hashes[n] \in DOMAIN blocks

(* Backend::logs_for_range without a fork: every stored block in from..to. *)
LogsForRange(f, from, to) ==
    UNION {MinedLogsForBlock(f, hashes[n]) : n \in {m \in from..to : HasBlock(m)}}

MinOf(a, b) == IF a < b THEN a ELSE b

(* ClientFork::predates_fork (not under src/; spec section 3): a height at  *)
(* or below the fork block.                                                 *)
PredatesFork(F, n) == n <= F

(* ClientFork::logs(filter from..to): the remote chain agrees with the     *)
(* node up to the fork block F; above it the remote has blocks the node    *)
(* never mined, whose logs are foreign to it.                              *)
ForkLogs(F, f, from, to) ==
    LogsForRange(f, from, MinOf(to, F)) \cup {[foreign |-> n] : n \in (F + 1)..to}

\* Mutant: the fork part of the range is not cut at the fork block.
LogsForRangeForkedNoClamp(F, f, from, to) ==
    LET toOnFork == to
        onFork   == PredatesFork(F, from)
    IN (IF onFork THEN ForkLogs(F, f, from, toOnFork) ELSE {})
       \cup LogsForRange(f, IF onFork THEN F + 1 ELSE from, to)

(* Backend::logs_for_range with a fork at F: the part of from..to at or    *)
(* below F is asked of the fork client with `to` cut to F, and the local   *)
(* loop then starts at F + 1. Under a fork, local storage holds no block   *)
(* at or below F, so the local loop over F+1..to is all it serves.         *)
LogsForRangeForked(F, f, from, to) ==
    LET toOnFork == IF ~PredatesFork(F, to) THEN F ELSE to
        onFork   == PredatesFork(F, from)
    IN (IF onFork THEN ForkLogs(F, f, from, toOnFork) ELSE {})
       \cup LogsForRange(f, IF onFork THEN F + 1 ELSE from, to)


(* Backend::logs with a range filter: both ends default to and are clamped *)
(* to best_number(), which reads env.block.number.                         *)
Logs(f, from, to) ==
    LET best == envNumber IN
    LogsForRange(f, MinOf(from, best), MinOf(to, best))

(* effective_gas_price of a mined EIP-1559 transaction, in the receipt and *)
(* in transaction_build alike: the backend's current base fee plus the     *)
(* transaction's priority fee.                                             *)
EffectiveGasPrice(tx) == baseFee + Tips[tx]

(* Backend::mined_transaction_receipt: cumulative_gas_used sums           *)
(* receipt.gas_used() of the receipts before the transaction, and the      *)
(* log_index base multiplies the number of those receipts by this          *)
(* transaction's own log count.                                            *)
TransactionReceipt(tx) ==
    LET rec == mined[tx]
        txs == blocks[rec.block].txs
        idx == rec.index
        before == [j \in 1..idx |-> mined[txs[j]].receipt]
        pre == SumFunction([j \in DOMAIN before |-> Len(rec.receipt.logs)])
    IN [cumulativeGasUsed |-> SumFunction([j \in DOMAIN before |-> before[j].cumGas]),
        gasUsed |-> rec.receipt.cumGas,
        logIndexes |-> {pre + i - 1 : i \in DOMAIN rec.receipt.logs},
        effectiveGasPrice |-> EffectiveGasPrice(tx)]

(* Backend::convert_block: base_fee_per_gas is the current env basefee.    *)
ReportedBaseFee(h) == baseFee

(* Block tags of the RPC (BlockNumber): Latest, Earliest, Pending or       *)
(* Number(n).                                                              *)
Tag(t) == [kind |-> t, num |-> 0]
Number(n) == [kind |-> "Number", num |-> n]

(* Backend::get_block: the hash a tag resolves to in storage, as a set    *)
(* that is empty for Pending, for a number no block is stored under, and  *)
(* for a hash without a block.                                             *)
GetBlock(b) ==
    LET hs == CASE b.kind = "Latest"   -> {bestHash}
                [] b.kind = "Earliest" -> {Genesis}
                [] b.kind = "Pending"  -> {}
                [] b.kind = "Number"   ->
                      IF b.num \in DOMAIN hashes THEN {hashes[b.num]} ELSE {}
    IN hs \cap DOMAIN blocks

(* Backend::mined_block_by_number: get_block then convert_block.          *)
MinedBlockByNumber(b) ==
    {[hash |-> h, number |-> blocks[h].number, transactions |-> blocks[h].txs] :
        h \in GetBlock(b)}

(* Backend::convert_block_number: Latest and Pending are best_number(),   *)
(* which reads env.block.number.                                           *)
ConvertBlockNumber(b) ==
    CASE b.kind \in {"Latest", "Pending"} -> envNumber
      [] b.kind = "Earliest"              -> 0
      [] b.kind = "Number"                -> b.num

(* transaction_build for a mined transaction: block hash and number from  *)
(* the block, the index from the stored info, and the effective gas price.*)
TransactionBuild(tx, h, info) ==
    [tx |-> tx, blockHash |-> h, blockNumber |-> blocks[h].number,
     index |-> info.index, gasPrice |-> EffectiveGasPrice(tx)]

(* Mutant: the RPC index used as a 1-based position into the block.       *)
MinedTransactionByBlockHashAndIndexOneBased(h, i) ==
    IF h \in DOMAIN blocks /\ i \in DOMAIN blocks[h].txs
          /\ blocks[h].txs[i] \in DOMAIN mined
    THEN {TransactionBuild(blocks[h].txs[i], h, mined[blocks[h].txs[i]])}
    ELSE {}

(* Backend::mined_transaction_by_block_hash_and_index: the block under the *)
(* hash, its transaction at the 0-based index, and that transaction's     *)
(* stored info; empty when any of the three is missing.                   *)
MinedTransactionByBlockHashAndIndex(h, i) ==
    IF h \in DOMAIN blocks /\ i + 1 \in DOMAIN blocks[h].txs
          /\ blocks[h].txs[i + 1] \in DOMAIN mined
    THEN {TransactionBuild(blocks[h].txs[i + 1], h, mined[blocks[h].txs[i + 1]])}
    ELSE {}

(* Backend::mined_transaction_by_hash: the stored info and block hash, then *)
(* the block's transaction at info.transaction_index.                      *)
MinedTransactionByHash(tx) ==
    IF tx \in DOMAIN mined /\ mined[tx].block \in DOMAIN blocks
          /\ mined[tx].index + 1 \in DOMAIN blocks[mined[tx].block].txs
    THEN {TransactionBuild(blocks[mined[tx].block].txs[mined[tx].index + 1],
                           mined[tx].block, mined[tx])}
    ELSE {}

-----------------------------------------------------------------------------

TypeOK ==
    /\ envNumber \in 0..MaxHeight
    /\ bestNumber \in 0..MaxHeight
    /\ bestHash \in DOMAIN blocks
    /\ \A h \in DOMAIN blocks :
          /\ blocks[h].number \in 0..MaxHeight
          /\ blocks[h].txs \in Seq(Txs)
    /\ DOMAIN hashes \subseteq 0..MaxHeight
    /\ DOMAIN mined \subseteq Txs
    /\ \A tx \in DOMAIN mined :
          /\ mined[tx].block \in DOMAIN blocks
          /\ mined[tx].index \in Nat

(* The canonical chain index: every height up to the best one is stored,   *)
(* the block under hashes[n] has number n and links to the block under     *)
(* hashes[n-1], and best_hash is the block at best_number, which is the    *)
(* number best_number() reports.                                           *)
ChainIndexConsistent ==
    /\ bestNumber = envNumber
    /\ hashes[bestNumber] = bestHash
    /\ \A n \in 0..bestNumber :
          /\ HasBlock(n)
          /\ blocks[hashes[n]].number = n
          /\ n > 0 => blocks[hashes[n]].parent = hashes[n - 1]

(* Every mined-transaction record points into a block on the canonical     *)
(* chain at the position that holds that very transaction.                 *)
MinedTxLocated ==
    \A tx \in DOMAIN mined :
        LET b == blocks[mined[tx].block] IN
        /\ hashes[b.number] = mined[tx].block
        /\ mined[tx].index + 1 \in DOMAIN b.txs
        /\ b.txs[mined[tx].index + 1] = tx

(* eth_getLogs over the whole chain returns each log of each mined         *)
(* transaction once, and an address filter only drops logs: every log     *)
(* keeps the log_index it has in the unfiltered block.                     *)
LogsFilterIsRestriction ==
    LET all == Logs(AnyAddr, 0, envNumber) IN
    /\ {<<l.tx, l.txLog>> : l \in all} =
           UNION {{<<tx, k - 1>> : k \in DOMAIN LogAddrs[tx]} : tx \in DOMAIN mined}
    /\ \A a \in Addrs : Logs(a, 0, envNumber) = {l \in all : l.addr = a}

(* The receipt of a mined transaction reports for its logs the same        *)
(* log_index values eth_getLogs reports for them.                          *)
ReceiptLogIndexMatchesLogs ==
    \A tx \in DOMAIN mined :
        TransactionReceipt(tx).logIndexes =
            {l.logIndex : l \in {m \in MinedLogsForBlock(AnyAddr, mined[tx].block) : m.tx = tx}}

(* The receipt's cumulative_gas_used is the gas used by the transactions   *)
(* of the block up to and including this one.                              *)
ReceiptCumulativeGas ==
    \A tx \in DOMAIN mined :
        LET txs == blocks[mined[tx].block].txs IN
        TransactionReceipt(tx).cumulativeGasUsed =
            SumFunction([j \in 1..(mined[tx].index + 1) |-> GasOf[txs[j]]])

(* The base_fee_per_gas reported for an already mined block, and the      *)
(* effective_gas_price reported in the receipt of a mined transaction,     *)
(* never change.                                                           *)
BlockBaseFeeStable ==
    [][/\ \A h \in DOMAIN blocks : ReportedBaseFee(h)' = ReportedBaseFee(h)
       /\ \A tx \in DOMAIN mined :
             TransactionReceipt(tx).effectiveGasPrice' = TransactionReceipt(tx).effectiveGasPrice]_vars


(* eth_getLogs on a node forked at any height F (logs_for_range splitting  *)
(* the range at the fork block) returns what the chain itself holds: no    *)
(* height is asked of both sides, of neither, or of the remote above F.    *)
ForkedLogsMatchLocal ==
    \A F \in 0 .. envNumber, from \in 0 .. envNumber, to \in 0 .. envNumber :
        \A f \in Addrs \cup {AnyAddr} :
            LogsForRangeForked(F, f, from, to) = LogsForRange(f, from, to)



(* The RPC answers about a mined transaction agree, whichever route asks:  *)
(* eth_getTransactionByHash, eth_getTransactionByBlockHashAndIndex at the   *)
(* block and index it reports, eth_getBlockByNumber at the number it       *)
(* reports, and the receipt's effective gas price; and the block reported   *)
(* as latest is the one at the number eth_blockNumber reports.             *)
TxLookupsAgree ==
    /\ \A tx \in DOMAIN mined :
          LET r == MinedTransactionByHash(tx) IN
          /\ r # {}
          /\ \A t \in r :
                /\ t.tx = tx
                /\ MinedTransactionByBlockHashAndIndex(t.blockHash, t.index) = r
                /\ \E b \in MinedBlockByNumber(Number(t.blockNumber)) :
                      b.hash = t.blockHash /\ b.transactions[t.index + 1] = tx
                /\ t.gasPrice = TransactionReceipt(tx).effectiveGasPrice
    /\ MinedBlockByNumber(Tag("Latest")) =
          MinedBlockByNumber(Number(ConvertBlockNumber(Tag("Latest"))))

=============================================================================

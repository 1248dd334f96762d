# TLA+ models of anvil, forge script and the forked backend

These modules model the local Ethereum node (`src/anvil`), the broadcast and library linking of `forge script`, and the sputnik forked backend. For the node, the focus is its in-memory
`Backend` (`src/anvil/src/eth/backend/mem/mod.rs`): three `parking_lot::RwLock`s guard
the EVM environment (`env`), the state database (`db`) and the chain storage
(`blockchain.storage`). The miner thread and any number of concurrent RPC handlers
share them.

## System inventory

| Part (spec §4) | State | Where | Status |
|---|---|---|---|
| Lock discipline of `Backend` | `env`, `db`, `storage` RwLocks | mem/mod.rs | modelled: NodeLocks |
| C Blockchain Store | `best_number`, `best_hash`, `blocks`, `hashes`, `transactions` | mem/mod.rs `mine_block` | modelled: NodeChain |
| I Filter/Log Index | none; derived from the store | `logs`, `logs_for_range`, `mined_logs_for_block` | partly: no topics |
| J RPC receipts and blocks | none; derived | `mined_transaction_receipt`, `convert_block` | partly |
| D Executor | none; pure | not under src/ | spec-modelled receipts only |
| H Fee & History | `env.block.basefee` | `set_base_fee`, `convert_block` | partly |
| A State DB | accounts | mem/mod.rs | only db locking |
| B Fork Client (sputnik) | the account cache of `ForkMemoryBackend` | evm-adapters/src/sputnik/forked_backend.rs | modelled: ForkedBackend refines ForkState |
| E Mempool, F Miner, G Node Service | pool, mining mode | not under src/ | miner as one thread |
| forge script broadcast | `receipts`, the account nonce, the node's pool | cli/src/cmd/forge/script/broadcast.rs | partly: ScriptBroadcast |
| library linker | `libraries`, `libs_to_deploy`, nonce | crates/forge/src/link.rs, script/mod.rs | modelled: Linker |
| invariant fuzzer | the db, `invariant_doesnt_hold`, the reverts counter | evm/src/fuzz/invariant.rs | partly: InvariantFuzz |
| fuzz value strategies, formatter, CLI | | see PROJECT.json | not modelled |

How the parts interact:

- The Node Service calls `mine_block`.
- `mine_block` write-locks `env`, then `db`, then `storage`.
- It bumps `env.block.number` and runs the executor.
- It then inserts the block, its hash index and the mined transactions.
- The guards drop in reverse order.
- RPC handlers (`logs`, `transaction_receipt`, `get_balance`, `call`, `block_by_hash`, the `anvil_set*` setters) take read or write locks one at a time.
- `env.block.number` is the best height that every range query reads.

## Modules

- **NodeLocks** models the locks and the threads that use them.
  - Each lock is `writer` (the thread holding parking_lot's WRITER bit), `writing` (the write guard is granted) and `readers[l][t]` (the read guards a thread holds).
  - parking_lot is task-fair: once a writer has claimed the WRITER bit, no new reader gets in. That is why `AcquireRead` requires `writer[l] = NoThread`.
  - Each Backend method is a *lock program*, a sequence of `Read`/`Write`/`Unlock`/`Do` steps in the order its code takes and drops guards. This includes the Rust-2021 rule that the temporary guard of an `if let` scrutinee lives until the end of the body.
  - The handlers are `logs` (by range and by block hash), `transaction_receipt`, `get_balance`, `call`, the account setters, `set_base_fee`, `validate_transaction`, `block_by_hash`, `block_by_number`, `transaction_by_hash` (which has the same program as `transaction_by_block_hash_and_index`) and `storage_at` (the same as `get_code`). Each is taken on the local chain, without a fork.
  - A thread (`prog`, `pc`) executes its program one step per action:
    - `AcquireRead`, `ClaimWrite`/`EnterWrite` (claim the bit, then wait for the readers), `Release`;
    - the effects `Bump` (the number increment), `InsertBlock` (storage insert) and `LoadBest` (`best_number()`).
  - `StartMine` and `StartRequest` model the node service and the server starting work.
- **NodeChain** models the chain data.
  - `MineBlock(txs)` is the whole of `mine_block`: the bump, the executor's receipts, best number and hash, the blocks and hashes maps, and the mined-transaction records.
  - `SetBaseFee(v)` is `anvil_setNextBlockBaseFeePerGas`.
  - The read paths are operators over the state, translated from `logs`, `logs_for_range`, `mined_logs_for_block`, `mined_transaction_receipt`, `convert_block`, `get_block`, `mined_block_by_number`, `convert_block_number`, `mined_transaction_by_hash`, `mined_transaction_by_block_hash_and_index` and `transaction_build`.
  - `Tips` is each transaction's priority fee; `EffectiveGasPrice` is the current base fee plus it, as in the receipt and in `transaction_build`.
  - Locks are abstracted here because NodeLocks shows that `mine_block` is atomic to every reader.
- **ScriptBroadcast** models `handle_broadcastable_transactions`, `execute_transactions`, `send_transactions`, `send_transaction` and `wait_for_receipts`.
  - `HandleBroadcastableTransactions` is the first invocation: every tx is simulated on the fork (`simFailed` is the set that failed), and only if none failed and `--broadcast` is set does `send_transactions` start. `SendTransactions` is a later `--resume`.
  - `sequential` is `local_wallets.len() != 1`. Sequential mode queries and checks the on-chain nonce (`NextNonce`), then broadcasts in a separate step (`SendSequential`, so a tx mined in between makes the check stale), and awaits each receipt (`AwaitSequential`). Concurrent mode sends every tx (`SendConcurrent`), awaits each (`AwaitConcurrent`) and joins them in `WaitForReceipts`.
  - `receipts` is the persisted deployment sequence's receipts. `SendTransactions` is one invocation (the first or a `--resume`) and skips `Len(receipts)` txs.
  - `Broadcast(i)` has four outcomes: accepted; rejected (nonce used or tx known); failed after the node took it (reply lost); failed before reaching the node.
  - `Abort` is a `?` return: the run's collected receipts are dropped. `Mine` is the node mining the tx with the account's nonce.
- **Linker** models `link_with_nonce_or_address` and `create_deploy_transactions`.
  - Init ranges over every link-reference graph (cycles included) over three libraries and every set of user-given addresses.
  - `CollectDependencies` is the RECURSIVE depth-first `collect_dependencies`; `NeededIsClosure` checks it against `TransitiveClosure` of the reference relation.
  - `LinkWithNonceOrAddress` folds `AssignAddress` (the `or_insert_with`) over every iteration order of the HashSet, then links every contract with `Link`. `linked[a][l]` is the address a's reference to l holds. A user address that does not parse (`BadAddress`) fails the whole call.
- **ForkState** is the abstract specification of a forked backend: each read answers the pinned remote value, or the default when that very remote call fails.
- **ForkedBackend** models `ForkMemoryBackend`: `cache` is its account map, and `Exists`, `Basic`, `Code` and `Storage` are the four reads with their cache-hit and miss paths. It instantiates ForkState with the identity mapping on `answer` and `failures`, and `AbsSpec` is the refinement property.
- **InvariantFuzz** models `invariant_fuzz` and `assert_invariants`.
  - The EVM is abstracted to a number `st`: each call kind adds `Bump[c]`, reverts, or creates a contract, and invariant `i` holds while `st < Limit[i]`.
  - `StartCase` is the test closure's entry, including the `fail_on_revert` early error. `CallInput` is one iteration of the inner loop: call, commit, then check the invariants or count the revert. On a created contract it regenerates the rest of the inputs. `EndCase` resets the db and untargets created contracts.
  - `AssertInvariants` keeps the code's stop test: the map of failures must have grown.
- **MC_NodeLocks**, **MC_NodeChain**, **MC_ForkedBackend** and **MC_InvariantFuzz** give the model values and the handler sets for TLC.

PROJECT.json `map` gives the source lines of every definition.

## Runs

| Run | Result | Shows |
|---|---|---|
| locks_no_nesting | pass (about 68k states) | `ReadHeightStored`: a height read by `best_number()` always has its block stored, because `mine_block` keeps env write-locked until the insert. `RequestsComplete`: every handler and every mine finishes. |
| locks_logs_by_hash | violation | `eth_getLogs` by block hash deadlocks with the miner (mod.rs:392 and :412). |
| chain | pass | Height, hash index, parent links and the mined-tx index stay consistent. Filtered logs are the restriction of the unfiltered logs. `ForkedLogsMatchLocal`: for a fork at any height, the range split in `logs_for_range` returns the chain's own logs (mod.rs:482). `TxLookupsAgree`: the lookups of a mined tx by hash, by block hash and index, its block by number and its receipt agree, and `Latest` is the block at `eth_blockNumber`. |
| receipt_log_index | violation | A receipt's `logIndex` disagrees with `eth_getLogs` (mod.rs:775). |
| receipt_cumulative_gas | violation | `cumulativeGasUsed` leaves out the transaction's own gas (mod.rs:742). |
| block_base_fee | violation | A mined block's `baseFeePerGas` follows later fee updates (mod.rs:620), and so does the effective gas price in the receipt of a mined EIP-1559 tx (mod.rs:759). |
| broadcast | pass (267 states) | `ReceiptsRecordMinedPrefix`: recorded receipts are always those of a mined prefix, in both modes, across resumes, failures and a tx mined between the nonce check and the send. `SequentialRunEnds`: with several wallets every invocation ends. |
| broadcast_receipts_dropped | violation | `ReceiptsKept`: TLC's trace mines tx0 and obtains its receipt, then the `next_nonce` query for tx1 fails; the `?` at broadcast.rs:67 returns before `add_receipts`, so tx0's receipt is never recorded. The account's nonce (1) equals tx1's, as the `--resume` doc requires, yet a resume skips no receipt, re-sends tx0 and bails. `wait_for_receipts` drops collected receipts the same way (broadcast.rs:207). |
| linker | pass (about 300k states) | `NeededIsClosure`, `LinkedCompletely` (all needed libraries linked, user addresses kept, each deployed once, nonces consecutive) and `DeployedWhereLinked` (each deploy tx lands at the linked address). `FullyLinked`: after `link()` the target and every library it needs have no unlinked reference, so the `unwrap` of their bytecode (link.rs:153) cannot panic. |
| fork_reads | pass (109 states) | With a reachable remote and non-empty accounts, ForkedBackend implements ForkState. |
| fork_exists_empty | violation | `exists()` of an account empty on the remote answers false, then true (forked_backend.rs:46). |
| invariant_first_break | violation | `RecordIsFirstBreak`: the reported counterexample for a broken invariant is not the sequence up to the call that broke it. The map is pre-filled with every name (invariant.rs:93), so the grown-map test at :410 never stops the sequence, and a later call overwrites the record. |

Every property of a passing run has a mutant in PROJECT.json: a plausible bug in the mapped code that TLC catches. The mutants are:

- env released before the insert;
- a double bump;
- a read guard kept across a nested read;
- the wrong block hash recorded (caught by `TypeOK`);
- the new block numbered with the stale height;
- one-based transaction indices;
- the RPC index used as a 1-based position in `transaction_by_block_hash_and_index`;
- a log index that counts only matching logs;
- the fork part of a log range not cut at the fork block;
- a receipt taken when the tx is accepted rather than mined;
- a receipt awaited one confirmation too long;
- dependencies collected only one level deep;
- a nonce bumped for user-provided libraries too;
- deploy nonces numbered from one;
- only the target's own references linked;
- storage answered as zero for a cached account.

## Bounds

- **NodeLocks:** one miner, two RPC threads and `MaxHeight = 3`.
  - Two readers plus the writer is the smallest setup where a reader holds a guard while the writer waits and another reader is blocked.
  - Three heights let the miner run several times between one handler's reads.
- **NodeChain:** three transactions with different log counts (1, 2, 0) and gas values, two addresses, blocks of up to two transactions, three blocks.
  - This covers an empty block, a block whose earlier transaction has a different log count, and a filter that matches only some logs.
- **ScriptBroadcast:** `N = 3` txs, `MaxFailures = 1`, `MaxRuns = 3` invocations. Three txs let a failure hit the middle one with one mined before and one after. One failure is enough to drop a collected receipt, and two resumes let a resumed run follow a failed one. `Modes` is the set of wallet modes explored; simulation outcomes range over every subset of failing txs.
- **Linker:** three libraries give every graph shape of interest: a chain, a diamond, a cycle, a self-reference and an unreachable library. User-given, unparsable and missing addresses all occur.
- **ForkedBackend:** three accounts (code and balance, balance only, both) and two slots, with `MaxFailures = 0`. With `MaxFailures = 1` the model also shows a failed `get_account` in `exists()` cached as the default account (forked_backend.rs:52). That run is not kept, to stay within the number of runs; PROJECT.json lists it as a hazard.
- **InvariantFuzz:** three call kinds (one that moves the state, one that reverts, one that deploys), `Depth = 3`, two cases. Two successful calls in one case are the shortest way to reach the overwrite.

## Fairness

`Spec` of NodeLocks assumes `SF` on every thread's step. parking_lot's RwLock is eventually fair: a waiting thread is granted the lock in bounded time even under contention. So a thread that is enabled infinitely often moves.

The cfgs say `CHECK_DEADLOCK FALSE` because the node never stops: idle threads may always take new requests. A real deadlock of a handler shows as a violation of `RequestsComplete` instead.

NodeChain, Linker, ForkedBackend and InvariantFuzz have no liveness property and no fairness.

ScriptBroadcast assumes `WF` on each step of a run: the tokio runtime polls the task, and anvil mines a tx whose nonce is next. It also assumes `WF` on `SendTransactions`, which stands for the user running `--resume` while the deployment is incomplete. Its cfgs say `CHECK_DEADLOCK FALSE`: when the deployment is complete, or the resumes are used up, the process has ended. The Linker and InvariantFuzz cfgs also say `CHECK_DEADLOCK FALSE`, because linking runs once and a fuzz run ends after its cases.

## Not modelled

1. `set_block_number` (mod.rs:170) has no caller under src/. The `as_u64` panic after the bump needs a height near 2^64.
2. Fork mode of anvil: the `get_code` fallback. The range split of `logs_for_range` is modelled as `LogsForRangeForked`, with `predates_fork` and the remote's logs taken from the spec.
   The anvil fork client itself is not under src/.
3. A single-wallet broadcast whose earlier nonce never reaches the node hangs in `join_all` (`RunEnds` is violated for single-wallet runs in ScriptBroadcast). This depends on anvil's pool keeping the later txs queued, which is outside this tree, so it has no run of its own.
4. Spec-modelled mempool, miner and node service.
5. The invariant fuzzer's target and selector discovery: data generation with nothing a property could distinguish. The uint strategy's shrinker (`UintValueTree`, a binary search whose current value is clamped to the bounds) is not modelled yet. `invariant.rs` calls a four-argument `invariant_strat` that is not in this tree, so InvariantFuzz regenerates exactly the remaining inputs on a branch.

6. `maybe_new_sender` (script/mod.rs:363) has no caller in this tree. Its result depends on the order of the deployments when one of them is by the default sender.
7. `ScriptConfig::collect_rpcs` and `check_multi_chain_constraints` (script/mod.rs:668-697) have no caller in this tree either, so the multi-chain library check is never applied.
8. `Backend::get_nonce` (mem/mod.rs:696) takes the same guards in the same order as `get_balance`: env through `convert_block_number`, then db. Its lock program is `GetBalance`, and it has no definition of its own.

The formatter, CLI commands, debugger and REPL are text and process I/O, outside the node the spec describes.

# DarkCoW in TLA+

A verification project for the DarkCoW dark pool: a Uniswap v4 hook that escrows orders, an
EigenLayer service manager that turns them into tasks, and an operator that batches, matches and
answers them.  The modules model the contracts and the operator; TLC checks them on small
instances, and TLAPS proves their safety properties and refinements for every instance.

Paths below are relative to the repository (`src/` in `PROJECT.json`).

## 1. The system

A trader swaps through a pool that carries the hook, with `hookData` asking for CoW matching.

1. `DarkCoWHook.beforeSwap` mints the hook claims on the input and returns a delta that makes the
   router pay that input, so the curve never sees the order.  In the same transaction it calls
   `OrderServiceManager.createNewTask`.
2. The operator process hears `NewTaskCreated`, fetches the pool key, and files the task in the
   batch of the window that is open.  After ten blocks the window closes and `processBatch` quotes,
   matches, signs and sends `respondToBatch`.
3. `respondToBatch` checks the tasks, the sender's earlier answers and the signature, records the
   answer, has the proof verified, emits `ProveRequest` and calls `DarkCoWHook.settleBalances`.
4. `settleBalances` unlocks the PoolManager; `unlockCallback` burns claims and takes currency for
   each transfer, makes each swap, and takes or settles the net of the swaps.
5. Off to the side, a handler posts each `ProveRequest` to a prove server that runs the order
   circuit in a zkVM.

### Inventory

| Component | State | Operations | What is hard | What makes it correct |
|---|---|---|---|---|
| **DarkCoWHook** `hook/src/DarkCoWHook.sol` | `poolKeys`; its claims and currency in the PoolManager | `afterInitialize`, `beforeSwap`, `settleBalances`, `unlockCallback` | flash accounting over lists of any length; a call that fails half-way; int128 narrowing; burn-before-take | every delta is settled; takes are covered; traders get what the list says; a transaction is atomic |
| **OrderServiceManager** `avs/contract/src/OrderServiceManager.sol` | `latestTaskNum`, `allTaskHashes`, `allTaskResponses`, `hook` | `createNewTask`, `respondToBatch`, `respondToTask`, `setHook` | overlapping batches, repeated indices, two operators, uint32 exhaustion, a signature that does not name the tasks, a hook that anyone may re-point | records and answers are final; what is settled is what was signed, for recorded tasks, once per operator |
| **Operator event loop** `operator/index.ts` | `latestBatchNumber`, `batches`, the promises in flight | event handler, block watcher, `processBatch` | state read before and after awaits, overlapping batches, missed blocks, failing calls, restarts | a batch is frozen while processed; no task is submitted twice; windows are bounded and drain; batches are cleaned up |
| **CoW matching** `operator/index.ts:217-302` | `cowMatchingGroups`, `matchedTasks` | circular, direct and leftover pass | greedy choices; passes that share tasks | a partition of the batch; groups that trade in circles; as many pairs as possible |
| **Matching library** `operator/matching.ts` | none (pure) | combination search, best result, `computeBalances` | depth-first search with undo; cyclic indices | a circle is found when there is one; its transfers pay its traders what its tasks put in |
| **Order circuit** `order-engine/lib`, `order-engine/program` | none (pure) | order, nullifier and Merkle checks | u64 boundaries; agreement with the tree that makes the proofs; a root that is given and not published | accepted exactly when all checks hold |
| **Commitment tree** `order-engine/script/src/bin/main.rs` | `leaves`, `users` | `add_commitment`, `build_tree`, `generate_proof` | odd levels, equal leaves, growth after a proof was made | every leaf's proof verifies against the current root |
| **Prove handler and server** `operator/prove-request-handler.ts`, `order-engine/server` | requests in flight (the server keeps none) | `ProveRequest` event, POST, timeout | lost events, failed POSTs | each request served or given up |
| **Operator registration** `operator/register.ts`, `index.ts:54-97` | registration in three contracts | three transactions, each may fail | partial registration, retries | registered at the end, or known not to be |
| **CrossChainRouter** `hook/src/CrossChainRouter.sol` | none of its own; money in flight | `swap`, `unlockCallback`, `_take` | bridging that is commented out | deltas settled; nothing kept |
| **Traffic script** `operator/createNewTasks.ts` | the scenario's index | scenarios, choice of the pool, the loop of swaps | windows cut a scenario anywhere; failed swaps; a pool that depends on the place | a scenario in one window is matched as its comments say (the default one is not, see below) |
| Deployment scripts, configuration, website, ABIs, broadcast logs | - | - | - | no logic of the dark pool |

The contracts interact by calls within one transaction, the operator with them through events and
transactions, the operator's handlers with each other through the shared `batches` and
`latestBatchNumber`.

## 2. Modules

| Module | Role |
|---|---|
| `EscrowLedger` | what the pool promises about money: deposits, trades and settlements as single steps |
| `DarkCoWHook` | the hook call by call, with the PoolManager's accounting |
| `DarkCoWHookProofs` | theorems about it |
| `OrderServiceManager` | the task registry |
| `OrderServiceManagerProofs` | theorems about it |
| `AtomicPool` | what the contracts promise together: money and records in one step |
| `DarkPool` | composes the two contracts into transactions |
| `DarkPoolProofs` | theorems about the two contracts together |
| `AtomicBatching` | what the operator promises of tasks: windows, closed batches, submissions |
| `Operator` | the operator process once it monitors, from await to await |
| `OperatorProofs` | theorems about it |
| `Registration` | `safeRegisterOperator` and `registerOperator`, call by call |
| `OperatorService` | composes the two into the life of the process, restarts included |
| `OperatorOnChain` | composes `Operator` with `OrderServiceManager`: events and submitted batches |
| `CoWMatching` | the three passes of `processBatch` |
| `MatchSearch` | the library of `matching.ts` |
| `TaskTraffic` | the scenarios of `createNewTasks.ts` |
| `BatchMatching` | composes traffic, passes and library |
| `BatchMatchingProofs` | theorems about the passes, the library and the two together |
| `OrderBook` | what the order engine promises: created, listed, approved, executed |
| `OrderEngine` | the commitment tree, the zkVM program that checks an order, the nullifier store |
| `OrderEngineProofs` | theorems about it |
| `FiniteSums` | lemmas about sums over finite sets |
| `Recursion` | a recursive function over the naturals exists and can be unfolded |
| `MC...` | the instances TLC checks |

Each module has its properties at the end and, just before a definition, a wrong variant of it (the
first transfer instead of the current one, a forgotten check, an index not reset).  `PROJECT.json`
pairs each property with a variant that breaks it, to show that the property sees the code.

### DarkCoWHook

One action is one call on the PoolManager.  `pc` names the next call, `n` is the loop index,
`call` the arguments, `swapDelta` the local variable of that name, and `saved` what a revert
restores.  `reserves`, `claims`, `amm` and `delta` are the PoolManager's: the currency it holds, the
hook's ERC-6909 balance, what the liquidity owns, and the hook's open delta.

| Action | Code |
|---|---|
| `AfterInitialize` | `_afterInitialize` 103-111 |
| `PlainSwap` | the early returns of `_beforeSwap` 124-142, then the swap by the curve |
| `BeforeSwap`, `ChargeSwapper` | `_beforeSwap` 145-166: mint, then the PoolManager books the returned delta and the router pays |
| `SettleBalances` | 261-269 |
| `BurnTransfer`, `TakeTransfer`, `EndTransfers` | 180-205 |
| `SwapOne`, `EndSwaps` | 207-220 |
| `Net0`, `Net1` | 222-255 |
| `Return`, `Revert` | the end of the unlock with its CurrencyNotSettled check; a failing call |

The PoolManager is a git submodule and not part of the repository, so `Burn`, `Mint`, `Take`,
`Quote`, `Curve`, `Unlock`, `Return` and `Revert` are external definitions, written from how the
hook uses it.  The curve is nondeterministic: any amounts the specified amount and its holdings
allow, since no property depends on prices.  `Revert` is possible at every call, which covers
everything the model does not name (out of gas, a failing token, a refused swap).
`onlyPoolManager` and `onlyAVS` are expressed by who takes the actions.

### OrderServiceManager

The hash of a task is the task and a signature is the pair of signer and message: keccak256 and
ECDSA are taken as perfect.  The message holds the pool and the payload, as `getMessageHash` does,
and not the tasks.  A task that was never recorded matches no hash, so the supplied tasks range over
the recorded ones, in every order.  `respondToTask` may store an empty answer or a signature of
anything, as the code lets it.  The verifier's refusal is the action not being taken, for it leaves
no trace.  `settlements` is a history of the calls of `settleBalances`.  `slashOperator` has an empty
body.

### DarkPool

Conjoins the actions of the two contracts: `TakeOver` is `BeforeSwap` with `CreateNewTask`,
`Settle` is `RespondToBatch` with `SettleBalances`, and `RevertAll` undoes both.  Batches carry any of the lists
the instance has, for any tasks: an operator signs what it likes, and nothing in `respondToBatch` compares lists
with tasks.

`setHook` has no modifier, and `onlyHook` compares the caller with what `setHook` stored.  So the manager may
point at any account and back, at any time between transactions.  In the meantime that account creates tasks without a swap
and without escrow (`RecordElsewhere`), and `respondToBatch` calls `settleBalances` of that account, which may
return without having done anything: the settlement is recorded, whatever its lists, and no money moves
(`SettleElsewhere`).  Orders of the hook revert meanwhile, as its `createNewTask` is refused.  Two history variables tell the
two kinds of record apart: `escrowed`, the tasks that `beforeSwap` created, and `paid`, the settlements the hook was called for.

The properties say what of this the code keeps and on what condition:

* `EscrowMatchesTasks`: claims are what was ordered through the hook, less what its settlements paid and gave to the
  curve.  No condition, except that the lower bound supposes swaps that state their input: a swap with an exact output
  takes what the curve asks for it.
* `CoveredByCleanBatches`: a settlement is clean if its tasks were recorded by the hook, no other settlement of the
  hook names one of them, and its lists spend no more of a currency than its own tasks escrowed.  As long as all are clean,
  every pending order is covered.  Nothing in the contracts makes them so.  The settlements that are not clean are those
  that name a task a second time (in another batch, or through another operator), that name a task without escrow, that are
  settled under the pool of the first task while their tasks are of several, whose lists ask for more than the tasks gave,
  or whose swaps state their output.  A task named twice in one batch counts once for what it escrowed.
* `ImplementsAtomicPool`: the two implement `AtomicPool`, which has no calls and no failures.  `attached` says whether
  the manager points at the hook.  While it does, one step escrows an input and records its task, another pays a batch's
  transfers and records the settlement; while it does not, tasks and settlements are recorded and money stays where it
  is.  Its variables are the contracts', or what they saved while a transaction is in progress.

### Operator

`lookups` are the handlers that wait for `poolKeys`, `running` the calls of `processBatch` with the
await they are at (quoting, hashing, signing, sending), `batches` the object of that name,
`submissions` the arrays given to `respondToBatch` and `mined` those the chain accepted.  A
promise may succeed or fail at each await.  `operator/utils.ts` builds the contract objects with ethers
while `index.ts` passes them arguments in viem's form; the libraries are not part of the repository, so
the model takes each such call as the code means it, and lets each of them fail every time.

`ImplementsBatching` says that all this implements `AtomicBatching`, which has no handlers, awaits or calls:
its `open` is the tasks of the batch under `latestBatchNumber`, its `closed` the sets of tasks of the batches
whose `processBatch` has not sent its transaction, its `waiting` the tasks with an event or a lookup to come, its
`sent` the submissions as sets.

### Registration and OperatorService

`awaits` is the call the process waits for, `initialized` and `registered` what the AVSDirectory and the
stake registry hold, `conclusion` what was logged.  `isOperatorRegistered` is not in the service manager's
ABI, so the check always throws and registration is attempted.  A transaction is first sent, then waited for
(`registerAsOperator.wait`, `initialize.wait`): `tx.wait()` has no timeout, so these two awaits may last for ever.
`MineInitialization` is an initialization that comes through, of this process or of whomever; the wait of this one
ends after it, or with an error.  `registerOperatorWithSignature` is given
the empty string of `register.ts:59`, which is not encodable as bytes, so it fails before it is sent.  A
second `initialize` reverts with a text that contains "already initialized".  `OperatorService`
runs this before `MonitorStep`; `MissEvent` is an event that comes before there is a listener, `StartAgain`
a new process, which registers again on a chain that kept what it had.

### OperatorOnChain

`Chain` is `OrderServiceManager` with one operator; `Order` is `createNewTask`, after which the operator may
hear of the task, and `Answer` is a submission executed as `respondToBatch`, if the manager accepts it.  A
signature of typed data signs the struct a hash is put into, not the hash.  So the manager refuses every
batch (`answers_refused`), and what is true of a submission because it is never executed says little:
`AnySignatureSpec` lets a submission carry any signature, right ones included.  `SubmissionsAnswerable`
is about that specification, and is proved, not run.

### CoWMatching, MatchSearch, TaskTraffic, BatchMatching

`CoWMatching` runs the passes over a batch, one outer iteration a step.  `MatchSearch` evaluates the
library's functions, `findCircularPath` as a recursive function on the tasks it has left, and compares the search with circles by
definition (`Circles`).  `TaskTraffic` is the loop of the traffic script; amounts and price limits are left
out, since neither matching looks at them.  In `BatchMatching` a batch is any batch, or what a
scenario filled while a window was open; a window may close after any swap, and a swap may fail and end the
script.  The pools of the script are among the batch's pools, with the two tokens `POOL_CONFIGS` gives
them (`ScriptAssumption`).  All orders of the script are of one `account` (`createNewTasks.ts:182`); those of other batches are of
whoever `Senders` says, with two of them of one trader.  `CirclesBalance` counts over the transfers of a circle: each trader
is named as often as it has tasks in it, and each currency is paid out as often as a task put it in.  It does
not say which token a trader gets (see the disagreements below).

### OrderEngine

`leaves` is the tree's vector, `commitments` what `create_order` returned, `roots` a history of the
roots the tree had, `held` a path made earlier, `outputs` the public values of the valid proofs, `usedNullifiers` the store
the script simulates.  `Prove` is a request to the prove server: the program may be given any order,
nullifier and balance, with the path that is held or one of `OwnPaths`, and with a root of the tree, old or new, or
one of `OwnRoots`.  The program reads the root as an input and does not publish it, and the server passes on what a
request holds, so a result for a root of no tree looks like any other: in the instance a request may
hold the hash of a commitment nobody made as its root, and no path.  Each output has, as history, whether its root was one of
the tree's (`known`).  `OnlyMembersAccepted`, `ReplaysDetected` and `ImplementsBook` speak of those; of the others the
code promises nothing.  `Execute` stores a nullifier as the script does, without a look at the store; the
repository has no executor, and an execution leaves its output in place, so it can be presented
again.  What `ReplaysDetected` says is that a look at the store gives the right answer.

Hashes are tuples with their domain tag: the preimages of the five hashes have different
lengths (92, 79, 46, 87 and 75 bytes), so a collision-free hash is injective over all of them.  A
user's secret is the user.  Levels of the tree and the walk of the verifier are recursive functions,
and nodes are numbered from 1.  The cheap checks of the program come first in its conjunction; they
have no effects, so the order does not matter.

`ImplementsBook` says that, of the results under roots of the tree, the engine makes an `OrderBook`, which has no
commitments, trees, proofs or nullifiers: an order is created, listed by `add_commitment`, approved in a market that
suits it, and executed after that.

## 3. What TLC checks

| Run | Instance | Shows |
|---|---|---|
| `hook` | 3 currencies, pools A-B and B-C, 2 traders, lists of up to 2 transfers and 2 swaps, amounts up to 3, int128 up to 2 | `TypeOK`, `TakesAreCovered`, `NothingUnsettled`, `PaysTheBatch`, and `ImplementsLedger`: the call-by-call hook implements the atomic `EscrowLedger` |
| `manager` | 2 operators, 2 pools, ids 0..2, batches of up to 2 indices, repeated or not | order and finality of the records, signed and recorded settlements, once per operator |
| `dark_pool` | 2 pools with a common currency, 1 trader, 1 operator, a second account as hook, up to 2 tasks, batches of one or both, lists of up to 2 transfers or a swap of either kind | `EscrowMatchesTasks`, `CoveredByCleanBatches`, and `ImplementsAtomicPool`: the contracts, call by call, implement the transactions of `AtomicPool` |
| `operator` | 3 tasks, windows of 2 blocks, 5 blocks, 1 restart, any state of the registration contracts | windows, frozen batches, single submission, `ImplementsBatching`, and the liveness properties `BatchesFinish` and `MonitoringStarts` |
| `matching` | all batches of 1 to 5 orders on 3 pools (the library up to 4), and every scenario cut into windows in every way | partition, maximal pairing, closed groups; a circle is found exactly when there is one and its transfers balance; `ScenarioOutcomes` |
| `order_engine` | 3 orders of 2 users, one not covered, trees of up to 5 leaves, 3 market conditions, roots of the tree and one of no tree | orders in the tree that can be executed are accepted; under roots of the tree no others are, and the store tells which were executed; `ImplementsBook` |

### Why the bounds are enough

* `hook`: int128 is so small that one amount of the swaps is past it, and a sum of two swap deltas
  reaches its edge.  Two pools with one currency in common are the smallest instance in which a
  settlement under one key pays currencies of another.  C has no liquidity at the start, so its takes
  rest on claims only.  Two transfers and two swaps give a loop that is in the middle of its work.
* `manager`: two operators, two tasks and batches of two give overlap, repetition and disorder; the
  third id is there for the counter to run out on.  A third task adds only more of the same.
* `dark_pool`: two tasks, of amount 1, are one to settle and one that stays pending; the trader can sell A, and B in either
  pool, so they are of one pool or of two, and either may be a task of the other account.  Batches hold one of them or
  both, so tasks are settled again by overlapping batches.  The lists are none, one transfer, transfers of two
  currencies, and a swap with an exact input or output; those that suit their tasks and those that do not are all
  tried on all batches.  One operator, because what a second one adds is that tasks are settled twice, which `manager`
  shows.  The uint32 counter runs out at two.
* `operator`: five blocks with windows of two have two closed windows and an open one, so two
  `processBatch` calls can overlap; three tasks fill them; one restart, at any
  point, finds every partial registration.
* `matching`: five orders hold a circle and a pair, four a circle and an order that spoils the
  search's first path (`MaxSearched`); `MaxNumTasks` is six, the length of the longest scenario.
* `answers_refused`, `registration_believed`: small, as the shortest violation is what they are for.
* `order_engine`: three and five leaves have an odd lowest level, five an odd second level too, and with
  three different orders there are trees with equal leaves in every place.  The markets are at the
  target price and the deadline, one below and one past.  `OwnRoots` has the hash of a commitment nobody made, of an order that
  is not covered with a balance that would cover it and another order's nullifier, and `OwnPaths` no path at all: enough for the program to accept
  under a root of no tree.

Every bound is a constant of the instance (`MaxQuote`, `MaxInt128`, `MaxUint32`, `MaxBlock`,
`MaxRestarts`, `Batches`, ...).  Deadlock is checked for the hook, which can always take another
transaction, and for the order engine, where an order can always be created again.  The other systems
really stop: a matched batch is matched, and the manager, the pool and the operator run out of ids,
orders or blocks.

### Fairness

Only the operator claims something that must happen.  `ServiceFairness` is weak fairness of
`Answered` (a registration that awaits an answer of the node gets one) and of `BatchStep(b)` for each batch (a call
of `processBatch` that is at an await goes on).  The event loop runs every settled promise's
continuation, and these promises of the node, the quoter and the wallet settle because their clients
time out; which way they settle is left open.  The two waits of the registration for a mined transaction
(`register.ts:41`, `:53`) have no timeout and get no fairness: with a transaction that is never mined `main` never comes to
monitor.  So `MonitoringStarts` has the hypothesis that the process does not stay in such a wait for ever.
No fairness is assumed of events, blocks, handlers, mining or restarts.

### Where code and documents disagree

Runs that TLC is expected to find violated, each with the line it contradicts in `PROJECT.json`:

| Run | The code | The document |
|---|---|---|
| `task_settled_twice` | answers are looked up per sender, so two operators settle one task | "hasn't been responded yet", `OrderServiceManager.sol:210` |
| `proceeds_kept` | what the AMM pays for an unmatched order stays in the hook | "Anything unmatched falls back to the AMM", `Project_Detail.md:24` |
| `task_left_behind` | a task filed before the first block number is never processed | "Operators collect tasks over a ~10-block window", `Project_Detail.md:42` |
| `registration_believed` | a failed registration leaves the AVSDirectory initialized, and the next start takes that for a registration | "Operator already registered", `operator/index.ts:82`; "ECDSA stake-registry registration", `Project_Detail.md:84` |
| `answers_refused` | the operator signs typed data, the manager recovers over the bare hash | "Sign the message hash directly without prefixing", `operator/index.ts:354` |
| `max_price` | every target price is a minimum, for orders that buy as well | "Max $2100/ETH", `order-engine/script/src/bin/main.rs:204` |

More were seen while modelling and need no run to be seen:

* "3-party circular matches via cycle detection" (`Project_Detail.md:42`, and again in lines 60 and 85): `processBatch`
  tests one triple, the first three tasks in one order, and misses every other circle.  The library finds them (`FindsACircle`), but
  nothing calls it.
* `createNewTasks.ts:73` calls its first scenario "Simple CoW match (2 tasks that can match)", but line 169
  sends the second swap to another pool (token1-token2 instead of token0-token1), so the two never match.  It is the
  scenario that is run by default; `ScenarioOutcomes` states what becomes of it.
* A batch holds the tasks of a window whatever their pools (`index.ts:145-148`), and is settled under the pool
  of its first task (`index.ts:349`, `OrderServiceManager.sol:234-235`); nothing in `respondToBatch` refuses
  a batch that names one task twice, or compares lists with tasks; and `setHook`, which is open to everyone, lets tasks be recorded
  that put nothing into escrow.  Each of these may spend the escrow of orders outside the batch.  The operator
  sends empty lists today, so it has not come to that; `CoveredByCleanBatches` says on what condition it does not.
* The program does not publish the Merkle root it checked against (`order-engine/program/src/main.rs:13`, 65-76), so
  "Merkle inclusion of the commitment" (`Project_Detail.md:43`) is inclusion in a tree that only the prover knows.
* `encodePoolKeys` (`operator/utils.ts:205`) allocates 108 bytes per pool for the 68 its comment adds up
  to; nothing reads them.
* `computeBalances` of `matching.ts`, which the operator imports and does not call yet
  (`Project_Detail.md:87-88`), pays each trader of a circle the token it sells (line 173, against the
  comment in line 168), and both refunds and swaps an AMM order (lines 155-165).
* `prove-request-handler.ts:6` declares `ProveRequest` with seventeen flat arguments, the manager emits it with
  one struct (`OrderServiceManager.sol:37-41`): the topics differ and the handler hears nothing.
* A commitment that is added changes the tree's root and siblings, so an older proof has to be made
  again, as `order-engine/script/src/bin/main.rs` does in its step 5, although its line 5 says "without
  invalidating existing proofs".

## 4. What is proved

Every safety property of a passing run is a theorem, on the conditions the property states; liveness is model-checked only.  The theorems hold for every value of the constants under the assumptions the modules state, with
lists, batches, trees and windows of any length.

### The tools of the proofs

The specifications sum over traders, tasks and settlements, and define functions by recursion.  The installed
provers cannot instantiate an induction theorem that takes an operator, so both modules below state induction
for a *set* of numbers or of sets, which is first-order.

* `Recursion`: a function given by a base and a step exists and is unfolded by its step (`FunctionExists`).
  Each recursive function of a specification is an instance of it.
* `FiniteSums`: a sum over a finite set changes by the difference of the entry that is replaced
  (`SumChange`), and what follows from it: one more index, equal or ordered entries, sums of sums.

### DarkCoWHook

For any currencies, traders, pools, lists, quotes and int128 bound, under `HookAssumption` (pool keys have two
different currencies, the hook is no trader, there are finitely many traders, initial holdings are natural
numbers).

* `TypeCorrect`, `AlwaysSolvent`, `NeverUnsettled`, `TakesAlwaysCovered`.  `NothingUnsettled` is not inductive:
  that the delta is zero at the end says nothing about the middle.  `IInv` adds what the delta is at every
  point (`DeltaInv`): nothing between transfers, the amount just burnt between a burn and its take,
  `swapDelta` in the key's two currencies during the swaps, its second half before `Net1`; that the key
  in use has two different currencies (`KeyInv`, without which the two nettings would meet in one currency);
  and that the state a revert restores is solvent (`SavedInv`).  `TakesAreCovered` follows from
  `Solvency`: the PoolManager holds claims, liquidity and delta, and during a take the delta alone is the
  amount taken.  `Solvency` is a property of the accounting that no change in the hook can break, so it is a
  lemma of the argument and not a property of a run.
* `HookImplementsLedger`: every step, one PoolManager call each, is a step or a stutter of `EscrowLedger`, which
  takes an order or pays a batch in one.  `BatchIsPaid`: in the step that ends a settlement every
  trader has received what the transfers say.  Both need `LedgerInv`, which compares the state with `saved`
  at every call: each trader has gained what the transfers so far owe him (`PayInv`, with `Owed` unfolded by
  `Recursion`), claims have gone down by the sum of it (`EscrowInv`, a sum over traders), and an order
  has cost its trader just its input (`DepositInv`).

### OrderServiceManager

For any operators, orders, payloads, batches and uint32 bound: `ManagerTypeCorrect`, `TasksInOrder`,
`AlwaysSigned`, `AlwaysRecorded`, `OperatorSettlesOnce`, and the action property `NothingReplaced`.
`OncePerOperator` is not inductive: the code looks at answers and the property at settlements.  The link
is `SettledIsSigned` (a settled task carries that operator's answer, which is not empty), so a second batch
fails the check; `NoEmptyBatch` gives each settlement a first task.

### DarkPool

For the contracts together, under the assumptions of both and `PoolAssumption` (what `beforeSwap` makes of a swap is an
order, as are others an account may record; a batch carries lists a settlement may carry).

* `PoolImplementsHook`: every step of the composition is a step of the hook or leaves it alone, so the hook's
  theorems hold of the two together (`PoolNeverUnsettled`, `PoolBatchIsPaid`, `PoolImplementsLedger`).
* `PoolAlwaysSigned`, `PoolSettlesOnce`.  A transaction that fails restores the manager from
  `savedManager`, so `PoolInv` adds that, while one is open, the saved manager satisfies the manager's
  invariant under today's `hook` (`RestoredInv`), which holds because nobody re-points the hook inside a
  transaction.
* `PoolEscrowMatches`.  `EscrowMatchesTasks` speaks of the time between transactions; `MatchInv` says it of
  what is saved while one is open, that the records have one more escrowed task (`RecordedNow`) or one more
  paid settlement (`SettledNow`) than the saved ones, and that swaps have put no more into the curve than they list
  (`SwapsInv`).  What is recorded elsewhere changes neither history variable.
* `PoolImplementsAtomicPool`.  An open order has recorded one new task, of the currency and amount in escrow
  (`OrderNow`); with `SettledNow` and what the hook's invariant says at the end of a transaction, the step that
  commits is the atomic one, and every other step of a transaction is a stutter.
* `PoolCleanCovered`: while all settlements of the hook are clean, what they spent of a currency is at most what their own tasks
  escrowed; these sums, over disjoint sets of tasks, and the pending orders add up to what was ordered, and
  `EscrowMatchesTasks` gives the rest.

### Operator

For any tasks, window length and bounds on blocks and restarts, under `OperatorAssumption` (the window is at
least one block long), and of `ServiceSpec`, the life of the whole process.  Every step of `ServiceSpec` is a
step of `OperatorNext` or leaves its variables alone (`ServiceSteps`).

* `OperatorTypeCorrect`, `WindowAlwaysBounded`, `AlwaysQuoted`, `WindowsAlwaysDrain`,
  `NothingSubmittedTwice`.  `QuotedBeforeMatched` is not inductive: a handler appends to the open batch,
  so it needs that a batch in progress is older than the open one and has one `processBatch` call
  (`ClosedOnce`).  Nor is `SubmittedOnce`: it needs that a task waits for its event or lookup, or is in one
  place of one batch (`FiledOnce`), and that a task that was submitted waits nowhere, and is still in a batch
  only while that batch's call awaits the transaction (`SentOnce`).
* `OperatorImplementsBatching`.  That the new window opens empty is `WindowsDrain` with `ClosedOnce` (no array is
  left under the new number); that a call that sends or fails takes away its own batch, and not another
  call's with the same tasks, is `FiledOnce` and that no call is made for an empty batch (`CallsOK`).

`OperatorOnChain`, for any ids and accounts such that `OnChainConstants` (the ids are 0 to a number, the null address
and the absent task are no account and no task).  That is a hypothesis of the two theorems; nothing above rests
on it.

* `SubmissionsAlwaysAnswerable`, of `AnySignatureSpec`.  `SubmittedOnce` alone does not give it: the manager looks at
  answers, the operator never does.  `OnChainInv` relates the two: a task the operator has heard of is
  on record (`OnRecord`), a task is answered only as part of a mined submission (`AnsweredInBatch`), and no
  submission is empty (`SubmissionsFull`).  With `SubmittedOnce` a submission that is not mined shares no task with
  one that is.
* `NothingEverAccepted`, of `OnChainSpec`: the typed struct is never the record `respondToBatch` hashes, so the signer it
  recovers is not the sender, in any state of any run.  The manager stays without answers and settlements.  `answers_refused`
  shows one refused batch, the theorem that there is no other kind.

### Matching

For any pools and any batch, of any length, under `MatchingAssumption` (a batch is a non-empty sequence of
tasks).  The parts are invariants of `BatchInv`.

* `MatchTypeCorrect`, `AlwaysMatchedOnce`, `GroupsAlwaysClose`.  `EachTaskMatchedOnce` speaks of the end;
  `IInv` adds that at every round no two groups share a task (`GroupsDisjoint`) and that the last pass leaves
  no task behind its index without a group (`Progress`).
* `DirectPassAlwaysMaximum`.  `PairsInv`: what a group of two or three looks like (`Shapes`), and that of the
  tasks the direct pass has passed none is left with a counterpart left (`NoneMissed`).  So at the end one
  side of each pool is paired completely, and since each pair has one task of each side, the number of pairs
  is that side's.
* `AlwaysFindsACircle`.  Soundness and completeness of `findCircularPath` by induction on the number of unused
  tasks, over all paths at once: it returns a circle that extends the path if there is one, and undoes its
  choice otherwise.  Every circle is reached through its prefixes.  The combinations then
  hold a circle exactly if the batch has one, and no other combination is rated higher.
* `LibraryTypeCorrect`, `CirclesAlwaysBalance`: the place after each in a circle is a bijection, so the transfers that name a
  trader are as many as the circle's tasks it sent, and those of a currency as many as the tasks that put it in (`OneTransferEach`).
* `ScenariosAlwaysEnd`, of `BatchSpec` under `ScriptAssumption`.  `ScenarioOutcomes` speaks of a batch that is matched and
  of a script that goes on meanwhile.  `ScriptInv` links the two: the batch of a scenario is a run of its
  swaps up to one that is mined, each with the pool and direction the script gave it.  So a batch as long as the
  scenario is the scenario; the invariants of the passes then leave one way to match it: `CircleInv` (the circular
  group, if there is one, is 1, 2, 3) for the
  first three, `NoneMissed` for the pair, `EachTaskMatchedOnce` for the last.  Of the default scenario the two orders are in different pools, so
  `PairsInv` leaves no group of two (`CowUnmatched`).
* `BatchesMatched`: the same four invariants of the passes in every window of every run of the traffic
  (`WindowInv`, `LibraryInv`).

### OrderEngine

For any users, orders, markets and trees, under `EngineAssumption`.

* `EngineAcceptsMembers`, `EngineAcceptsOnlyMembers`: the tree that makes proofs and the program that
  checks them agree.  By induction over the levels, the walk of the verifier has at each level the hash of
  the node its index has come to, doubled last nodes included; conversely, as hashes are injective and a
  leaf's has no other domain, a root that is reached fixes every node on the way down, whatever path was given; so under a
  root the tree has or had there is no other order to be accepted.  Without that hypothesis the second would be false.
* `EngineDetectsReplays`: the store holds the nullifiers of what was executed (`EngineTypeOK`), a result under a root of the
  tree is about an order of the tree (`OnlyMembersAccepted`), and a nullifier fixes its order.  Its hypothesis is that
  only such results were executed.
* `EngineImplementsBook`: what the program accepted under a root of the tree was created and listed by its user, with the
  balance committed, also if it is proved later, in another market, against an old root.
* `EngineTypeCorrect`.

### Model-checked only

* `BatchesFinish` and `MonitoringStarts`: liveness under fairness.
* `Registration` apart from its composition, which has a violated run only.
* The six properties of the violated runs: they are false, and their traces are TLC's.

## 5. Not modelled

* Prices, fees, tick limits and liquidity changes of the pool: the curve is any curve.
* The SP1 verifier, stake registry and EigenLayer contracts: outside the repository; the manager
  reads nothing of them but a refusal, the operator only whether a call succeeded.
* Native currency and fee-on-transfer tokens.
* Chain reorganizations, and events delivered twice.
* `prove-request-handler.ts`: it hears no event (see above), and it does not load as it stands
  (`ethers.providers` is not in ethers 6, axios is no dependency).
* `CrossChainRouter.sol`: a draft nothing imports or deploys, with its bridge call commented out.
* `config.ts`, and the helpers of `utils.ts` that nothing calls.
* Deployment and fixture scripts, the website, and the generated ABIs.  Of the repository's TypeScript most
  lines are of the last two kinds: tables of function signatures (`operator/abis_cp`) and pages.  They
  hold no state and take no step, so no definition stands for them.
* The other components marked `not_modelled` in `PROJECT.json`, for the reasons there.

## 6. Plan

Done: the contracts, their composition, the whole operator and its composition with the manager, the
matching with its traffic, the order engine; abstract specifications of the hook, the two contracts, the operator and the
order engine with proofs that they are implemented; and a proof of every safety property.  Next:

* `OperatorOnChain` with several operators, and answers given alone before a batch, once the operator signs
  what the manager accepts.

## 7. Running it

    tlc -workers 2 -config MCDarkCoWHook.cfg MCDarkCoWHook.tla
    tlapm DarkCoWHookProofs.tla

Each run's module and configuration are in `PROJECT.json`.

# Verification of the rewards engine, the outport host driver, the storer2elastic indexer and the storage mocks

This directory holds TLA+ models of parts of the repository, the TLC configurations that
model-check them on small instances, and TLAPS proofs of their main invariants.

## The system and its parts

| Part | Sources | Module(s) | Status |
|---|---|---|---|
| Epoch-start rewards engine (`rewardsCreatorV2`) | `src/epochStart/metachain/rewardsV2_test.go` (the engine's own code is not in `src/`) | `RewardsV2`, `RewardsV2_proofs` | modelled |
| Outport host driver | `src/outport/host/driver.go` | `HostDriver`, `HostDriver_proofs` | modelled |
| storer2elastic data processor | `src/cmd/storer2elastic/dataprocessor/dataProcessor.go` | `DataProcessor` | modelled |
| `update/mock.StorerMock` | `src/update/mock/storerMock.go` | `StorerMock`, `StorerAbstract`, `StorerMock_proofs` | modelled |
| `genericMocks.ChainStorerMock` | `src/testscommon/genericMocks/chainStorerMock.go` | `ChainStorerMock` | modelled |
| `IntermediateTransactionHandlerMock` | `src/integrationTests/mock/intermediateTransactionHandlerMock.go` | — | not modelled: one goroutine's slice, appended to and reset |
| Stateless adapters and stubs (pubkey converter, fee args, trie statistics, disabled data trie, validator info stub) | various | — | not modelled: no state changes |
| Integration and node tests | `src/integrationTests/...`, `src/node/nodeRunner_test.go`, `src/process/...` | — | not modelled: they drive whole nodes whose code is not here |

**Rewards engine.** At an epoch-start block the metachain calls `CreateRewardsMiniBlocks`, and
validators call `VerifyRewardsMiniBlocks` on the proposed block. Both run `prepareRewardsData`,
which resets the engine and asks the staking provider to prepare its data. Then come these stages:
1. top-up per eligible node;
2. base reward per block per validator;
3. base reward per node;
4. top-up reward per shard, from shard power;
5. top-up reward per node;
6. full reward per node;
7. aggregation per reward address, where offline nodes go to an "unassigned" bucket;
8. one reward transaction per address, where metachain addresses with delegation disabled go to dust;
9. the protocol-sustainability transaction, carrying the dust and the configured amount.

Verify compares what it recomputes with the block's miniblocks. The engine's code is not in the
sources. The unit tests in `rewardsV2_test.go` pin down each stage's result, and the model is
built from them and from `spec.md`.

**Host driver.** Every save method (`SaveBlock`, ..., `SetCurrentSettings`) runs `handleAction` on
the caller's goroutine. `handleAction` checks `isClosed`, marshals the payload and sends it
through the sender host. `Close` sets `isClosed` and then closes the sender host. The two kinds of
goroutines interleave freely.

**Data processor.** `Index` asks the data replayer to call `processData` for each persisted
round, in order. A round holds a meta header and the shard headers it notarizes. The steps are:
1. For a start-of-epoch meta block (or nonce 0), `processValidatorsForEpoch` runs. For epoch 0 it
   returns at once. Otherwise it keeps the body's peer miniblocks that the header references,
   removes duplicates, hands the result to `EpochStartPrepare` of every shard's nodes coordinator,
   and saves the metachain coordinator's validators of the epoch.
2. The meta header is indexed.
3. Each shard header is indexed.

To index a header, `computeSignersIndexes` must succeed. That needs a coordinator for the
header's shard that knows the header's epoch. When it fails, the error is only logged. The
coordinators are built once, at construction, from the genesis nodes setup.

**Storer mocks.** `StorerMock` is a map under one `sync.Mutex`. `Put` and `Get` hold the mutex for
one access. `RangeKeys` holds it across the whole loop of handler calls, and the handler may stop
the loop early. `ChainStorerMock` routes a unit type to one of eight storers in `GetStorer`, and
`Put`, `Get` and `GetAll` go through it.

## Modules

* `RewardsV2.tla`:
  * **State.** The epoch's inputs, fixed per epoch: `validatorsInfo`, staking answers, blocks per
    shard, rewards and the sustainability amount. The engine's fields: `accumulatedRewards`,
    `protocolSustainabilityValue` and `mapBaseRewardsPerBlockPerValidator`. The per-node records
    and per-shard maps of one call. The call's phase `pc` and its work set `todo`, which stands
    for the randomly ordered map iteration. The per-address records, the miniblocks, and the
    block header proposed by Create and checked by Verify.
  * **Actions.** One per stage. A per-node or per-address loop takes one element per step, in any
    order. `TamperHeader` models a proposer whose header differs from the honest one by one unit
    in one transaction. `NewEpoch` gives the engine fresh inputs.
  * **Data.** Big integers become naturals. Fractions become rationals (`TopUpFactorNum/Den`) with
    truncating division, as `GetPercentageOfValue` truncates. Addresses and shards are model values.
* `HostDriver.tla`:
  * **State.** Per caller: its step in `handleAction`, its last result and its call count. The
    `isClosed` flag, the sender host's state and `Close`'s progress.
  * **Actions.** `CallSave` (any save method), `CheckClosed`, `Marshal` (may fail), `Send` (fails
    on a closed host, may fail otherwise) and `Close` (two steps). Payloads, topics and error
    texts are abstracted away. The ghost variable `checkedEarly` records whether a caller passed
    its check before `Close` began.
* `StorerMock.tla`:
  * **State.** The map `data` (`Missing` for an absent key), the mutex `owner`, and per goroutine
    its step `pc`, its request, its call count and its results. For a running `RangeKeys` the
    state also holds the keys still to visit and the pairs handed to the handler so far.
  * **Actions.** `Call` (a `Put` or `Get` begins and waits for the lock), `Put` and `Get` (each one
    locked step), `CallRange` (a nil handler returns at once), `LockRange`, `Visit` (one handler
    call, on a key in random order as Go's map iteration takes it; it continues or stops) and
    `EndRange`. `Return` is the deferred unlock.
* `StorerAbstract.tla` is what a storer promises: atomic `Put` and `Get`, and a `RangeKeys` that
  returns some subset of the map's pairs at one instant. Its map `kv` is a partial function, as a
  Go map is: its domain is the keys stored. `StorerMock` instantiates it with
  `INSTANCE StorerAbstract WITH kv <- AbstractMap, lastGet <- getOut, lastRange <- rangeOut`.
  `AbstractMap` is `data` restricted to the keys that hold a value, so the `Missing` marker is
  hidden. `AtomicStorer` is that specification as a property.
* `ChainStorerMock.tla`: the eight storers' contents, with `GetStorer` as the code's `switch`: a
  `CASE` over the six named unit types and `ShardHdrNonceHashDataUnit`, then its two fallbacks.
  The unit types are numbers, as in `dataRetriever`. The module's `ASSUME` records the numbering
  the `switch` relies on: the six named types are distinct and lie below
  `ShardHdrNonceHashDataUnit`. A ghost `written` records what the test put under each unit
  type. The storers are `genericMocks.StorerMock` maps, which are outside the sources.
  `SeparatelyRouted(U)` says which sets of unit types the `switch` keeps apart: at most one
  unnamed type below `ShardHdrNonceHashDataUnit` (they all fall to `Others`), at most one above
  it, and none above it together with `MetaHdrNonceHashDataUnit` (the last branch sends every
  type above it to the meta-nonce storer).
* `DataProcessor.tla`:
  * **State.** The coordinators' known epochs per shard, the epochs whose validators were saved,
    the indexed headers and the last peer block. The replayer's side is the round, the meta
    epoch, the headers handed over, and the last start-of-epoch body and references.
  * **Actions.** One `Replay` step is one whole `processData` call (`ProcessData`). `Done` is
    `Index` returning.
  * **Environment.** The replayer, the coordinators and the indexer are outside the sources, so
    they are modelled by their contract:
    * the replay starts at genesis or at the start-of-epoch block of the starting epoch;
    * a shard header lags the metachain by at most one epoch;
    * `EpochStartPrepare` with a start-of-epoch block gives a coordinator that epoch's config.

    These definitions are marked `spec_modelled` in the map.
* `MC_*.tla` give the model values and small topologies for TLC.
* `RewardsV2_proofs.tla`, `HostDriver_proofs.tla`, `StorerMock_proofs.tla`,
  `ChainStorerMock_proofs.tla` and `DataProcessor_proofs.tla` hold the TLAPS proofs.
  `DataProcessor.tla` writes `uniqueMiniBlocksSlice`'s loop as a recursive function over the
  prefix length, not as a `RECURSIVE` operator or a community fold. The prover can therefore
  load the module.

## Runs

| Run | What it shows |
|---|---|
| `rewards_engine` (`MC_RewardsV2.cfg`, pass, about 870k states) | Two shards (one normal, one metachain), three nodes, two reward addresses, the protocol address. Some nodes are offline leaders, top-ups may be not found, one reward address is in the metachain with delegation disabled. Three calls (Create, Verify, tampering). Checked: value conservation (`ValueConservation`), non-negative dust, Verify accepting exactly the honest header, offline rewards going to unassigned, and the top-up split equal to the reference formula. Every node is eligible here; the waiting branch (`addNonEligibleValidatorInfo`) is exercised only by `rewards_waiting_fees`. |
| `rewards_epochs` (`MC_RewardsV2_epochs.cfg`, pass) | One epoch change. Against the new epoch's snapshot, value conservation (`ValueConservation`) and the top-up split (`TopUpSplitMatchesReference`) still hold, so no per-shard or engine value kept from the previous epoch reaches the next epoch's miniblocks. |
| `rewards_waiting_fees` (`MC_RewardsV2_waitingFees.cfg`, violation) | Waiting validators carry fees, as `addNonEligibleValidatorInfo` builds them. The miniblocks then total less than the specification's sum of all `accumulatedFees`. See the finding in `PROJECT.json`: the guarantee holds only when non-eligible validators carry no fees. |
| `host_driver` (`MC_HostDriver.cfg`, pass) | Two callers making two calls each while `Close` runs. Only calls that passed the `isClosed` check before `Close` began reach a closed sender host (`ClosedHostOnlyReachedByEarlyCallers`). |
| `storer_mock` (`MC_StorerMock.cfg`, pass, about 245k states) | Two goroutines, two keys, two values, three calls each, with `Put`, `Get` and `RangeKeys` (stopping early or not) interleaved. The mock implements the atomic store (`AtomicStorer`), and every call returns under fairness (`CallsReturn`). |
| `chain_storer_units` (`MC_ChainStorerMock.cfg`, pass) | The transaction, miniblock, block header (routed to `Others`), meta header-nonce and shard header-nonce units, two keys, two values, three calls. What was last put under a unit type and key is what that unit type returns (`UnitsIsolated`). |
| `chain_storer_shard_nonce` (`MC_ChainStorerMock_shardNonce.cfg`, violation) | The meta header-nonce unit (7) and shard 1's header-nonce unit (18 + 1). Both go to the `MetaHdrNonce` storer, so putting nonce `k1` under one overwrites it under the other. This is a bug in the mock (see `findings`). |
| `data_processor` (`MC_DataProcessor.cfg`, pass, about 163k states) | One shard and the metachain, four rounds up to epoch 2, starting at genesis or at epoch 1. Start-of-epoch bodies have up to two miniblocks out of two peer miniblocks and a receipt one. Every replayed header, lagging shard headers included, is indexed (`ReplayedHeadersIndexed`). The peer block holds exactly the referenced peer miniblocks, once each, in body order (`PeerBlockExact`). |
| `data_processor_restart` (`MC_DataProcessor_restart.cfg`, violation) | Indexing restarted at epoch 2. The epoch-1 shard headers that the first epoch-2 meta blocks notarize fail the signers check and are skipped with a warning, although `Index` says it indexes the stored data. |

**Bounds.** The rewards instance is the smallest in which every branch of the engine for eligible
validators happens (the waiting-validator branch happens only in the `rewards_waiting_fees` run):
* a normal shard and the metachain, so both consensus sizes and the metachain-address case occur;
* two nodes on one address, so aggregation sums;
* an offline node;
* a top-up of zero or four against a gradient point of four, so the curve is hit at its midpoint;
* reward amounts that do not divide evenly, so dust appears.

Three calls let Create, Verify and a tampered Verify all happen in one epoch. Two callers with two
calls each are enough for the host driver: one caller can race `Close` while the other starts
after it.

In the storer, three calls per goroutine let one goroutine range while the other puts, waits and
puts again. Two keys let a range stop after one key, or see one key and miss an update of the
other.

In the data processor, four rounds reaching epoch 2 contain:
* two epoch changes;
* a round in which a shard lags one epoch behind the metachain;
* a start of epoch met by a coordinator that did not start at genesis.

Bodies of two miniblocks are enough for a duplicate (`<<p1, p1>>`) and for a reversed order
(`<<p2, p1>>`).

**Mutants.** Each property is shown to catch a plausible bug (see `mutants` in `PROJECT.json`):
* a missing reset of the sustainability value, or of the per-shard totals;
* a base reward not divided by the consensus size;
* offline nodes credited anyway;
* metachain-address rewards dropped;
* a curve without its gradient;
* `Close` closing the host before setting the flag;
* `RangeKeys` iterating without the lock, or returning early without the unlock;
* `GetStorer` missing its `ShardHdrNonceHashDataUnit` case;
* the peer filter missing its type check;
* only the metachain's coordinator prepared;
* duplicates kept in the peer block.

**Fairness.** The host driver has no liveness property and no fairness. Its final state, with
`Close` done and every call made, is a real end, which is why the driver's cfg turns deadlock
checking off.

The storer model assumes weak fairness of each goroutine's locked steps (`Step(c)`). Go runs every
runnable goroutine, and an unlocked `sync.Mutex` is eventually acquired by one of its waiters;
with finitely many calls, that is all `CallsReturn` needs. Starting a call gets no fairness,
because a test may stop calling. The run has no deadlock check, since every goroutine having
made its calls is a real end. The rewards model has no liveness property. Its
`Finished` step marks the end of the bounded run.

## What is proved (TLAPS)

* `RewardsV2_proofs!TypeCorrect`: `Spec => []TypeOK` for all constants satisfying
  `ConstantsAssumption`. `TypeOK` is not inductive on its own. While the base loop runs,
  `mapBaseRewardsPerBlockPerValidator` must be a total map over the shards, not the empty map
  `clean` leaves. The inductive invariant `IInv == TypeOK /\ MapBaseFilled` adds this fact.
  There is one lemma per action, and `NextIInv` splits on the disjuncts of `Next`.
* `HostDriver_proofs!HostDriverTypeCorrect` and `HostDriver_proofs!ClosedHostSafe`:
  `Spec => []ClosedHostOnlyReachedByEarlyCallers`, for any set of callers and any number of
  calls. The inductive invariant has three parts:
  * `isClosed` is set exactly when `Close` has begun;
  * only `Close`'s second step closes the host;
  * every caller past its check passed it before `Close` began.

* `StorerMock_proofs!StorerMockTypeCorrect` and `StorerMock_proofs!StorerMockRefinesAtomic`:
  `Spec => AtomicStorer`, for any clients, keys, values and call bound satisfying
  `StorerMockAssumption`. The inductive invariant `IInv` adds two facts to `TypeOK`:
  * `OwnerIterates`: exactly the lock owner is iterating;
  * `SeenCurrent`: every pair the ranging goroutine has seen still equals the map's current
    value, which holds because no write can happen while it holds the lock.

  The proof maps each step through `AbstractMap`:
  * the initial all-`Missing` map becomes the empty abstract map;
  * `Put` becomes the abstract `Put`, which extends the domain by the key (`Present(data')` is
    `Present(data)` plus the key);
  * `Get` becomes the abstract `Get`;
  * the step that ends a range becomes the abstract `RangeKeys`, because the pairs seen are a
    subset of `Entries(AbstractMap)` (lemma `EntriesSnapshot`);
  * every other step is a stutter.

  The proof is `InitRefines` and `NextRefines`, then PTL.
* `ChainStorerMock_proofs!ChainStorerTypeCorrect`: `Spec => []TypeOK`, for any keys, values,
  unit numbering satisfying the module's `ASSUME`, and call bound. The lemma `GetStorerType`
  says every unit number is sent to one of the eight storers.
* `ChainStorerMock_proofs!ChainStorerRoutingExact`: for every set `U` of natural unit types,
  `GetStorer` sends distinct members of `U` to distinct storers exactly when
  `SeparatelyRouted(U)`. The lemma `GetStorerCases` says, for each storer, which unit numbers
  reach it. `NamedStorerUnique` says a named type's own storer is reached by that type alone.
  The collision of the `switch`'s last branch is part of the statement: a type above
  `ShardHdrNonceHashDataUnit` never sits apart from `MetaHdrNonceHashDataUnit`.
* `ChainStorerMock_proofs!ChainStorerUnitsIsolated`:
  `ASSUME SeparatelyRouted(UnitTypes) PROVE Spec => []UnitsIsolated`. The hypothesis is about the
  unit set, not about `GetStorer`. `GetStorer` is the code's `switch`, and the previous theorem
  turns the hypothesis into distinct storers. What one storer then holds under a key is exactly
  what was last put under its unit, so a `Get` never sees another unit's value. The inductive
  invariant is `TypeOK /\ UnitsIsolated`. `NextIsolated` splits a `Put` three ways: the same
  unit and key, another unit, or the same unit and another key. The violation run
  `chain_storer_shard_nonce` uses units 7 and 19, a set that is not `SeparatelyRouted`, and
  isolation fails there.
* `DataProcessor_proofs!ReplayedHeadersIndexedSafe`:
  `ASSUME EarlyStart PROVE Spec => []ReplayedHeadersIndexed`, where `EarlyStart` says the starting
  epoch is 0 or 1. The invariant is not inductive alone. The strengthening `IInv` adds
  `CoreTypeOK` and `Known`:
  * in the first round, the coordinators are those `createNodesCoordinators` built and the meta
    epoch is the starting epoch;
  * after it, every shard's coordinator knows every epoch `0..metaEpoch`.

  A replay step moves the meta epoch by at most one, and its start-of-epoch block adds the new
  epoch, so a shard header whose epoch lags by at most one is always known. TLC checked `IInv`
  as an invariant before the proof. The violation run `data_processor_restart` shows that `EarlyStart` is
  needed: starting at epoch 2 leaves epoch 1 unknown.

**Model-checked only.** Everything else is checked by TLC on the small instances above:
* the storer's liveness property `CallsReturn`, which the prover cannot handle
  (liveness and `ENABLED`);
* `UnitsIsolated` and `ReplayedHeadersIndexed` in the runs' instances where their hypotheses
  fail (the violation runs);
* `DataProcessor`'s `TypeOK` and `PeerBlockExact`. Both need what the recursive function
  `UniqueMiniBlocksSlice` computes for every input, which is induction over data;
* the rewards engine's `ValueConservation`, `DustNeverNegative`, `OfflineRewardsUnassigned` and
  `TopUpSplitMatchesReference`. Their inductive forms relate the dust and the per-shard totals
  to `Total` over the nodes processed so far. Adding one node to `Total` is induction over the
  set, which is out of the prover's reach;
* `VerifyAcceptsExactlyHonest`. It needs a Verify call, run in another iteration order,
  to rebuild the same miniblocks as the Create call. That rests on the same sums.

## Not modelled

* `IntermediateTransactionHandlerMock` is a slice used by one test goroutine, whose methods append,
  reset or delegate to test callbacks. It has nothing a model would check beyond its assignments.
* In the data processor, the ratings and TPS updates and the header logging change no state the
  properties read. The notarized-header list and the receipt filtering in `indexData` shape only
  the indexed payload, which is abstracted to the header. `core.CalculateHash` errors are not
  modelled, because marshalling an in-memory miniblock does not fail.
* `RangeKeys` handlers that call back into the same storer would deadlock on the non-reentrant
  mutex. The model's handler does not call the storer; see `hazards`.
* The stateless adapters and the integration tests have no state to model.
* `RegisterHandler` forwards to a payload processor that is not in the sources.

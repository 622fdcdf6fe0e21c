# TLA+ verification of the voltaire ERC-4337 bundler

This directory holds TLA+ models of the bundler in `src/`. Each model comes with
TLC configurations that check it on small instances and TLAPS proofs that hold
for every value of the constants. `PROJECT.json` lists:

- the components and which module models each;
- the runs;
- the mutants that show each checked property can fail;
- the map from every model definition to the source lines it translates;
- the findings and the hazards.

## 1. The system

The bundler is an asyncio JSON-RPC server. Its parts are:

| Part | Source | State | Operations |
|---|---|---|---|
| MempoolManager | `src/voltaire_bundler/bundler/mempool_manager.py` | `senders` (address → `Sender` object holding a queue of user operations), `entity_no_of_ops_in_mempool` | `add_user_operation`, `get_user_operations_to_bundle`, `clear_user_operations`, `get_all_user_operations`, reputation checks and counter updates |
| GasManager | `src/voltaire_bundler/bundler/gas_manager.py` | `estimate_gas_with_override_enabled` (a latch) | call-gas estimation (strategy A: `eth_estimateGas`; strategy B: helper bytecode with exponential expansion and bisection), verification-gas estimation, pre-verification gas, L1 data cost, fee checks |
| ValidationManager | `src/bundler/validation_manager.py` | none | `simulate_validation`, decoding of `ValidationResult` and `FailedOp` revert data |
| ReputationManager, Sender, UserOperation, `validate_user_operation`, `get_addresses_code_hash` | not in this repository | `ops_seen` per entity; the queue of a Sender | status, seen updates, nonce-ordered append, code hashes |

How the parts interact: each `eth_sendUserOperation` request runs
`add_user_operation` as a coroutine. That coroutine:

1. checks reputation;
2. awaits validation, which pins the code hash of the sender, factory and paymaster;
3. creates or reuses the `Sender` object;
4. awaits a gather of the append and the hash computation (a thread);
5. then raises the seen counters and the entity counts.

The bundling task runs `get_user_operations_to_bundle`. It snapshots the keys
of `senders` and, per sender:

1. pops the head of the queue;
2. awaits `eth_getCode` for the associated addresses;
3. drops the operation if the code changed, and otherwise bundles it;
4. deletes the key when the queue is empty.

Every `await` is a point at which the other coroutines run. The hard
behaviours are therefore:

- the interleavings of several adds with the bundling pass and with
  `clear_user_operations`;
- state read before an await and used after it: the Sender object captured at
  line 69, the key snapshot at line 107, the popped operation at line 110;
- RPC failures between two steps;
- numeric edges of the gas search.

## 2. Modules

| Module | Models | Notes |
|---|---|---|
| `MempoolManager.tla` | MempoolManager, plus the parts of ReputationManager, Sender and ValidationManager it calls | one action per stretch of code between two awaits |
| `MC_MempoolManager.tla` | the TLC instance of it | |
| `MempoolManagerProofs.tla` | TLAPS proofs of type correctness and that no operation is ever in two places | |
| `CallGasSearch.tla` | `GasManager.estimate_call_gas_limit` and everything it calls (lines 134-403) | |
| `CallGasEstimate.tla` | what `estimate_call_gas_limit` promises, whichever strategy runs: the abstract specification `CallGasSearch` implements | no code of its own; stated from spec scenario 3 and P5 |
| `CallGasSearchProofs.tla` | TLAPS proofs of type correctness, the tolerance, the search bracket, the override latch and the refinement of `CallGasEstimate` | |
| `GasManager.tla` | the rest of the gas estimate (`estimate_callgaslimit_and_preverificationgas_and_verificationgas`, `estimate_verification_gas_limit`, `simulate_handle_op`'s answers), the pre-verification gas (`get_preverification_gas`, `calc_base_preverification_gas`, the Optimism and Arbitrum L1 estimates) and the admission check `verify_preverification_gas_and_verification_gas_limit`, with a wallet and a chain around them | the call gas search is `CallGasSearch`'s; here its answer is the constant `CallGas` |
| `MC_GasManager.tla` | the TLC instance of it | |
| `GasManagerProofs.tla` | TLAPS proofs that the estimated verification gas limit and pre-verification gas pass the admission check | |
| `ValidationManager.tla` | `simulate_validation` and `simulate_validation_and_decode_result` for concurrent requests | stateless apart from each request's answer |
| `MC_ValidationManager.tla` | the TLC instance of it | |
| `ValidationManagerProofs.tla` | TLAPS proof of the classification of section 4.2 | |

### MempoolManager

**State.**

| Variable | Code it models |
|---|---|
| `senders` | the dict, mapping an address to a Sender object id, 0 for "no key". Objects are numbered in creation order, which is the dict's insertion order, so `IsNextAddr` reproduces the iteration order of `list(self.senders)`. |
| `queue` | `Sender.user_operations` of every object, including objects no longer in the dict |
| `entityCount` | `entity_no_of_ops_in_mempool`; an absent key is 0, which is what lines 186-187 write |
| `opsSeen` | ReputationManager's `ops_seen`. `ops_included` is never incremented by the code here, so the status follows `ops_seen` alone. |
| `code` | a version of the on-chain code at every address |
| `hpc`, `hop`, `hobj` | the program counter and the locals of each suspended `add_user_operation` |
| `bpc`, `bTodo`, `bObj`, `bOp`, `bundle` | the same for the bundling coroutine |
| `appended`, `bundled`, `dropped`, `cleared` | history variables, used only by the properties |

**Actions.**

- `add_user_operation`:
  - `Receive` / `ReceiveRejected`: lines 53-59. `ReputationAllows` is `_verify_entities_reputation` and `_verify_entity_reputation`.
  - `ValidateFail` / `ValidateOk`: the await at 59 returns; lines 63-71 create and capture the Sender.
  - `AppendOk` / `AppendRejected`: `Sender.add_user_operation` inside the gather.
  - `Finish`: lines 84-102. `UpdateEntityNoOfOps` is `_update_entity_no_of_ops_in_mempool`.
- `get_user_operations_to_bundle`:
  - `BundleStart`, `BundleVisit`, `BundleVisitKeyError`: lines 105-113.
  - `BundleRpcError`: an exception at 113.
  - `BundleDrop`: lines 117-118.
  - `BundleAccept` and `BundleAcceptKeyError`: lines 120-122.
  - `BundleReturn`: lines 124-126.
  - `Abort` is the exception exit: the local bundle is lost.
- `clear_user_operations`: `ClearUserOperations`.
- The chain: `ChangeCode` (a redeployment or upgrade at an address).

The data is abstracted. An operation is its sender, its factory and paymaster
(or `NoEntity` for None), its nonce, a request id and the pinned code hash.
Gas fields, calldata, signature and hash are left out: no property is about them.

### CallGasSearch

**State.**

| Variable | Code it models |
|---|---|
| `enabled` | the latch `estimate_gas_with_override_enabled` |
| `nodeOverrides` | whether the node supports state overrides in `eth_estimateGas` |
| `req` | whether the request has initCode and whether it has overrides |
| `index`, `minGas`, `maxGas` | `index`, `min_gas`/`left` and `max_gas`/`right` |
| `result` | the value returned |

The account is abstracted to what the helper bytecode observes (spec P5):

- a call with gas limit G succeeds iff G ≥ `need`;
- a successful call uses `used` ≤ `need`;
- a failed call runs out of gas and uses all of G.

`Start` chooses a new account for every estimate, so one run covers every
account the bounds allow. `BlockGasLimit` is the node's own cap for
`eth_estimateGas` and `eth_call`.

**Actions**, mapped one to one onto the branches of the code:

- `Start`: the choice between strategies at lines 147-150;
- `EstimateGasOk`, `EstimateGasMethodNotFound`, `EstimateGasReverted`: lines 357-403 and 220-244;
- `Probe`: lines 256-271;
- `ExpandFail`, `ExpandDone`: `find_max_min_gas`. The cap at lines 215-216
  sits in the failure branch of its loop, so `ExpandFail` caps the new
  `max_gas` and `ExpandDone` does not: a first `2 * gas_used` at or above the
  cap is returned as it is;
- `SearchStep`, `SearchDone`: lines 284-302;
- `HelperError`: lines 343-352.

**Refinement.** `CallGasEstimate` has the variables `enabled`, `phase`,
`need` and `result` and four actions: `Request` starts an estimate for any
account, `Fallback` clears the override flag, `Answer` returns a limit in
`need .. need + Tolerance` for an account that does not revert below the
node's cap, and `Fail` raises. Its `Spec` has weak fairness of `Answer \/
Fail`: an estimate that has started ends. `CallGasSearch` maps onto it by
`EstimatePhase`, which sends every in-progress `pc` (`estimateGas`, `probe`,
`expand`, `search`) to `running` and keeps `idle`, `done` and `failed`;
`Estimate == INSTANCE CallGasEstimate WITH phase <- EstimatePhase`, and
`EstimateRefined == Estimate!Spec` is checked as a PROPERTY. `Start` is a
`Request`, `EstimateGasOk` and `SearchDone` are `Answer`s,
`EstimateGasMethodNotFound` is the `Fallback`, `EstimateGasReverted`, a
failing `Probe` and `HelperError` are `Fail`s, and the steps of the probe,
the expansion and the bisection are stutters.

### GasManager

A wallet sends an operation to `eth_estimateUserOperationGas`, copies the
returned limits into it (all three, or only `preVerificationGas`), signs it and
submits it; the submission runs the admission check at the head block. Blocks
arrive at any time.

**Operations** are abstracted to what the gas arithmetic reads: the five gas and
fee words, the signature (length and number of non-zero bytes) and, lumped into
`RestLen` and `RestNonZero`, the rest of the packed ABI encoding, which no step
changes. `NonZeroBytes` counts the non-zero bytes of a word's 32-byte encoding
(the words checked are below 2^31, so only the last four bytes can be non-zero),
so `CallDataCost` is the real `zero*4 + nonzero*16` of the packed operation and
changes when a limit is filled in. A block is its base fee and an L1 data price;
`L1Fee` is what the oracle returns (price times calldata gas).

| Variable | Code it models |
|---|---|
| `block`, `height` | the chain head |
| `need`, `reverts` | the gas validation uses; whether the call reverts even at the cap |
| `wpc`, `op` | the wallet and its operation |
| `snap`, `estOp` | `get_latest_block_info` at line 71, and the `user_operation` the request carries |
| `est` | the three hex values returned at lines 100-104 |
| `verdict`, `subHeight` | what line 604 or 610 raised, or "accepted", and when |

**Actions.**

- `EstimateStart`: lines 64-72;
- `EstimateOk`: lines 73-132 as one step. It computes the PVG of the operation as
  given at the pinned block (Arbitrum reads "latest"), writes it and
  MAX_VERIFICATION_GAS_LIMIT into the operation, sets callGasLimit to
  MAX_CALL_GAS_LIMIT, and takes an `ExecutionResult` of `simulate_handle_op`;
- `EstimateFails`: the call gas search reverts, or `simulate_handle_op` raises;
- `Sign`, `Submit`: the wallet and `eth_sendUserOperation`;
- `NewBlock`: the chain.

The awaits inside the estimate only read the chain, so merging them into one
step loses nothing except a block arriving between the PVG and the Arbitrum
oracle, which `CalcL1GasEstimateArbitrum` reading the head already shows.

### ValidationManager

Each concurrent request runs `SimulateValidation` (encode and await `eth_call`)
and then `Decode(h, a)`, which applies everything after the await (lines
132-143, then 43-55) to the node's answer `a`. An answer is abstracted to:

- error or not;
- message "execution reverted" or another;
- the revert selector, or `NoData` when `error.data` is missing;
- a whole or a truncated payload.

`Extends` lists selectors whose payload begins with a whole payload of another,
because `eth_abi.decode` reads a prefix and ignores the rest.

## 3. Runs

All runs use `tlc -workers 2 -config <cfg> <module>`.

| Run | cfg | Expect | What it shows |
|---|---|---|---|
| mempool_safety | `MC_MempoolManager.cfg` | pass (2.98M states, about 1.5 min) | `NoOpDuplicated` (an operation is in one place at a time) holds whatever the interleaving of two adds, the bundling pass, one reset and a factory redeployment |
| mempool_liveness | `MC_MempoolManager_live.cfg` | pass | `QueuedOpEventuallyLeaves`: every queued operation eventually leaves the mempool |
| throttled_sender_readmitted | `MC_MempoolManager_throttle.cfg` | violation | a THROTTLED sender with a queued operation passes the reputation check |
| entity_count_drift | `MC_MempoolManager_count.cfg` | violation | the entity counts are not the live counts after a bundle or a reset |
| op_lost_after_clear | `MC_MempoolManager_lost_clear.cfg` | violation | an add suspended across a reset appends to an orphaned Sender |
| op_lost_on_rpc_error | `MC_MempoolManager_lost_rpc.cfg` | violation | with no reset at all, an `eth_getCode` failure after the pop loses the operation |
| call_gas_search | `MC_CallGasSearch.cfg` | pass (12,495 states) | estimates are sufficient and within tolerance for both strategies and the fallback (`EstimateWithinTolerance`); the bisection bracket always holds the least sufficient limit (`SearchBracketsNeed`); and the search implements `CallGasEstimate`, termination included (`EstimateRefined`) |
| call_gas_above_cap | `MC_CallGasSearch_cap.cfg` | violation | strategy A returns a limit above MAX_CALL_GAS_LIMIT (the shortest trace); strategy B does too, see below |
| validation_classification | `MC_ValidationManager.cfg` | pass | non-reverting calls, FailedOp and ValidationResult reverts (whole or truncated) are classified as spec section 4.2 says |
| validation_unknown_selector | `MC_ValidationManager_unknown.cfg` | violation | a revert with another selector whose payload starts with a ValidationResult payload is returned as valid (spec: Protocol) |
| gas_estimate_admission | `MC_GasManager.cfg` | pass | on a chain without L1 cost, the estimated verification gas limit is never too high, and an operation estimated unsigned, given the estimated PVG and signed with 65 bytes is never refused for PVG |
| gas_filled_estimate | `MC_GasManager_filled.cfg` | violation | an operation estimated with zero limits and submitted with all three returned limits is refused as PVG too low in the same block |

**Bounds of the mempool runs.**

| Bound | Value | Why it is enough |
|---|---|---|
| senders | 2 | distinct dict keys and an iteration order |
| factories | 1 | a shared factory, which makes reputation and counts interact |
| handlers | 2 | concurrent adds, including two for the same sender |
| nonces | 2 | an accepted and a refused order |
| add requests | 3 (2 for liveness) | |
| Sender objects | 2 | a new object after a reset or a deletion |
| code versions | 2 | a redeployment between validation and bundling |
| resets | 1 (0 in `lost_rpc`, so that run shows a loss without any reset) | |
| ThrottleThreshold, BanThreshold | 1 and 2 | three adds reach THROTTLED and BANNED |

Every failure in the findings needs at most five of these steps, and TLC
reports the shortest trace.

**Bounds of the gas runs.** MAX_CALL_GAS_LIMIT = 16, tolerance = 2 and node
cap = 20 are scaled down from 30,000,000, 5000 and the block gas limit. Every
`need` in 1..21 and every `used` ≤ `need` is tried. That covers:

- success at the first `2*gas_used`;
- several expansions, including an expansion capped at the cap and a first
  `2*gas_used` above it;
- an account that reverts at the cap;
- an account beyond the node's cap.

**Bounds of the validation runs.** Two requests, four selectors (FailedOp,
ValidationResult, ValidationResultWithAggregation, which extends it, and
SenderAddressResult) plus a missing data field, two messages and whole or
truncated payloads: every branch of the classification, for two requests in
either order.

**Bounds of the GasManager runs.** Real constants (MAX limits, 21000, 18300,
4 and 16 per byte). The rest of the encoding is 448 bytes with 24 non-zero;
operations start with callGasLimit and verificationGasLimit 0 or set, and
signature length 0, 10 or 65; signatures are 65 bytes with 62 or 65 non-zero;
validation uses 70,000 gas or just under the cap; base fees 1 or 2 and L1 price 0. One new block and two estimates: enough for a
re-estimate after a submission and for a block between estimate and
submission. Deadlock is not checked: the wallet stops after its estimates and
the chain after its blocks, as a real one-shot client does.

**Fairness.** The runs assume weak fairness of each handler's steps and of the
bundling task. This is justified because every awaited RPC returns or raises
(the HTTP client has timeouts), and the bundling loop is rescheduled by the
server. The runs assume nothing about new requests, resets or code changes.
The estimate runs on WF of its steps: the RPC handler awaits it to the end.

## 4. Proofs (TLAPS)

| Theorem | Module | Statement |
|---|---|---|
| `TypeCorrect` | `MempoolManagerProofs` | `Spec => []TypeOK` |
| `CallGasTypeCorrect` | `CallGasSearchProofs` | `Spec => []TypeOK` |
| `WithinTolerance` | `CallGasSearchProofs` | `Spec => []EstimateWithinTolerance` |
| `SearchKeepsNeed` | `CallGasSearchProofs` | `Spec => []SearchBracketsNeed` |
| `SearchRefinesEstimate` | `CallGasSearchProofs` | `Spec => Estimate!SafetySpec` (the safety part of `EstimateRefined`) |
| `NoDuplicates` | `MempoolManagerProofs` | `Spec => []NoOpDuplicated` |
| `ClassificationCorrect` | `ValidationManagerProofs` | `Spec => []NamedAnswersClassified` |
| `VerificationGasAccepted` | `GasManagerProofs` | `Spec => []EstimatedVerificationGasAccepted` |
| `SettledPreverificationGasAccepted` | `GasManagerProofs` | `Chain = "other"` implies `Spec => []SettledEstimateAccepted` |

The assumptions are the named ASSUMEs:

- `ConstantsAssumption`: finite entity set, `NoEntity` not an entity, natural bounds and nonces;
- `CallGasAssumption`: positive cap and tolerance, node cap ≥ MAX_CALL_GAS_LIMIT;
- `SelectorsAssumption`: the revert selectors are distinct, and distinct
  from the missing-data marker, as the code's constants are;
- `GasAssumption`: the operations, signatures and blocks are well typed, no
  signature has more non-zero bytes than bytes, base fees are positive.

**MempoolManagerProofs.** `TypeOK` alone is not inductive: an add that is
about to append must hold a real operation and object id, and so must the
bundling task while it awaits the code hash. `TypeInv = TypeOK /\ LocalsOK`
adds exactly these facts; TLC checked it on the safety instance first. The
proof of `TypeInv /\ [Next]_vars => TypeInv'` has one lemma for the handler
steps and one for the bundling steps, with one case per action.

The nonce order of a Sender queue (spec P2) is neither checked nor proved:
it rests only on the strict check of `Sender.add_user_operation`, which is
not in this repository and whose check-and-append is one step, so no
behaviour of `mempool_manager.py` could break it.

`NoOpDuplicated` (no operation id in two queue slots, in flight twice, in
the bundle twice or in two of these places) is not inductive either: an add
that has passed its checks and is still awaiting validation must hold an id
that is nowhere yet, or its append would duplicate it. `IdInv` adds:

- every pending add (`validating` or `appending`) holds an id outside
  `Placed` (queues, in-flight, bundle and bundled);
- two pending adds hold different ids;
- every id placed or pending is in `1..nextId`, so a fresh id is new.

TLC checked `IdInv` as an invariant first (2,980,966 states). The proof has
one lemma per kind of step (`ReceiveIdInv`, `AppendOkIdInv`,
`BundleVisitIdInv`, `BundleAcceptIdInv`, `BundleReturnIdInv`,
`ReleaseIdInv`, `QuietIdInv`), resting on sequence lemmas (`RangeAppend`,
`AppendSlotsUnique`, `TailSlotsUnique`, `AppendSeqUnique`) and on
`DupFree`, which states the four-way disjointness once.

**ValidationManagerProofs.** `NamedAnswersClassified` speaks of finished
requests only, so it is strengthened to `ClassInv`: every request's outcome
is the classification of its answer, whatever its pc, because `Decode`
writes both together. Three lemmas compute the classification on the
answers the spec names. The FailedOp and ValidationResult cases need
`SelectorsAssumption`: with equal selectors the first `if` of
`simulate_validation_and_decode_result` would take a ValidationResult for
a FailedOp.

**CallGasSearchProofs.** The inductive invariant `Bracket` says:

- `used ≤ need`;
- during the expansion and bisection, `left ≤ need`;
- while expanding, `left ≤ max_gas`;
- while expanding, `need ≤ MAX_CALL_GAS_LIMIT` (the probe succeeded);
- while bisecting, `need ≤ right`;
- a finished estimate lies in `[need, need + tolerance]`.

`ExpandFail` multiplies by `2^(index+1)`. The lemma `PowPos` shows `2^k` is a
positive natural, as the number of subsets of `1..k` (`FS_SUBSET`), with no
induction.

`right` is not bounded by MAX_CALL_GAS_LIMIT: the code caps `max_gas` only
when a call fails (lines 215-216), so a first `2 * gas_used` above the cap is
bisected as it is. With strategy A pruned from the run (a CONSTRAINT `pc #
"estimateGas"`), TLC finds `EstimateWithinCap` violated through strategy B
too: need 15, gas used 9, `right` 18, answer 17 above a cap of 16.

`SearchRefinesEstimate` proves the safety part of the refinement: `Init`
maps to `Estimate!Init` (`InitRefined`), and under `SearchInv` every step of
`Next` maps to a step of `CallGasEstimate` or a stutter (`NextRefined`, one
case per action). `SearchDone` is an `Answer` because `Bracket` puts the
result in `need .. need + tolerance` and `need` below the cap.

**GasManagerProofs.** `VglInv` adds to the property the facts it needs:
the operations have integer fields, `est` has a verification gas limit in
0..MAX_VERIFICATION_GAS_LIMIT, and a vglTooHigh verdict was given to an
operation above the cap. `EstimateOk` keeps the second conjunct because
`simulate_handle_op` only answers `ExecutionResult` when validation fits in
the MAX limit it was given, and `preOpGas - pvg` is then that validation gas.
The lemmas `NonZeroBytesNat`, `PackedInt`, `CalcBaseInt` and
`GetPreverificationGasInt` show that the pricing is integer-valued for every
chain. For the PVG, `PvgInv` records that the estimate's PVG is the base cost
of the operation it was made for, that the signed operation carries it with
the same fee words and a wallet signature, and that a pvgTooLow verdict
compared the operation with its own base cost. `BaseMonotone` is the heart:
for two operations with the same limits and fees, one with a 65-byte signature
and one with less, the first costs no more, because `BaseCopy` replaces both
PVGs by 21000 and the short signature by 65 non-zero bytes. On Optimism and
Arbitrum the theorem is false, so it assumes `Chain = "other"`: the L1 fee is
priced over the operation with its own PVG (0 before the estimate), so the
submitted operation, carrying the estimate, pays more L1 data cost than was
estimated. With `Chain = "optimism"` and blocks with a positive L1 price, TLC
finds `SettledEstimateAccepted` violated at once.

Big literal intervals such as `0..2147483647` defeat the provers'
preprocessing, so `Word` is written `{n \in Nat : n <= 2147483647}`.

**Only model-checked.** Liveness needs fairness and ENABLED, which are beyond
the provers, so it stays with TLC: `QueuedOpEventuallyLeaves`, and the
fairness part of `EstimateRefined` (every started estimate ends, which needs
the WF of the search's steps and the bound on the expansions).

## 5. Not modelled, and the plan

- **Fee verification.** `verify_gas_fees_and_get_price` (lines 526-591) is
  not modelled. Its floors are `math.ceil(x * (m / 100))` in floating point,
  whose rounding TLC's integers cannot reproduce.
- **State overrides.** The overrides `simulate_handle_op` builds (lines
  428-471) only fund the simulation, so they are not modelled.
- **Next modules, in order:**
  1. a composition of the mempool with ValidationManager's outcomes;
  2. an abstract mempool (a set of pending operations, add/take/drop) with
     `MempoolManager` shown to refine it where the code is correct.
- **Transport and codecs.** The RPC server, the JSON-RPC client, the ABI codec and the hashing are not modelled: they are I/O and encoding. Their failures appear as the error exits of the awaits.
- **Reputation.** Decay and `ops_included` are not modelled: nothing in `src/` changes them.

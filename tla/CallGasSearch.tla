---------------------------- MODULE CallGasSearch ----------------------------
(***************************************************************************)
(* Call-gas-limit estimation of GasManager                                 *)
(* (voltaire_bundler/bundler/gas_manager.py, lines 134-302).               *)
(*                                                                         *)
(* estimate_call_gas_limit chooses eth_estimateGas (strategy A) or the     *)
(* GasHelper binary search (strategy B); a MethodNotFound answer to A      *)
(* clears estimate_gas_with_override_enabled for good and falls back to B. *)
(* Strategy B calls the helper at MAX_CALL_GAS_LIMIT, expands an upper     *)
(* bound exponentially (find_max_min_gas) and bisects down to a tolerance. *)
(*                                                                         *)
(* The account is abstracted to what the helper can observe: a call with a *)
(* gas limit G succeeds iff G >= Need (spec P5: the helper is monotone);   *)
(* a successful call uses Used gas (Used <= Need), a failed one runs out   *)
(* of gas and uses all G.  Every estimate chooses Need and Used anew, so   *)
(* one run checks every account the bounds allow.                          *)
(***************************************************************************)
EXTENDS Integers

CONSTANTS
    MaxCallGas,     \* MAX_CALL_GAS_LIMIT (30_000_000 in the code), scaled
    Tolerance,      \* the 5000 of the bisection loop, scaled
    BlockGasLimit   \* the gas cap of the node's eth_estimateGas and eth_call

ASSUME CallGasAssumption ==
    /\ MaxCallGas \in Nat \ {0}
    /\ Tolerance \in Nat \ {0}
    /\ BlockGasLimit \in Nat /\ BlockGasLimit >= MaxCallGas

VARIABLES
    enabled,        \* GasManager.estimate_gas_with_override_enabled
    nodeOverrides,  \* whether the node accepts state overrides in eth_estimateGas
    pc,             \* where the current estimate is
    req,            \* the request: initCode empty? override set empty?
    need,           \* least gas limit at which the account call succeeds
    used,           \* gas a successful account call uses
    index,          \* index of find_max_min_gas
    minGas,         \* min_gas, then left of the bisection
    maxGas,         \* max_gas, then right of the bisection
    result          \* the call gas limit returned

vars == <<enabled, nodeOverrides, pc, req, need, used, index, minGas, maxGas,
          result>>

Requests == [initCodeEmpty: BOOLEAN, overridesEmpty: BOOLEAN]

\* The helper's answer at gas limit g (testCallGas through eth_call).
Succeeds(g) == g >= need
GasUsedAt(g) == IF Succeeds(g) THEN used ELSE g

\* Python's math.ceil((right - left) / 2) on integers.
HalfUp(n) == (n + 1) \div 2

Cap(g) == IF g > MaxCallGas THEN MaxCallGas ELSE g

-----------------------------------------------------------------------------
Init ==
    /\ enabled = TRUE
    /\ nodeOverrides \in BOOLEAN
    /\ pc = "idle"
    /\ req = [initCodeEmpty |-> TRUE, overridesEmpty |-> TRUE]
    /\ need = 0 /\ used = 0 /\ index = 0 /\ minGas = 0 /\ maxGas = 0
    /\ result = 0

\* Lines 144-178: strategy A when there is no initCode and either overrides
\* are still believed supported or there are none; strategy B otherwise.
\* The account of the request is any one the bounds allow; Need above
\* BlockGasLimit is an account that reverts whatever the gas.
Start ==
    /\ pc \in {"idle", "done", "failed"}
    /\ \E r \in Requests, n \in 1..(BlockGasLimit + 1), u \in 1..MaxCallGas :
          /\ u <= n
          /\ req' = r
          /\ need' = n
          /\ used' = u
          /\ pc' = IF r.initCodeEmpty /\ (enabled \/ r.overridesEmpty)
                     THEN "estimateGas" ELSE "probe"
    /\ result' = 0 /\ index' = 0 /\ minGas' = 0 /\ maxGas' = 0
    /\ UNCHANGED <<enabled, nodeOverrides>>

\* Lines 220-244 and 357-403: eth_estimateGas answers the gas of the whole
\* transaction, found by the node up to its own cap; removing 21000 and the
\* calldata cost leaves Need, returned without comparing it to
\* MAX_CALL_GAS_LIMIT.
EstimateGasOk ==
    /\ pc = "estimateGas"
    /\ req.overridesEmpty \/ nodeOverrides
    /\ need <= BlockGasLimit
    /\ result' = need
    /\ pc' = "done"
    /\ UNCHANGED <<enabled, nodeOverrides, req, need, used, index, minGas, maxGas>>

\* Lines 385-391 and 160-171: -32601/-32602 for the override parameter; the
\* flag is cleared and strategy B runs instead.
EstimateGasMethodNotFound ==
    /\ pc = "estimateGas"
    /\ ~req.overridesEmpty /\ ~nodeOverrides
    /\ enabled' = FALSE
    /\ pc' = "probe"
    /\ UNCHANGED <<nodeOverrides, req, need, used, index, minGas, maxGas, result>>

\* Lines 393-399: the execution reverts at any gas; ExecutionException.
EstimateGasReverted ==
    /\ pc = "estimateGas"
    /\ req.overridesEmpty \/ nodeOverrides
    /\ need > BlockGasLimit
    /\ pc' = "failed"
    /\ UNCHANGED <<enabled, nodeOverrides, req, need, used, index, minGas, maxGas, result>>

\* Lines 255-282: the helper at MAX_CALL_GAS_LIMIT; a failure raises
\* EXECUTION_REVERTED, a success starts find_max_min_gas with
\* min_gas = gas_used, max_gas = 2 * gas_used, index = 1 (lines 193-196).
Probe ==
    /\ pc = "probe"
    /\ IF Succeeds(MaxCallGas)
         THEN /\ minGas' = GasUsedAt(MaxCallGas)
              /\ maxGas' = 2 * GasUsedAt(MaxCallGas)
              /\ index' = 1
              /\ pc' = "expand"
         ELSE /\ pc' = "failed"
              /\ UNCHANGED <<minGas, maxGas, index>>
    /\ UNCHANGED <<enabled, nodeOverrides, req, need, used, result>>

\* Lines 197-216: while max_gas < MAX_CALL_GAS_LIMIT the helper is called at
\* max_gas; on failure gas_used is overwritten by the failed call's, min_gas
\* takes max_gas, and max_gas = ceil(2^index * gas_used) is capped at
\* MAX_CALL_GAS_LIMIT.  The cap is inside the failure branch only.
ExpandFail ==
    /\ pc = "expand"
    /\ maxGas < MaxCallGas
    /\ ~Succeeds(maxGas)
    /\ index' = index + 1
    /\ minGas' = maxGas
    /\ maxGas' = Cap(2^(index + 1) * GasUsedAt(maxGas))
    /\ UNCHANGED <<enabled, nodeOverrides, pc, req, need, used, result>>

\* Mutant: the loop also stops on a failed call (a break in both branches).
ExpandDoneEarly ==
    /\ pc = "expand"
    /\ pc' = "search"
    /\ UNCHANGED <<enabled, nodeOverrides, req, need, used, index, minGas, maxGas,
                   result>>

\* Lines 197-209 and 218: the loop ends on a success at max_gas, or does
\* not run (again) once max_gas >= MAX_CALL_GAS_LIMIT, and (max_gas,
\* min_gas) become (right, left).  The first max_gas = 2 * gas_used
\* (line 196) is never capped: when it is already at or above the cap the
\* loop body, and its cap, do not run.
ExpandDone ==
    /\ pc = "expand"
    /\ maxGas < MaxCallGas => Succeeds(maxGas)
    /\ pc' = "search"
    /\ UNCHANGED <<enabled, nodeOverrides, req, need, used, index, minGas, maxGas,
                   result>>

\* Mutant: a success at mid moves right below mid.
SearchStepOffByOne ==
    LET mid == minGas + HalfUp(maxGas - minGas) IN
    /\ pc = "search"
    /\ minGas + Tolerance < maxGas
    /\ IF Succeeds(mid) THEN /\ maxGas' = mid - 1
                             /\ UNCHANGED minGas
                        ELSE /\ minGas' = mid + 1
                             /\ UNCHANGED maxGas
    /\ UNCHANGED <<enabled, nodeOverrides, pc, req, need, used, index, result>>

\* Lines 284-299: one bisection step while left + 5000 < right.
SearchStep ==
    LET mid == minGas + HalfUp(maxGas - minGas) IN
    /\ pc = "search"
    /\ minGas + Tolerance < maxGas
    /\ IF Succeeds(mid) THEN /\ maxGas' = mid
                             /\ UNCHANGED minGas
                        ELSE /\ minGas' = mid + 1
                             /\ UNCHANGED maxGas
    /\ UNCHANGED <<enabled, nodeOverrides, pc, req, need, used, index, result>>

\* Lines 301-302: right is returned.
SearchDone ==
    /\ pc = "search"
    /\ ~(minGas + Tolerance < maxGas)
    /\ result' = maxGas
    /\ pc' = "done"
    /\ UNCHANGED <<enabled, nodeOverrides, req, need, used, index, minGas, maxGas>>

\* Lines 343-352: the eth_call of a helper call returns an error.
HelperError ==
    /\ \/ pc = "probe"
       \/ pc = "expand" /\ maxGas < MaxCallGas
       \/ pc = "search" /\ minGas + Tolerance < maxGas
    /\ pc' = "failed"
    /\ UNCHANGED <<enabled, nodeOverrides, req, need, used, index, minGas, maxGas, result>>

EstimateStep ==
    \/ EstimateGasOk \/ EstimateGasMethodNotFound \/ EstimateGasReverted
    \/ Probe \/ ExpandFail \/ ExpandDone \/ SearchStep \/ SearchDone
    \/ HelperError

Next == Start \/ EstimateStep

\* The RPC handler awaits the estimate to its end.
Spec == Init /\ [][Next]_vars /\ WF_vars(EstimateStep)

-----------------------------------------------------------------------------
(* Properties                                                              *)

Phases == {"idle", "estimateGas", "probe", "expand", "search", "done", "failed"}

TypeOK ==
    /\ enabled \in BOOLEAN
    /\ nodeOverrides \in BOOLEAN
    /\ pc \in Phases
    /\ req \in Requests
    /\ need \in 0..(BlockGasLimit + 1)
    /\ used \in 0..MaxCallGas
    /\ index \in Nat
    /\ minGas \in Nat
    /\ maxGas \in Nat
    /\ result \in Nat

\* Scenario 3 of the spec: whatever the account, whichever strategy answers,
\* the returned call gas limit is enough for the call and exceeds the least
\* sufficient limit by at most the tolerance.
EstimateWithinTolerance ==
    pc = "done" => need <= result /\ result <= need + Tolerance

\* Strategy B never loses the answer: from the probe at MAX_CALL_GAS_LIMIT
\* through find_max_min_gas's expansion and every bisection step, the least
\* sufficient gas limit stays between left (min_gas) and right (max_gas).
SearchBracketsNeed ==
    pc = "search" => minGas <= need /\ need <= maxGas

\* Invariant I4 of the spec: the call gas limit returned does not exceed
\* MAX_CALL_GAS_LIMIT; strategy A returns the node's answer unchecked, and
\* find_max_min_gas returns an uncapped 2 * gas_used when gas_used is at
\* least half the cap.
EstimateWithinCap ==
    pc = "done" => result <= MaxCallGas

-----------------------------------------------------------------------------
(* Refinement: CallGasSearch implements CallGasEstimate.  Every phase of   *)
(* an estimate in progress is the abstract "running"; need, result and the *)
(* override flag are the abstract ones.                                    *)

EstimatePhase ==
    IF pc \in {"estimateGas", "probe", "expand", "search"} THEN "running" ELSE pc

Estimate == INSTANCE CallGasEstimate WITH phase <- EstimatePhase

\* Whichever strategy answers, every estimate that starts ends, and ends
\* with an error or with a call gas limit between the account's least
\* sufficient limit and that limit plus the tolerance; the fallback from
\* eth_estimateGas to the binary search is invisible but for the flag it
\* clears.
EstimateRefined == Estimate!Spec

=============================================================================

------------------------- MODULE CallGasSearchProofs -------------------------
(***************************************************************************)
(* Proofs about CallGasSearch for every MAX_CALL_GAS_LIMIT, tolerance and  *)
(* node gas cap.                                                           *)
(*                                                                         *)
(* The argument is the bracket of the search: from the probe at            *)
(* MAX_CALL_GAS_LIMIT on, min_gas (left) never exceeds the least           *)
(* sufficient limit Need, which is at most the cap, and once               *)
(* find_max_min_gas returns, right is at least Need (it may exceed the     *)
(* cap: the first 2 * gas_used is never capped).                           *)
(* SearchDone then returns right <= left + tolerance <= Need + tolerance.  *)
(***************************************************************************)
EXTENDS CallGasSearch, FiniteSetTheorems, TLAPS

\* The bracket held by strategy B, and what "done" means.
Bracket ==
    /\ used <= need
    /\ pc \in {"expand", "search"} => need <= MaxCallGas /\ minGas <= need
    /\ pc = "expand" => minGas <= maxGas
    /\ pc = "search" => need <= maxGas
    /\ pc = "done" => need <= result /\ result <= need + Tolerance

SearchInv == TypeOK /\ Bracket

USE CallGasAssumption

\* 2^k is a positive natural: it counts the subsets of 1..k.
LEMMA PowPos ==
    ASSUME NEW k \in Nat
    PROVE  2^k \in Nat \ {0}
<1>1. IsFiniteSet(1..k) /\ Cardinality(1..k) = k
  BY FS_Interval
<1>2. IsFiniteSet(SUBSET (1..k)) /\ Cardinality(SUBSET (1..k)) = 2^k
  BY <1>1, FS_SUBSET
<1>3. Cardinality(SUBSET (1..k)) \in Nat
  BY <1>2, FS_CardinalityType
<1>4. Cardinality(SUBSET (1..k)) # 0
  <2>1. {} \in SUBSET (1..k)
    OBVIOUS
  <2>. QED BY <1>2, <2>1, FS_EmptySet
<1>. QED BY <1>2, <1>3, <1>4

LEMMA InitSearchInv == Init => SearchInv
BY DEF Init, SearchInv, TypeOK, Bracket, Requests, Phases

\* One step per action of the estimate; each keeps the bracket.
LEMMA NextSearchInv == SearchInv /\ [Next]_vars => SearchInv'
<1>. SUFFICES ASSUME SearchInv, [Next]_vars PROVE SearchInv'
  OBVIOUS
<1>. USE DEF SearchInv, TypeOK, Bracket, Phases
<1>1. CASE Start
  BY <1>1 DEF Start, Requests
<1>2. CASE EstimateGasOk
  BY <1>2 DEF EstimateGasOk
<1>3. CASE EstimateGasMethodNotFound
  BY <1>3 DEF EstimateGasMethodNotFound
<1>4. CASE EstimateGasReverted
  BY <1>4 DEF EstimateGasReverted
<1>5. CASE Probe
  BY <1>5 DEF Probe, Succeeds, GasUsedAt
<1>6. CASE ExpandFail
  <2>1. 2^(index + 1) \in Nat \ {0}
    BY PowPos
  <2>2. GasUsedAt(maxGas) = maxGas /\ maxGas < need /\ maxGas < MaxCallGas
    BY <1>6 DEF ExpandFail, GasUsedAt, Succeeds
  <2>3. 2^(index + 1) * maxGas \in Nat /\ maxGas <= 2^(index + 1) * maxGas
    BY <2>1
  <2>4. Cap(2^(index + 1) * maxGas) \in Nat /\ maxGas <= Cap(2^(index + 1) * maxGas)
    BY <2>2, <2>3 DEF Cap
  <2>. QED BY <1>6, <2>2, <2>4 DEF ExpandFail
<1>7. CASE ExpandDone
  BY <1>7 DEF ExpandDone, Succeeds
<1>8. CASE SearchStep
  <2>. DEFINE mid == minGas + HalfUp(maxGas - minGas)
  <2>1. mid \in Nat /\ minGas < mid /\ mid <= maxGas
    BY <1>8 DEF SearchStep, HalfUp
  <2>2. CASE Succeeds(mid)
    BY <1>8, <2>1, <2>2 DEF SearchStep, Succeeds
  <2>3. CASE ~Succeeds(mid)
    BY <1>8, <2>1, <2>3 DEF SearchStep, Succeeds
  <2>. QED BY <2>2, <2>3
<1>9. CASE SearchDone
  BY <1>9 DEF SearchDone
<1>10. CASE HelperError
  BY <1>10 DEF HelperError
<1>11. CASE UNCHANGED vars
  BY <1>11 DEF vars
<1>. QED BY <1>1, <1>2, <1>3, <1>4, <1>5, <1>6, <1>7, <1>8, <1>9, <1>10, <1>11
         DEF Next, EstimateStep

\* Type correctness of the estimate, although find_max_min_gas multiplies
\* max_gas by an unbounded power of two.
THEOREM CallGasTypeCorrect == Spec => []TypeOK
<1>1. Init => SearchInv
  BY InitSearchInv
<1>2. SearchInv /\ [Next]_vars => SearchInv'
  BY NextSearchInv
<1>3. SearchInv => TypeOK
  BY DEF SearchInv
<1>. QED BY <1>1, <1>2, <1>3, PTL DEF Spec

\* Scenario 3 of the spec, for every cap, tolerance and account: whichever
\* strategy answers, the call gas limit returned by estimate_call_gas_limit
\* is sufficient for the call and exceeds the least sufficient limit by at
\* most the tolerance.
THEOREM WithinTolerance == Spec => []EstimateWithinTolerance
<1>1. Init => SearchInv
  BY InitSearchInv
<1>2. SearchInv /\ [Next]_vars => SearchInv'
  BY NextSearchInv
<1>3. SearchInv => EstimateWithinTolerance
  BY DEF SearchInv, Bracket, EstimateWithinTolerance
<1>. QED BY <1>1, <1>2, <1>3, PTL DEF Spec

\* Strategy B never loses the answer, for every cap, tolerance and account:
\* through find_max_min_gas and every bisection step, the least sufficient
\* gas limit stays between left and right.
THEOREM SearchKeepsNeed == Spec => []SearchBracketsNeed
<1>1. Init => SearchInv
  BY InitSearchInv
<1>2. SearchInv /\ [Next]_vars => SearchInv'
  BY NextSearchInv
<1>3. SearchInv => SearchBracketsNeed
  BY DEF SearchInv, Bracket, SearchBracketsNeed
<1>. QED BY <1>1, <1>2, <1>3, PTL DEF Spec

-----------------------------------------------------------------------------
(* Refinement of CallGasEstimate, safety part: each step of the detailed  *)
(* estimate is a step of the abstract one or leaves the abstract state    *)
(* unchanged.  The bracket is what makes SearchDone an abstract Answer.   *)

LEMMA InitRefined == Init => Estimate!Init
BY DEF Init, Estimate!Init, EstimatePhase

LEMMA NextRefined ==
    SearchInv /\ [Next]_vars => [Estimate!Next]_Estimate!avars
<1>. SUFFICES ASSUME SearchInv, [Next]_vars
              PROVE  [Estimate!Next]_Estimate!avars
  OBVIOUS
<1>. DEFINE Running == {"estimateGas", "probe", "expand", "search"}
<1>1. CASE Start
  <2>1. EstimatePhase \in {"idle", "done", "failed"} /\ EstimatePhase' = "running"
    BY <1>1 DEF Start, SearchInv, TypeOK, Phases, EstimatePhase
  <2>2. need' \in 1..(BlockGasLimit + 1) /\ result' = 0 /\ enabled' = enabled
    BY <1>1 DEF Start
  <2>. QED BY <2>1, <2>2 DEF Estimate!Next, Estimate!Request
<1>2. CASE EstimateGasOk
  BY <1>2 DEF EstimateGasOk, SearchInv, TypeOK, EstimatePhase,
              Estimate!Next, Estimate!Answer
<1>3. CASE EstimateGasMethodNotFound
  BY <1>3 DEF EstimateGasMethodNotFound, EstimatePhase, Estimate!Next,
              Estimate!Fallback
<1>4. CASE EstimateGasReverted
  BY <1>4 DEF EstimateGasReverted, EstimatePhase, Estimate!Next, Estimate!Fail
<1>5. CASE Probe
  <2>1. CASE Succeeds(MaxCallGas)
    BY <1>5, <2>1 DEF Probe, EstimatePhase, Estimate!avars
  <2>2. CASE ~Succeeds(MaxCallGas)
    BY <1>5, <2>2 DEF Probe, EstimatePhase, Estimate!Next, Estimate!Fail
  <2>. QED BY <2>1, <2>2
<1>6. CASE ExpandFail
  BY <1>6 DEF ExpandFail, EstimatePhase, Estimate!avars
<1>7. CASE ExpandDone
  BY <1>7 DEF ExpandDone, EstimatePhase, Estimate!avars
<1>8. CASE SearchStep
  BY <1>8 DEF SearchStep, EstimatePhase, Estimate!avars
<1>9. CASE SearchDone
  <2>1. need <= maxGas /\ minGas <= need /\ need <= MaxCallGas
        /\ need \in Int /\ maxGas \in Int /\ minGas \in Int
    BY <1>9 DEF SearchDone, SearchInv, TypeOK, Bracket
  <2>2. result' \in need..(need + Tolerance) /\ need <= BlockGasLimit
    BY <1>9, <2>1 DEF SearchDone
  <2>. QED BY <1>9, <2>2 DEF SearchDone, EstimatePhase, Estimate!Next,
                              Estimate!Answer
<1>10. CASE HelperError
  BY <1>10 DEF HelperError, EstimatePhase, Estimate!Next, Estimate!Fail
<1>11. CASE UNCHANGED vars
  BY <1>11 DEF vars, EstimatePhase, Estimate!avars
<1>. QED BY <1>1, <1>2, <1>3, <1>4, <1>5, <1>6, <1>7, <1>8, <1>9, <1>10, <1>11
         DEF Next, EstimateStep

\* estimate_call_gas_limit implements the abstract estimator, for every
\* cap, tolerance and node gas cap: whichever strategy runs, and across
\* the fallback from eth_estimateGas to the binary search, an estimate
\* ends only with an error or with a limit in need .. need + Tolerance for
\* an account that does not revert below the node's cap, and the override
\* flag is never set again.  (That every estimate ends, the fairness part
\* of EstimateRefined, is checked by TLC.)
THEOREM SearchRefinesEstimate == Spec => Estimate!SafetySpec
<1>1. Init => SearchInv
  BY InitSearchInv
<1>2. SearchInv /\ [Next]_vars => SearchInv'
  BY NextSearchInv
<1>3. Init => Estimate!Init
  BY InitRefined
<1>4. SearchInv /\ [Next]_vars => [Estimate!Next]_Estimate!avars
  BY NextRefined
<1>. QED BY <1>1, <1>2, <1>3, <1>4, PTL DEF Spec, Estimate!SafetySpec

=============================================================================

-------------------------- MODULE GasManagerProofs --------------------------
(***************************************************************************)
(* Proofs about GasManager for every chain, packed layout, account and     *)
(* set of wallet operations, signatures and blocks.                        *)
(*                                                                         *)
(* The verification gas limit the estimate returns is at most              *)
(* MAX_VERIFICATION_GAS_LIMIT (simulateHandleOp succeeds only when         *)
(* validation fits in that limit), so the admission check never finds it   *)
(* too high.  On a chain without an L1 data component, the                 *)
(* pre-verification gas the estimate returns is the base cost of the       *)
(* operation it was given with the dummy signature; the operation the      *)
(* wallet signs differs from it only in preVerificationGas, which the base *)
(* cost does not read, and in a signature no costlier than the dummy.      *)
(***************************************************************************)
EXTENDS GasManager, FiniteSetTheorems, TLAPS

\* Operations with integer words: the type the proofs need.
OpInt == [cgl: Int, vgl: Int, pvg: Int, maxFee: Int, prio: Int, sig: [len: Int, nz: Int]]

Limits == [cgl: Int, pvg: Int, vgl: {n \in Nat : n <= MAX_VERIFICATION_GAS_LIMIT}]

\* The inductive invariant for the verification gas limit.
VglInv ==
    /\ op \in OpInt /\ estOp \in OpInt /\ est \in Limits
    /\ need \in ValidationGas /\ block \in Blocks /\ snap.b \in Blocks
    /\ wpc = "submitted" /\ verdict = "vglTooHigh" => op.vgl > MAX_VERIFICATION_GAS_LIMIT



\* The constants' types, from GasAssumption.
LEMMA ConstantTypes ==
    /\ InitialOps \subseteq OpInt /\ Signatures \subseteq [len: Int, nz: Int]
    /\ ValidationGas \subseteq Nat /\ CallGas \in Nat
    /\ \A b \in Blocks : b.l1Price \in Nat /\ b.baseFee \in Nat \ {0}
    /\ RestLen \in Int /\ RestNonZero \in Int
<1>1. Word \subseteq Nat /\ Word \subseteq Int /\ Nat \subseteq Int
  BY SMT DEF Word
<1>2. UserOp \subseteq OpInt
  BY <1>1, Zenon DEF UserOp, OpInt, Sig
<1>3. Signatures \subseteq [len: Int, nz: Int]
  BY GasAssumption, SMT DEF Sig
<1>4. \A b \in Blocks : b.l1Price \in Nat /\ b.baseFee \in Nat \ {0}
  BY GasAssumption, SMT
<1>. QED BY <1>1, <1>2, <1>3, <1>4, GasAssumption, SMT

LEMMA NonZeroBytesNat ==
    ASSUME NEW v
    PROVE  NonZeroBytes(v) \in Nat
<1>1. IsFiniteSet(0..3)
  <2>1. 0 \in Int /\ 3 \in Int
    OBVIOUS
  <2>. QED BY <2>1, FS_Interval, Zenon
<1>2. {i \in 0..3 : (v \div 256^i) % 256 # 0} \subseteq 0..3
  OBVIOUS
<1>3. IsFiniteSet({i \in 0..3 : (v \div 256^i) % 256 # 0})
  BY <1>1, <1>2, FS_Subset
<1>. QED BY <1>3, FS_CardinalityType DEF NonZeroBytes

\* The packed encoding of anything with an integer signature is priced by
\* an integer.
LEMMA PackedInt ==
    ASSUME NEW p, p.sig.len \in Int, p.sig.nz \in Int
    PROVE  CallDataCost(p) \in Int /\ PackedLen(p) \in Int
<1>1. /\ NonZeroBytes(p.cgl) \in Nat /\ NonZeroBytes(p.vgl) \in Nat
      /\ NonZeroBytes(p.pvg) \in Nat /\ NonZeroBytes(p.maxFee) \in Nat
      /\ NonZeroBytes(p.prio) \in Nat /\ NonZeroBytes(p.sig.len) \in Nat
  BY NonZeroBytesNat
<1>2. RestLen \in Int /\ RestNonZero \in Int
  BY ConstantTypes
<1>. QED BY <1>1, <1>2 DEF CallDataCost, PackedLen, PackedNonZero, CeilDiv

LEMMA BaseArith ==
    ASSUME NEW x \in Int, NEW y \in Int
    PROVE  x + 21000 + 18300 + 4 * CeilDiv(y + 31, 32) \in Int
BY DEF CeilDiv

LEMMA CalcBaseInt ==
    ASSUME NEW o \in OpInt
    PROVE  CalcBasePreverificationGas(o) \in Int
<1>1. BaseCopy(o).sig = IF o.sig.len < 65 THEN DummySignature ELSE o.sig
  BY DEF OpInt, BaseCopy
<1>2. o.sig \in [len: Int, nz: Int]
  BY DEF OpInt
<1>3. BaseCopy(o).sig.len \in Int /\ BaseCopy(o).sig.nz \in Int
  BY <1>1, <1>2 DEF DummySignature
<1>4. CallDataCost(BaseCopy(o)) \in Int /\ PackedLen(BaseCopy(o)) \in Int
  BY <1>3, PackedInt
<1>. QED BY <1>4, BaseArith DEF CalcBasePreverificationGas

LEMMA GetPreverificationGasInt ==
    ASSUME NEW o \in OpInt, NEW b1 \in Blocks, NEW b2 \in Blocks
    PROVE  GetPreverificationGas(o, b1, b2) \in Int
<1>1. CalcBasePreverificationGas(o) \in Int
  BY CalcBaseInt
<1>2. CallDataCost(o) \in Int
  BY PackedInt DEF OpInt
<1>3. /\ b1.l1Price \in Nat /\ b1.baseFee \in Nat \ {0}
      /\ b2.l1Price \in Nat /\ b2.baseFee \in Nat \ {0}
  BY ConstantTypes
<1>4. CalcL1GasEstimateOptimism(o, b1) \in Int
  BY <1>2, <1>3 DEF OpInt, CalcL1GasEstimateOptimism, L1Fee, CeilDiv, Max, Min
<1>5. CalcL1GasEstimateArbitrum(o, b2) \in Int
  BY <1>2, <1>3 DEF CalcL1GasEstimateArbitrum, L1Fee, CeilDiv
<1>. QED BY <1>1, <1>4, <1>5 DEF GetPreverificationGas

LEMMA InitVglInv == Init => VglInv
<1>. SUFFICES ASSUME Init PROVE VglInv
  OBVIOUS
<1>1. op \in OpInt /\ need \in ValidationGas /\ block \in Blocks
  BY ConstantTypes DEF Init
<1>. QED BY <1>1 DEF Init, VglInv, Limits, NoLimits, MAX_VERIFICATION_GAS_LIMIT

LEMMA NextVglInv == VglInv /\ [Next]_vars => VglInv'
<1>. SUFFICES ASSUME VglInv, [Next]_vars PROVE VglInv'
  OBVIOUS
<1>1. CASE NewBlock
  BY <1>1 DEF NewBlock, VglInv
<1>2. CASE EstimateStart
  BY <1>2 DEF EstimateStart, VglInv
<1>3. CASE EstimateOk
  <2>. DEFINE pvg == GetPreverificationGas(estOp, snap.b, block)
              o   == [estOp EXCEPT !.pvg = pvg, !.vgl = MAX_VERIFICATION_GAS_LIMIT,
                                   !.cgl = MAX_CALL_GAS_LIMIT]
  <2>1. pvg \in Int
    BY GetPreverificationGasInt DEF VglInv
  <2>2. o.pvg = pvg /\ o.vgl = MAX_VERIFICATION_GAS_LIMIT
    BY Zenon DEF VglInv, OpInt
  <2>3. PICK a \in HandleOpAnswers(o) :
            /\ SimulateHandleOp(a) = "ok"
            /\ est' = [cgl |-> CallGas, pvg |-> pvg, vgl |-> a.preOpGas - o.pvg]
    BY <1>3, Zenon DEF EstimateOk
  <2>4. UNCHANGED <<block, need, op, snap, estOp, verdict>> /\ wpc' = "estimated"
    BY <1>3, Zenon DEF EstimateOk
  <2>. HIDE DEF pvg, o
  <2>5. a.preOpGas = need + pvg /\ need <= MAX_VERIFICATION_GAS_LIMIT
    BY <2>2, <2>3 DEF HandleOpAnswers, SimulateHandleOp
  <2>6. need \in Nat
    BY ConstantTypes DEF VglInv
  <2>7. est' \in Limits
    BY <2>1, <2>2, <2>3, <2>5, <2>6, ConstantTypes DEF Limits
  <2>. QED BY <2>4, <2>7 DEF VglInv
<1>4. CASE EstimateFails
  <2>1. UNCHANGED <<block, need, op, estOp, est, snap, verdict>> /\ wpc' = "idle"
    BY <1>4, Zenon DEF EstimateFails
  <2>. QED BY <2>1 DEF VglInv
<1>5. CASE Sign
  <2>1. PICK all \in BOOLEAN, s \in Signatures :
            op' = [op EXCEPT !.pvg = est.pvg,
                             !.cgl = IF all THEN est.cgl ELSE op.cgl,
                             !.vgl = IF all THEN est.vgl ELSE op.vgl,
                             !.sig = s]
    BY <1>5 DEF Sign
  <2>2. s \in [len: Int, nz: Int]
    BY ConstantTypes
  <2>3. est.pvg \in Int /\ est.cgl \in Int /\ est.vgl \in Int
    BY DEF VglInv, Limits
  <2>4. op \in OpInt
    BY DEF VglInv
  <2>5. op' \in OpInt
    BY <2>1, <2>2, <2>3, <2>4, Zenon DEF OpInt
  <2>6. UNCHANGED <<block, need, snap, estOp, est, verdict>> /\ wpc' = "signed"
    BY <1>5 DEF Sign
  <2>. QED BY <2>5, <2>6 DEF VglInv
<1>6. CASE Submit
  <2>1. verdict' = VerifyPreverificationGasAndVerificationGasLimit(op, block)
        /\ UNCHANGED <<block, need, op, snap, estOp, est>>
    BY <1>6 DEF Submit
  <2>2. verdict' = "vglTooHigh" => op.vgl > MAX_VERIFICATION_GAS_LIMIT
    BY <2>1 DEF VerifyPreverificationGasAndVerificationGasLimit
  <2>. QED BY <2>1, <2>2 DEF VglInv
<1>7. CASE UNCHANGED vars
  BY <1>7 DEF vars, VglInv
<1>. QED BY <1>1, <1>2, <1>3, <1>4, <1>5, <1>6, <1>7 DEF Next

\* The verification gas limit eth_estimateUserOperationGas returns passes
\* the MAX_VERIFICATION_GAS_LIMIT check of verify_preverification_gas_and_
\* verification_gas_limit, for every account and chain.
THEOREM VerificationGasAccepted == Spec => []EstimatedVerificationGasAccepted
<1>1. Init => VglInv
  BY InitVglInv
<1>2. VglInv /\ [Next]_vars => VglInv'
  BY NextVglInv
<1>3. VglInv => EstimatedVerificationGasAccepted
  <2>. SUFFICES ASSUME VglInv, wpc = "submitted", op.vgl = est.vgl
                PROVE  verdict # "vglTooHigh"
    BY DEF EstimatedVerificationGasAccepted
  <2>1. est.vgl \in Nat /\ est.vgl <= MAX_VERIFICATION_GAS_LIMIT
    BY DEF VglInv, Limits
  <2>. QED BY <2>1 DEF VglInv, MAX_VERIFICATION_GAS_LIMIT
<1>. QED BY <1>1, <1>2, <1>3, PTL DEF Spec

-----------------------------------------------------------------------------
(* The pre-verification gas on a chain without an L1 data component.      *)

\* The inductive invariant: the estimate's preVerificationGas is the base
\* cost of the operation it was made for, the signed operation carries it,
\* its signature is one the wallet produces, and its fee words are those it
\* was estimated with; a pvgTooLow verdict compared the operation with its
\* own base cost.
PvgInv ==
    /\ VglInv
    /\ op.maxFee = estOp.maxFee /\ op.prio = estOp.prio
    /\ wpc \in {"estimated", "signed", "submitted"}
          => est.pvg = CalcBasePreverificationGas(estOp)
    /\ wpc \in {"signed", "submitted"} => op.pvg = est.pvg /\ op.sig \in Signatures
    /\ wpc = "submitted" /\ verdict = "pvgTooLow"
          => op.pvg < CalcBasePreverificationGas(op)

\* Two operations that differ only in preVerificationGas and in a 65-byte
\* signature against none: the signed one costs no more than the dummy.
LEMMA BaseMonotone ==
    ASSUME NEW a \in OpInt, NEW b \in OpInt,
           a.cgl = b.cgl, a.vgl = b.vgl, a.maxFee = b.maxFee, a.prio = b.prio,
           a.sig.len = 65, a.sig.nz <= 65, b.sig.len < 65
    PROVE  CalcBasePreverificationGas(a) <= CalcBasePreverificationGas(b)
<1>. DEFINE pa == BaseCopy(a)  pb == BaseCopy(b)
<1>1. /\ pa.cgl = pb.cgl /\ pa.vgl = pb.vgl /\ pa.pvg = pb.pvg
      /\ pa.maxFee = pb.maxFee /\ pa.prio = pb.prio
      /\ pa.sig = a.sig /\ pb.sig = DummySignature
  BY DEF BaseCopy, OpInt
<1>2. a.sig.len \in Int /\ a.sig.nz \in Int
  BY DEF OpInt
<1>3. pa.sig.len = pb.sig.len /\ pa.sig.nz <= pb.sig.nz
      /\ pa.sig.len \in Int /\ pa.sig.nz \in Int /\ pb.sig.nz \in Int
  BY <1>1, <1>2 DEF DummySignature
<1>. HIDE DEF pa, pb
<1>4. /\ NonZeroBytes(pa.cgl) \in Nat /\ NonZeroBytes(pa.vgl) \in Nat
      /\ NonZeroBytes(pa.pvg) \in Nat /\ NonZeroBytes(pa.maxFee) \in Nat
      /\ NonZeroBytes(pa.prio) \in Nat /\ NonZeroBytes(pa.sig.len) \in Nat
  BY NonZeroBytesNat
<1>5. RestLen \in Int /\ RestNonZero \in Int
  BY ConstantTypes
<1>6. PackedLen(pa) = PackedLen(pb) /\ PackedLen(pa) \in Int
  BY <1>3, <1>5 DEF PackedLen, CeilDiv
<1>7. PackedNonZero(pa) <= PackedNonZero(pb) /\ PackedNonZero(pa) \in Int
      /\ PackedNonZero(pb) \in Int
  BY <1>1, <1>3, <1>4, <1>5 DEF PackedNonZero
<1>8. CallDataCost(pa) <= CallDataCost(pb)
      /\ CallDataCost(pa) \in Int /\ CallDataCost(pb) \in Int
  BY <1>6, <1>7 DEF CallDataCost
<1>9. CeilDiv(PackedLen(pa) + 31, 32) \in Int
  BY <1>6 DEF CeilDiv
<1>. QED BY <1>6, <1>8, <1>9 DEF CalcBasePreverificationGas, pa, pb

\* On such a chain the pre-verification gas is the base cost.
LEMMA PvgIsBase ==
    ASSUME Chain = "other", NEW o \in OpInt, NEW b1, NEW b2
    PROVE  GetPreverificationGas(o, b1, b2) = CalcBasePreverificationGas(o)
<1>1. CalcBasePreverificationGas(o) \in Int
  BY CalcBaseInt
<1>. QED BY <1>1 DEF GetPreverificationGas

LEMMA InitPvgInv == Init => PvgInv
<1>. SUFFICES ASSUME Init PROVE PvgInv
  OBVIOUS
<1>1. VglInv
  BY InitVglInv
<1>. QED BY <1>1 DEF Init, PvgInv

LEMMA NextPvgInv ==
    ASSUME Chain = "other"
    PROVE  PvgInv /\ [Next]_vars => PvgInv'
<1>. SUFFICES ASSUME PvgInv, [Next]_vars PROVE PvgInv'
  OBVIOUS
<1>1. VglInv'
  BY NextVglInv DEF PvgInv
<1>2. CASE NewBlock
  BY <1>1, <1>2 DEF NewBlock, PvgInv
<1>3. CASE EstimateStart
  BY <1>1, <1>3 DEF EstimateStart, PvgInv
<1>4. CASE EstimateOk
  <2>. DEFINE pvg == GetPreverificationGas(estOp, snap.b, block)
              o   == [estOp EXCEPT !.pvg = pvg, !.vgl = MAX_VERIFICATION_GAS_LIMIT,
                                   !.cgl = MAX_CALL_GAS_LIMIT]
  <2>1. pvg = CalcBasePreverificationGas(estOp)
    BY PvgIsBase DEF PvgInv, VglInv
  <2>2. PICK a \in HandleOpAnswers(o) :
            est' = [cgl |-> CallGas, pvg |-> pvg, vgl |-> a.preOpGas - o.pvg]
    BY <1>4, Zenon DEF EstimateOk
  <2>3. UNCHANGED <<op, estOp, verdict>> /\ wpc' = "estimated"
    BY <1>4, Zenon DEF EstimateOk
  <2>. HIDE DEF pvg, o
  <2>4. est'.pvg = CalcBasePreverificationGas(estOp)
    BY <2>1, <2>2
  <2>. QED BY <1>1, <2>3, <2>4 DEF PvgInv
<1>5. CASE EstimateFails
  <2>1. UNCHANGED <<op, estOp, est, verdict>> /\ wpc' = "idle"
    BY <1>5, Zenon DEF EstimateFails
  <2>. QED BY <1>1, <2>1 DEF PvgInv
<1>6. CASE Sign
  <2>1. PICK all \in BOOLEAN, s \in Signatures :
            op' = [op EXCEPT !.pvg = est.pvg,
                             !.cgl = IF all THEN est.cgl ELSE op.cgl,
                             !.vgl = IF all THEN est.vgl ELSE op.vgl,
                             !.sig = s]
    BY <1>6 DEF Sign
  <2>2. op \in OpInt
    BY DEF PvgInv, VglInv
  <2>3. /\ op'.pvg = est.pvg /\ op'.sig = s
        /\ op'.maxFee = op.maxFee /\ op'.prio = op.prio
    BY <2>1, <2>2, Zenon DEF OpInt
  <2>4. UNCHANGED <<estOp, est, verdict>> /\ wpc = "estimated" /\ wpc' = "signed"
    BY <1>6 DEF Sign
  <2>. QED BY <1>1, <2>3, <2>4 DEF PvgInv
<1>7. CASE Submit
  <2>1. verdict' = VerifyPreverificationGasAndVerificationGasLimit(op, block)
        /\ UNCHANGED <<op, estOp, est>> /\ wpc = "signed" /\ wpc' = "submitted"
    BY <1>7 DEF Submit
  <2>2. GetPreverificationGas(op, block, block) = CalcBasePreverificationGas(op)
    BY PvgIsBase DEF PvgInv, VglInv
  <2>3. verdict' = "pvgTooLow" => op.pvg < CalcBasePreverificationGas(op)
    BY <2>1, <2>2 DEF VerifyPreverificationGasAndVerificationGasLimit
  <2>. QED BY <1>1, <2>1, <2>3 DEF PvgInv
<1>8. CASE UNCHANGED vars
  BY <1>1, <1>8 DEF vars, PvgInv
<1>. QED BY <1>2, <1>3, <1>4, <1>5, <1>6, <1>7, <1>8 DEF Next

\* On a chain without an L1 data component, a wallet that estimated an
\* unsigned operation, copied the returned preVerificationGas, kept the gas
\* limits it estimated with and signed with 65 bytes is never refused with
\* "preVerificationGas too low" by verify_preverification_gas_and_
\* verification_gas_limit, whatever block it is checked in: the dummy
\* signature of calc_base_preverification_gas is the costliest 65 bytes and
\* the substituted preVerificationGas makes the estimate's own value
\* irrelevant.
THEOREM SettledPreverificationGasAccepted ==
    ASSUME Chain = "other"
    PROVE  Spec => []SettledEstimateAccepted
<1>1. Init => PvgInv
  BY InitPvgInv
<1>2. PvgInv /\ [Next]_vars => PvgInv'
  BY NextPvgInv
<1>3. PvgInv => SettledEstimateAccepted
  <2>. SUFFICES ASSUME PvgInv, SameBlock, estOp.sig.len < 65, op.sig.len = 65,
                       op.cgl = estOp.cgl, op.vgl = estOp.vgl
                PROVE  verdict # "pvgTooLow"
    BY DEF SettledEstimateAccepted
  <2>1. wpc = "submitted"
    BY DEF SameBlock
  <2>2. op \in OpInt /\ estOp \in OpInt
    BY DEF PvgInv, VglInv
  <2>3. op.sig \in Signatures /\ op.pvg = CalcBasePreverificationGas(estOp)
    BY <2>1 DEF PvgInv
  <2>4. op.sig.nz <= 65
    BY <2>3, GasAssumption
  <2>5. CalcBasePreverificationGas(op) <= CalcBasePreverificationGas(estOp)
    BY <2>2, <2>4, BaseMonotone DEF PvgInv
  <2>6. CalcBasePreverificationGas(op) \in Int /\ CalcBasePreverificationGas(estOp) \in Int
    BY <2>2, CalcBaseInt
  <2>. QED BY <2>1, <2>3, <2>5, <2>6 DEF PvgInv
<1>. QED BY <1>1, <1>2, <1>3, PTL DEF Spec

=============================================================================

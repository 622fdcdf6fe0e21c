----------------------------- MODULE GasManager -----------------------------
(***************************************************************************)
(* Gas estimation and the admission-time gas check of                      *)
(* voltaire_bundler/bundler/gas_manager.py, and the client that uses them.  *)
(*                                                                         *)
(* A wallet sends its operation to eth_estimateUserOperationGas            *)
(* (estimate_callgaslimit_and_preverificationgas_and_verificationgas),     *)
(* copies some or all of the three limits it gets back into the operation, *)
(* signs it and sends it to eth_sendUserOperation, whose validation calls  *)
(* verify_preverification_gas_and_verification_gas_limit at the block of   *)
(* that moment.  Blocks arrive in between.                                 *)
(*                                                                         *)
(* An operation is abstracted to what the gas arithmetic reads: the five   *)
(* gas and fee words, the signature (length and number of non-zero bytes)  *)
(* and, lumped together, the length and non-zero bytes of the rest of its  *)
(* packed encoding (sender, nonce, initCode, callData, paymasterAndData,   *)
(* the ABI offsets), which no step of this protocol changes.  The search   *)
(* for the call gas limit is modelled in CallGasSearch; here its answer is *)
(* the least sufficient limit of the account or an ExecutionReverted.      *)
(***************************************************************************)
EXTENDS Integers, FiniteSets

CONSTANTS
    Chain,             \* "optimism" (chain ids 10, 420), "arbitrum" (42161) or "other"
    RestLen,           \* bytes of the packed operation outside the modelled fields
    RestNonZero,       \* non-zero bytes among them
    CallGas,           \* call gas limit the account needs (CallGasSearch's answer)
    ValidationGas,     \* gas the account's validation may use
    InitialOps,        \* operations a wallet starts from
    Signatures,        \* signatures a wallet produces
    Blocks,            \* [baseFee, l1Price] of a block
    MaxBlocks,         \* bound on the number of new blocks
    MaxEstimates       \* bound on the number of estimate requests

MAX_VERIFICATION_GAS_LIMIT == 10000000
MAX_CALL_GAS_LIMIT == 30000000

\* Gas and fee words are below 2^32 in the instances checked, so their
\* big-endian uint256 encoding has its non-zero bytes among the last four.
Word == {n \in Nat : n <= 2147483647}      \* 2^31 - 1
Sig == [len: Nat, nz: Nat]
UserOp == [cgl: Word, vgl: Word, pvg: Word, maxFee: Word, prio: Word, sig: Sig]

ASSUME GasAssumption ==
    /\ Chain \in {"optimism", "arbitrum", "other"}
    /\ RestLen \in Nat /\ RestLen % 32 = 0 /\ RestNonZero \in 0..RestLen
    /\ CallGas \in Word /\ ValidationGas \subseteq Word
    /\ InitialOps \subseteq UserOp /\ Signatures \subseteq Sig
    /\ \A s \in Signatures \cup {o.sig : o \in InitialOps} : s.nz <= s.len
    /\ Blocks \subseteq [baseFee: Nat \ {0}, l1Price: Nat]
    /\ MaxBlocks \in Nat /\ MaxEstimates \in Nat

VARIABLES
    block,      \* the chain head: base fee and L1 data price
    height,     \* number of blocks since the start
    need,       \* gas the account's validation uses
    reverts,    \* the account's call reverts even at MAX_CALL_GAS_LIMIT
    wpc,        \* the wallet: "idle", "estimating", "estimated", "signed", "submitted"
    op,         \* the wallet's user operation
    snap,       \* get_latest_block_info of the running estimate: block and height
    estOp,      \* the operation as it was sent to the last estimate
    est,        \* the three limits the last estimate returned
    verdict,    \* what the admission check said of the last submission
    subHeight,  \* height of the block the submission was checked against
    estimates   \* number of estimate requests

vars == <<block, height, need, reverts, wpc, op, snap, estOp, est, verdict, subHeight, estimates>>

-----------------------------------------------------------------------------
(* Arithmetic of the code                                                  *)

Min(a, b) == IF a < b THEN a ELSE b
Max(a, b) == IF a > b THEN a ELSE b

\* math.ceil(a / b) for naturals a and b > 0 (exact for the values here).
CeilDiv(a, b) == (a + b - 1) \div b

\* Non-zero bytes of the 32-byte big-endian encoding of a word.
NonZeroBytes(v) == Cardinality({i \in 0..3 : (v \div 256^i) % 256 # 0})

\* UserOperationHandler.pack_user_operation(op, False): the ABI encoding of
\* the operation.  The five gas and fee words, the signature's length word
\* and its bytes padded to words follow the rest of the encoding.
PackedLen(o) == RestLen + 32 * (6 + CeilDiv(o.sig.len, 32))

PackedNonZero(o) ==
    RestNonZero + NonZeroBytes(o.cgl) + NonZeroBytes(o.vgl) + NonZeroBytes(o.pvg)
    + NonZeroBytes(o.maxFee) + NonZeroBytes(o.prio) + NonZeroBytes(o.sig.len) + o.sig.nz

\* zero_byte_count * 4 + non_zero_byte_count * 16 of the packed operation.
CallDataCost(o) == (PackedLen(o) - PackedNonZero(o)) * 4 + PackedNonZero(o) * 16

\* The 65 bytes 0x01 substituted for a missing signature.
DummySignature == [len |-> 65, nz |-> 65]

\* Mutant: the operation's own preVerificationGas is packed.
BaseCopyKeepPvg(o) ==
    [o EXCEPT !.sig = IF o.sig.len < 65 THEN DummySignature ELSE o.sig]

\* The copy calc_base_preverification_gas packs (lines 743-751): its
\* preVerificationGas is 21000 and a signature shorter than 65 bytes is
\* replaced by the dummy.
BaseCopy(o) ==
    [o EXCEPT !.pvg = 21000, !.sig = IF o.sig.len < 65 THEN DummySignature ELSE o.sig]

\* calc_base_preverification_gas (lines 742-782): over BaseCopy(o),
\* the calldata cost, the fixed cost of a singleton bundle, the per-operation
\* cost and 4 per word of ceil((len + 31) / 32) words are added.
CalcBasePreverificationGas(o) ==
    CallDataCost(BaseCopy(o)) + 21000 + 18300 + 4 * CeilDiv(PackedLen(BaseCopy(o)) + 31, 32)

\* The L1 data cost the chain's oracle reports for a handleOps transaction
\* carrying the operation as it is: l1Price per unit of calldata gas.
L1Fee(o, b) == b.l1Price * CallDataCost(o)

\* calc_l1_gas_estimate_optimism (lines 616-665): getL1Fee at the pinned
\* block, divided by the L2 gas price the operation pays.
CalcL1GasEstimateOptimism(o, b) ==
    CeilDiv(L1Fee(o, b), Max(1, Min(o.maxFee, o.prio + b.baseFee)))

\* calc_l1_gas_estimate_arbitrum (lines 667-705): gasEstimateL1Component,
\* asked at "latest", gives the L1 cost in L2 gas at that block's base fee.
CalcL1GasEstimateArbitrum(o, latest) == CeilDiv(L1Fee(o, latest), latest.baseFee)

\* get_preverification_gas (lines 707-739) with the default coefficient 100
\* and constant 0 that every caller uses; pinned is the block whose number
\* the caller passes, latest the head when the Arbitrum oracle answers.
GetPreverificationGas(o, pinned, latest) ==
    CalcBasePreverificationGas(o)
    + IF Chain = "optimism" THEN CalcL1GasEstimateOptimism(o, pinned)
      ELSE IF Chain = "arbitrum" THEN CalcL1GasEstimateArbitrum(o, latest)
      ELSE 0

\* The answers of eth_call to simulateHandleOp for an operation: the
\* EntryPoint reverts with ExecutionResult whose preOpGas is the gas used by
\* validation plus preVerificationGas when validation fits in the
\* verificationGasLimit (else FailedOp "AA40"), or with FailedOp or
\* Error(string) when the account or paymaster rejects it; the node may not
\* revert or answer with another error or selector.
HandleOpAnswers(o) ==
    {IF need <= o.vgl THEN [kind |-> "ExecutionResult", preOpGas |-> need + o.pvg]
                      ELSE [kind |-> "FailedOp"]}
    \cup [kind: {"FailedOp", "Error", "OtherSelector", "OtherError", "NoRevert"}]

\* simulate_handle_op (lines 405-524), after its state overrides fund the
\* simulation: "ok" for an ExecutionResult, whose preOpGas it returns;
\* "didNotRevert" for the ValueError of a call that did not revert;
\* "SimulateValidation" for the ValidationException of every other answer.
SimulateHandleOp(a) ==
    IF a.kind = "ExecutionResult" THEN "ok"
    ELSE IF a.kind = "NoRevert" THEN "didNotRevert"
    ELSE "SimulateValidation"

\* verify_preverification_gas_and_verification_gas_limit (lines 593-614) at
\* the head block.
VerifyPreverificationGasAndVerificationGasLimit(o, b) ==
    IF o.pvg < GetPreverificationGas(o, b, b) THEN "pvgTooLow"
    ELSE IF o.vgl > MAX_VERIFICATION_GAS_LIMIT THEN "vglTooHigh"
    ELSE "accepted"

-----------------------------------------------------------------------------
NoLimits == [cgl |-> 0, pvg |-> 0, vgl |-> 0]

Init ==
    /\ block \in Blocks
    /\ height = 0
    /\ need \in ValidationGas
    /\ reverts \in BOOLEAN
    /\ wpc = "idle"
    /\ op \in InitialOps
    /\ snap = [b |-> block, h |-> 0]
    /\ estOp = op
    /\ est = NoLimits
    /\ verdict = "none"
    /\ subHeight = 0
    /\ estimates = 0

\* A new block with its own base fee and L1 data price.
NewBlock ==
    /\ height < MaxBlocks
    /\ height' = height + 1
    /\ block' \in Blocks
    /\ UNCHANGED <<need, reverts, wpc, op, snap, estOp, est, verdict, subHeight, estimates>>

\* Lines 64-71: the wallet's request arrives (with the operation as the
\* wallet has it now) and get_latest_block_info pins the head block.
EstimateStart ==
    /\ wpc \in {"idle", "submitted"}
    /\ estimates < MaxEstimates
    /\ estimates' = estimates + 1
    /\ snap' = [b |-> block, h |-> height]
    /\ estOp' = op
    /\ wpc' = "estimating"
    /\ UNCHANGED <<block, height, need, reverts, op, est, verdict, subHeight>>

\* Mutant: preOpGas is returned as the verification gas limit.
EstimateOkNoSubtract ==
    LET pvg == GetPreverificationGas(estOp, snap.b, block)
        o   == [estOp EXCEPT !.pvg = pvg, !.vgl = MAX_VERIFICATION_GAS_LIMIT,
                             !.cgl = MAX_CALL_GAS_LIMIT]
    IN  /\ wpc = "estimating"
        /\ ~reverts
        /\ \E a \in HandleOpAnswers(o) :
              /\ SimulateHandleOp(a) = "ok"
              /\ est' = [cgl |-> CallGas, pvg |-> pvg, vgl |-> a.preOpGas]
        /\ wpc' = "estimated"
        /\ UNCHANGED <<block, height, need, reverts, op, snap, estOp, verdict, subHeight, estimates>>

\* Lines 73-104 with estimate_verification_gas_limit (lines 106-132): the
\* pre-verification gas of the operation as sent, then, on the operation
\* with that preVerificationGas and the maximal verificationGasLimit, the
\* call gas limit, then simulateHandleOp with the maximal callGasLimit; the
\* verification gas limit is preOpGas less preVerificationGas.
EstimateOk ==
    LET pvg == GetPreverificationGas(estOp, snap.b, block)
        o   == [estOp EXCEPT !.pvg = pvg, !.vgl = MAX_VERIFICATION_GAS_LIMIT,
                             !.cgl = MAX_CALL_GAS_LIMIT]
    IN  /\ wpc = "estimating"
        /\ ~reverts
        /\ \E a \in HandleOpAnswers(o) :
              /\ SimulateHandleOp(a) = "ok"
              /\ est' = [cgl |-> CallGas, pvg |-> pvg, vgl |-> a.preOpGas - o.pvg]
        /\ wpc' = "estimated"
        /\ UNCHANGED <<block, height, need, reverts, op, snap, estOp, verdict, subHeight, estimates>>

\* The estimate raises: estimate_call_gas_limit reports ExecutionReverted
\* (line 82), or simulate_handle_op does not return (line 92).
EstimateFails ==
    LET o == [estOp EXCEPT !.pvg = GetPreverificationGas(estOp, snap.b, block),
                           !.vgl = MAX_VERIFICATION_GAS_LIMIT, !.cgl = MAX_CALL_GAS_LIMIT]
    IN  /\ wpc = "estimating"
        /\ \/ reverts
           \/ \E a \in HandleOpAnswers(o) : SimulateHandleOp(a) # "ok"
        /\ wpc' = "idle"
        /\ UNCHANGED <<block, height, need, reverts, op, snap, estOp, est, verdict, subHeight, estimates>>

\* The wallet copies the returned limits into its operation (all three, or
\* only the pre-verification gas when it keeps its own limits) and signs.
Sign ==
    /\ wpc = "estimated"
    /\ \E all \in BOOLEAN, s \in Signatures :
          op' = [op EXCEPT !.pvg = est.pvg,
                           !.cgl = IF all THEN est.cgl ELSE op.cgl,
                           !.vgl = IF all THEN est.vgl ELSE op.vgl,
                           !.sig = s]
    /\ wpc' = "signed"
    /\ UNCHANGED <<block, height, need, reverts, snap, estOp, est, verdict, subHeight, estimates>>

\* eth_sendUserOperation: the admission check at the head block.
Submit ==
    /\ wpc = "signed"
    /\ verdict' = VerifyPreverificationGasAndVerificationGasLimit(op, block)
    /\ subHeight' = height
    /\ wpc' = "submitted"
    /\ UNCHANGED <<block, height, need, reverts, op, snap, estOp, est, estimates>>

Next == NewBlock \/ EstimateStart \/ EstimateOk \/ EstimateFails \/ Sign \/ Submit

Spec == Init /\ [][Next]_vars

-----------------------------------------------------------------------------
(* Properties                                                              *)

\* A submission checked in the block its estimate was made in.
SameBlock == wpc = "submitted" /\ subHeight = snap.h

\* The pre-verification gas estimate covers the operation the wallet
\* signs: when the wallet estimated without a signature and with the gas
\* limits it submits, took the returned preVerificationGas and signed with
\* a 65-byte signature, calc_base_preverification_gas's substitution of
\* preVerificationGas and of the dummy signature make the admission check
\* of the same block accept the pre-verification gas.
SettledEstimateAccepted ==
    SameBlock /\ estOp.sig.len < 65 /\ op.sig.len = 65
    /\ op.cgl = estOp.cgl /\ op.vgl = estOp.vgl
        => verdict # "pvgTooLow"

\* The verification gas limit the estimate returns is one the admission
\* check accepts: simulateHandleOp runs validation under the maximal
\* verificationGasLimit, and the estimate subtracts preVerificationGas
\* from preOpGas.
EstimatedVerificationGasAccepted ==
    wpc = "submitted" /\ op.vgl = est.vgl => verdict # "vglTooHigh"

\* What eth_estimateUserOperationGas is for: an operation carrying the
\* three limits the estimate returned, signed and submitted in the same
\* block, passes the admission gas check.
FilledEstimateAccepted ==
    SameBlock /\ op.cgl = est.cgl /\ op.vgl = est.vgl => verdict = "accepted"

=============================================================================

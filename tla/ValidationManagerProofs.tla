----------------------- MODULE ValidationManagerProofs -----------------------
(***************************************************************************)
(* Proofs about ValidationManager, for every set of request handlers and  *)
(* every set of revert selectors.                                          *)
(*                                                                         *)
(* NamedAnswersClassified is not inductive as it stands: it speaks of the  *)
(* answer and the outcome of a finished request, and a step of another     *)
(* request must not disturb them.  The strengthening ClassInv says that   *)
(* every request's recorded outcome is the classification of its recorded *)
(* answer, whatever its pc: Decode writes both together, and no other     *)
(* step writes either.                                                     *)
(***************************************************************************)
EXTENDS ValidationManager, TLAPS

\* Each request's outcome is what simulate_validation_and_decode_result
\* makes of the node answer it received.
ClassInv ==
    /\ answer \in [Handlers -> Answers]
    /\ outcome = [h \in Handlers |-> SimulateValidationAndDecodeResult(answer[h])]

-----------------------------------------------------------------------------
(* What the classification of the code returns on the answers section 4.2 *)
(* of the spec names.                                                      *)

\* An answer that is not an error is classified as "didn't revert"
\* (the first branch of simulate_validation, line 132).
LEMMA NoRevertClassified ==
    ASSUME NEW a \in Answers, ~a.error
    PROVE  SimulateValidationAndDecodeResult(a) = "didNotRevert"
BY DEF SimulateValidationAndDecodeResult

\* A FailedOp revert is decoded as FailedOp (lines 47-51).
LEMMA FailedOpClassified ==
    ASSUME NEW a \in Answers, a.error, a.message = "execution reverted",
           a.selector = FailedOp
    PROVE  SimulateValidationAndDecodeResult(a) = SpecOutcome(a)
<1>1. FailedOp # NoData /\ FailedOp # ValidationResult
  BY SelectorsAssumption
<1>2. SimulateValidationAndDecodeResult(a)
        = IF Decodes(a, FailedOp) THEN "rejected" ELSE "decodeError"
  BY <1>1 DEF SimulateValidationAndDecodeResult, CheckIfFailedOpError
<1>3. SpecOutcome(a) = IF Decodes(a, FailedOp) THEN "rejected" ELSE "decodeError"
  BY <1>1, Zenon DEF SpecOutcome
<1>. QED  BY <1>2, <1>3

\* A ValidationResult revert is decoded as a ValidationResult (lines 52-55):
\* it is not mistaken for FailedOp because the two selectors differ.
LEMMA ValidationResultClassified ==
    ASSUME NEW a \in Answers, a.error, a.message = "execution reverted",
           a.selector = ValidationResult
    PROVE  SimulateValidationAndDecodeResult(a) = SpecOutcome(a)
<1>1. ValidationResult # NoData /\ ValidationResult # FailedOp
  BY SelectorsAssumption
<1>2. SimulateValidationAndDecodeResult(a)
        = IF Decodes(a, ValidationResult) THEN "valid" ELSE "decodeError"
  BY <1>1 DEF SimulateValidationAndDecodeResult, CheckIfFailedOpError
<1>3. SpecOutcome(a) = IF Decodes(a, ValidationResult) THEN "valid" ELSE "decodeError"
  BY <1>1, Zenon DEF SpecOutcome
<1>. QED  BY <1>2, <1>3

-----------------------------------------------------------------------------
LEMMA InitClassInv == Init => ClassInv
<1>. SUFFICES ASSUME Init PROVE ClassInv
  OBVIOUS
<1>1. [error |-> FALSE] \in Answers
  BY DEF Answers
<1>2. SimulateValidationAndDecodeResult([error |-> FALSE]) = "didNotRevert"
  BY DEF SimulateValidationAndDecodeResult
<1>. QED  BY <1>1, <1>2 DEF Init, ClassInv

LEMMA NextClassInv == ClassInv /\ [Next]_vars => ClassInv'
<1>. SUFFICES ASSUME ClassInv, [Next]_vars PROVE ClassInv'
  OBVIOUS
<1>1. ASSUME NEW h \in Handlers, SimulateValidation(h) PROVE ClassInv'
  BY <1>1 DEF SimulateValidation, ClassInv
<1>2. ASSUME NEW h \in Handlers, NEW a \in Answers, Decode(h, a) PROVE ClassInv'
  BY <1>2 DEF Decode, ClassInv
<1>3. ASSUME NEW h \in Handlers, NextRequest(h) PROVE ClassInv'
  BY <1>3 DEF NextRequest, ClassInv
<1>4. CASE UNCHANGED vars
  BY <1>4 DEF vars, ClassInv
<1>. QED  BY <1>1, <1>2, <1>3, <1>4 DEF Next

-----------------------------------------------------------------------------
\* Every request that has finished simulate_validation_and_decode_result,
\* while other requests run theirs concurrently, holds the outcome that
\* section 4.2 of the spec gives its answer: SimulationDidNotRevert for an
\* answer that is not an error, and the FailedOp, Valid or DecodeError
\* classification for a FailedOp or a ValidationResult revert.
THEOREM ClassificationCorrect == Spec => []NamedAnswersClassified
<1>1. ClassInv => NamedAnswersClassified
  <2>. SUFFICES ASSUME ClassInv, NEW h \in Handlers, pc[h] = "done"
                PROVE  /\ ~answer[h].error => outcome[h] = "didNotRevert"
                       /\ answer[h].error
                          /\ answer[h].message = "execution reverted"
                          /\ answer[h].selector \in {FailedOp, ValidationResult}
                          => outcome[h] = SpecOutcome(answer[h])
    BY DEF NamedAnswersClassified
  <2>1. answer[h] \in Answers
        /\ outcome[h] = SimulateValidationAndDecodeResult(answer[h])
    BY DEF ClassInv
  <2>. QED  BY <2>1, NoRevertClassified, FailedOpClassified,
               ValidationResultClassified
<1>. QED  BY <1>1, InitClassInv, NextClassInv, PTL DEF Spec
=============================================================================

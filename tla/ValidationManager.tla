-------------------------- MODULE ValidationManager --------------------------
(***************************************************************************)
(* The revert-as-result protocol of bundler/validation_manager.py.         *)
(*                                                                         *)
(* simulateValidation always reverts on chain; the manager sends it with   *)
(* eth_call, suspends until the node answers, then splits error.data into  *)
(* a 4-byte selector and the ABI payload and classifies the answer.  The   *)
(* manager holds no state of its own: each concurrent                      *)
(* add_user_operation request runs its own simulation, so the model has    *)
(* one call per request handler and no shared variable.                    *)
(*                                                                         *)
(* A node answer is abstracted to what the code branches on: whether it   *)
(* is an error, whether its message is "execution reverted", whether it    *)
(* carries data, the revert selector and whether the payload is whole.     *)
(***************************************************************************)
EXTENDS FiniteSets

CONSTANTS
    Handlers,          \* concurrent add_user_operation requests
    Selectors,         \* revert selectors the EntryPoint (or a node) can return
    FailedOp,          \* selector of FailedOp(uint256,address,string)
    ValidationResult,  \* selector of ValidationResult(...)
    Extends,           \* <<s, t>>: payload of s begins with the whole payload of t
    NoData             \* error.data is missing

ASSUME SelectorsAssumption ==
    /\ {FailedOp, ValidationResult} \subseteq Selectors
    /\ FailedOp # ValidationResult
    /\ NoData \notin Selectors
    /\ Extends \subseteq (Selectors \X Selectors)

\* The answers of eth_call (send_rpc_request_to_eth_client).
Answers ==
    {[error |-> FALSE]} \cup
    [error: {TRUE}, message: {"execution reverted", "other"},
     selector: Selectors \cup {NoData}, payload: {"whole", "truncated"}]

VARIABLES
    pc,        \* where each request's simulate_validation_and_decode_result is
    answer,    \* the node's answer to its eth_call
    outcome    \* what the call returned or raised

vars == <<pc, answer, outcome>>

-----------------------------------------------------------------------------
\* eth_abi.decode of the payload of selector s against the ABI of selector t:
\* it succeeds on a whole payload of t, or of a longer tuple whose head is
\* t's (decode reads the components it is given and ignores what follows).
Decodes(a, t) ==
    /\ a.payload = "whole"
    /\ a.selector = t \/ <<a.selector, t>> \in Extends

\* Mutant: the selector is compared without its 0x prefix and never matches.
CheckIfFailedOpErrorUnprefixed(sel) == FALSE

\* check_if_failed_op_error (lines 57-59).
CheckIfFailedOpError(sel) == sel = FailedOp

\* simulate_validation (lines 132-143) followed by the classification of
\* simulate_validation_and_decode_result (lines 43-55): anything but a revert
\* raises "didn't revert"; a missing data field is a KeyError at line 138;
\* FailedOp is decoded (decode_FailedOp_event, 99-108) and rejected; every
\* other selector is decoded as a ValidationResult (decode_validation_result_
\* event, 62-96), and an eth_abi failure propagates.
SimulateValidationAndDecodeResult(a) ==
    IF ~a.error \/ a.message # "execution reverted" THEN "didNotRevert"
    ELSE IF a.selector = NoData THEN "keyError"
    ELSE IF CheckIfFailedOpError(a.selector)
         THEN IF Decodes(a, FailedOp) THEN "rejected" ELSE "decodeError"
    ELSE IF Decodes(a, ValidationResult) THEN "valid" ELSE "decodeError"

-----------------------------------------------------------------------------
Init ==
    /\ pc = [h \in Handlers |-> "idle"]
    /\ answer = [h \in Handlers |-> [error |-> FALSE]]
    /\ outcome = [h \in Handlers |-> "didNotRevert"]

\* Lines 34-39 and 111-131: the call data is encoded and the request
\* suspends in eth_call.
SimulateValidation(h) ==
    /\ pc[h] = "idle"
    /\ pc' = [pc EXCEPT ![h] = "waiting"]
    /\ UNCHANGED <<answer, outcome>>

\* The node answers; lines 132-143 and 43-55 run without suspending.
Decode(h, a) ==
    /\ pc[h] = "waiting"
    /\ pc' = [pc EXCEPT ![h] = "done"]
    /\ answer' = [answer EXCEPT ![h] = a]
    /\ outcome' = [outcome EXCEPT ![h] = SimulateValidationAndDecodeResult(a)]

\* The request handler takes its next request.
NextRequest(h) ==
    /\ pc[h] = "done"
    /\ pc' = [pc EXCEPT ![h] = "idle"]
    /\ UNCHANGED <<answer, outcome>>

Next ==
    \E h \in Handlers :
        \/ SimulateValidation(h)
        \/ \E a \in Answers : Decode(h, a)
        \/ NextRequest(h)

Spec == Init /\ [][Next]_vars

-----------------------------------------------------------------------------
(* Properties                                                              *)

\* The ValidationOutcome of section 4.2 of the spec for a reverted answer
\* with data: FailedOp, Valid, Protocol for an unknown selector, and the
\* DecodeError of a truncated payload.
SpecOutcome(a) ==
    CASE a.selector = FailedOp ->
            IF Decodes(a, FailedOp) THEN "rejected" ELSE "decodeError"
      [] a.selector = ValidationResult ->
            IF Decodes(a, ValidationResult) THEN "valid" ELSE "decodeError"
      [] OTHER -> "protocol"

\* Section 4.2 of the spec, on the answers it names: a call that does not
\* revert fails with SimulationDidNotRevert, and a FailedOp or a
\* ValidationResult revert is rejected, accepted or refused as truncated
\* exactly as the spec's classification says.
NamedAnswersClassified ==
    \A h \in Handlers :
        pc[h] = "done" =>
            /\ ~answer[h].error => outcome[h] = "didNotRevert"
            /\ answer[h].error /\ answer[h].message = "execution reverted"
               /\ answer[h].selector \in {FailedOp, ValidationResult}
                  => outcome[h] = SpecOutcome(answer[h])

\* Section 4.2 and P8 of the spec: simulate_validation_and_decode_result
\* returns a validation result only when the EntryPoint reverted with
\* ValidationResult; any other selector is a Protocol outcome.
ValidOnlyFromValidationResult ==
    \A h \in Handlers :
        pc[h] = "done" /\ outcome[h] = "valid" => answer[h].selector = ValidationResult

=============================================================================

------------------------ MODULE MC_ValidationManager ------------------------
(* Two concurrent requests; the EntryPoint v0.6 revert selectors of         *)
(* simulateValidation: FailedOp, ValidationResult, and two the code does    *)
(* not name: ValidationResultWithAggregation (a ValidationResult followed  *)
(* by the aggregator's stake) and SenderAddressResult.                     *)
EXTENDS ValidationManager

CONSTANTS h1, h2, fo, vr, vra, sar

MC_Handlers == {h1, h2}
MC_Selectors == {fo, vr, vra, sar}
MC_Extends == {<<vra, vr>>}
=============================================================================

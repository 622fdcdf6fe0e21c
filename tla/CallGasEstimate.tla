--------------------------- MODULE CallGasEstimate ---------------------------
(***************************************************************************)
(* What estimate_call_gas_limit promises, whichever strategy answers      *)
(* (spec, scenario 3 and P5): a request for an account whose least         *)
(* sufficient gas limit is need ends either with a call gas limit in       *)
(* need .. need + Tolerance, which the account can only have when it does  *)
(* not revert below the node's gas cap, or with an error; the override     *)
(* flag of GasManager is only ever cleared; and an estimate that has       *)
(* started ends.  CallGasSearch implements it.                             *)
(***************************************************************************)
EXTENDS Integers

CONSTANTS MaxCallGas, Tolerance, BlockGasLimit

VARIABLES
    enabled,   \* estimate_gas_with_override_enabled
    phase,     \* "idle", "running", "done" or "failed"
    need,      \* least gas limit at which the account call succeeds
    result     \* the call gas limit returned

avars == <<enabled, phase, need, result>>

Init ==
    /\ enabled = TRUE
    /\ phase = "idle"
    /\ need = 0
    /\ result = 0

\* A new estimate starts for any account.
Request ==
    /\ phase \in {"idle", "done", "failed"}
    /\ phase' = "running"
    /\ need' \in 1..(BlockGasLimit + 1)
    /\ result' = 0
    /\ UNCHANGED enabled

\* The node refused state overrides: the flag is cleared for good.
Fallback ==
    /\ phase = "running"
    /\ enabled' = FALSE
    /\ UNCHANGED <<phase, need, result>>

\* The estimate is answered with a sufficient limit at most Tolerance
\* above the least one.
Answer ==
    /\ phase = "running"
    /\ need <= BlockGasLimit
    /\ phase' = "done"
    /\ result' \in need..(need + Tolerance)
    /\ UNCHANGED <<enabled, need>>

\* The estimate fails with an error.
Fail ==
    /\ phase = "running"
    /\ phase' = "failed"
    /\ UNCHANGED <<enabled, need, result>>

Next == Request \/ Fallback \/ Answer \/ Fail

\* A running estimate is awaited to its end.
Spec == Init /\ [][Next]_avars /\ WF_avars(Answer \/ Fail)

\* The safety part, which the proof system can reason about.
SafetySpec == Init /\ [][Next]_avars
=============================================================================

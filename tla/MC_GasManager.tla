---------------------------- MODULE MC_GasManager ----------------------------
(* One wallet, one account.  The packed operation has 14 words besides the  *)
(* modelled fields (24 non-zero bytes among them).  The account needs a     *)
(* call gas limit of 60000 and 70000 or 9,990,000 gas for validation (the   *)
(* second just under MAX_VERIFICATION_GAS_LIMIT).  The wallet starts with   *)
(* zero or final gas limits, no pre-verification gas, fees of 3 and 1, and  *)
(* no signature, a 10-byte placeholder or 65 zero bytes; it signs with 65   *)
(* bytes of which 65 or 62 are non-zero.                                    *)
EXTENDS GasManager

MC_InitialOps ==
    [cgl: {0, 60000}, vgl: {0, 70000}, pvg: {0}, maxFee: {3}, prio: {1},
     sig: {[len |-> 0, nz |-> 0], [len |-> 10, nz |-> 10], [len |-> 65, nz |-> 0]}]
MC_Signatures == {[len |-> 65, nz |-> 65], [len |-> 65, nz |-> 62]}
MC_ValidationGas == {70000, 9990000}
\* Blocks of a chain without an L1 data component.
MC_L1Blocks == [baseFee: {1, 2}, l1Price: {0}]
=============================================================================

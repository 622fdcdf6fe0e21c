------------------------- MODULE MC_MempoolManager -------------------------
(* A small instance of MempoolManager for TLC.                              *)
EXTENDS MempoolManager

CONSTANTS s1, s2, f1, h1, h2, none

MC_Senders == {s1, s2}
MC_Factories == {f1}
MC_Paymasters == {}
MC_Handlers == {h1, h2}
MC_Nonces == {0, 1}

\* Two nonces of a sender deployed by f1 and one of a second sender: enough
\* for same-sender races, nonce refusals, a shared factory and two keys in
\* the senders dict.
MC_OpSpace ==
    {[sender |-> s1, factory |-> f1, paymaster |-> none, nonce |-> n] : n \in {0, 1}}
    \cup {[sender |-> s2, factory |-> none, paymaster |-> none, nonce |-> 0]}

\* Only the factory is redeployed.
MC_Upgradeable == {f1}
=============================================================================

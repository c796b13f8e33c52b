----------------------------- MODULE MCAdmission -----------------------------
(***************************************************************************)
(* Requests for TLC: which key, operation, instance and amount each        *)
(* attempt carries.                                                        *)
(***************************************************************************)
EXTENDS Admission, TLC

CONSTANTS a1, a2, a3, o1, o2, k1, k2, i1, i2

\* a2 retries a1 on another instance; a3 sends the same operation id under a
\* second key to the first instance.
RetryKeys == a1 :> k1 @@ a2 :> k1 @@ a3 :> k2
RetryOps == a1 :> o1 @@ a2 :> o1 @@ a3 :> o1
RetryHosts == a1 :> i1 @@ a2 :> i2 @@ a3 :> i1
RetryAmounts == a1 :> 1 @@ a2 :> 1 @@ a3 :> 1
\* The model gateway accounts for a3.
GatewayAmounts == a1 :> 1 @@ a2 :> 1 @@ a3 :> 0

\* a2 retries a1 on the same instance; a3 sends the same operation id under a
\* second key to the other one.
SameKeys == RetryKeys
SameOps == RetryOps
SameHosts == a1 :> i1 @@ a2 :> i1 @@ a3 :> i2
SameAmounts == RetryAmounts
=============================================================================

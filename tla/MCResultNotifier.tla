-------------------------- MODULE MCResultNotifier --------------------------
(* Instances of ResultNotifier for TLC: a secret found in plain text twice *)
(* and in base64 once, and a Postman secret found twice.                   *)
EXTENDS ResultNotifier

CONSTANTS p1, p2, b1, q1, q2, n1, n2

Keys == [r \in Results |-> IF r \in {q1, q2} THEN "q" ELSE "k"]
Decoders == [r \in Results |-> IF r = b1 THEN "BASE64" ELSE "PLAIN"]
=============================================================================

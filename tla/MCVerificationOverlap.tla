----------------------- MODULE MCVerificationOverlap -----------------------
(* Instances of VerificationOverlap for TLC: two versions of one detector  *)
(* and a custom one; two similar texts and a different one.                *)
EXTENDS VerificationOverlap

CONSTANTS d1, d2, custom, s1, s1x, s2

Types == (d1 :> "Aws") @@ (d2 :> "Aws") @@ (custom :> "CustomRegex")
\* The length test of likelyDuplicate makes similarity one-sided at its edge.
Pairs == {<<s, s>> : s \in Secrets} \cup {<<s1x, s1>>}
=============================================================================

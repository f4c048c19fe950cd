-------------------------- MODULE MCSourceManager --------------------------
(* Instances of SourceManager for TLC: small sets of jobs and units.       *)
EXTENDS SourceManager

CONSTANTS ju, jw, jx, u1, u2

NoUnitMap == [u \in {} |-> ju]
TwoUnits  == [u \in {u1, u2} |-> ju]
Distinct  == [u \in Units |-> u]
=============================================================================

---------------------------- MODULE MCResumeScan ----------------------------
(* Instances of ResumeScan for TLC.                                        *)
EXTENDS ResumeScan

OneListing == {1..4}
=============================================================================

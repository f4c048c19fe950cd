---------------------------- MODULE JobLifecycle ----------------------------
(***************************************************************************)
(* What the source manager promises its client and its reader, with no     *)
(* goroutine in sight: a job delivers chunks only while it runs, Wait      *)
(* closes the stream only when nothing runs, nothing starts after that,    *)
(* and Wait reports an error exactly when some job failed.                 *)
(***************************************************************************)
EXTENDS Naturals

CONSTANTS Jobs,
          Streams,   \* what the chunks come from: whole jobs or their units
          JobOf(_)   \* the job of a stream

VARIABLES phase,     \* "idle", "running", "succeeded" or "failed"
          delivered, \* number of chunks each stream has delivered
          closed,    \* the stream of chunks is closed
          result     \* the error Wait returns: did any job fail?

vars == <<phase, delivered, closed, result>>

Init ==
  /\ phase = [j \in Jobs |-> "idle"]
  /\ delivered = [s \in Streams |-> 0]
  /\ closed = FALSE /\ result = FALSE

Begin(j) ==
  /\ phase[j] = "idle" /\ ~closed
  /\ phase' = [phase EXCEPT ![j] = "running"]
  /\ UNCHANGED <<delivered, closed, result>>

Deliver(s) ==
  /\ phase[JobOf(s)] = "running"
  /\ delivered' = [delivered EXCEPT ![s] = @ + 1]
  /\ UNCHANGED <<phase, closed, result>>

Complete(j, how) ==
  /\ phase[j] = "running"
  /\ phase' = [phase EXCEPT ![j] = how]
  /\ UNCHANGED <<delivered, closed, result>>

Close ==
  /\ ~closed /\ \A j \in Jobs : phase[j] # "running"
  /\ closed' = TRUE
  /\ result' = (\E j \in Jobs : phase[j] = "failed")
  /\ UNCHANGED <<phase, delivered>>

Next ==
  \/ \E j \in Jobs : Begin(j) \/ \E how \in {"succeeded", "failed"} : Complete(j, how)
  \/ \E s \in Streams : Deliver(s)
  \/ Close

Spec == Init /\ [][Next]_vars
=============================================================================

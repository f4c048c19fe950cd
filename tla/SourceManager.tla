--------------------------- MODULE SourceManager ---------------------------
(***************************************************************************)
(* The source manager of pkg/sources: Run, Wait and the goroutines a job   *)
(* is made of, together with the metrics of its JobProgress and the        *)
(* UnitHook that collects one record per unit.                             *)
(*                                                                         *)
(* One client thread calls Run and Wait (Wait "should only be called by    *)
(* one thread").  A job of UnitJobs runs an enumerator and, per unit, a    *)
(* producer (ChunkUnit) and a consumer that forwards chunks to the output  *)
(* channel; any other job has one producer (Chunks) and one consumer.  The *)
(* stream of chunks a producer makes is named by its unit, or by its job   *)
(* when there is no unit.                                                  *)
(***************************************************************************)
EXTENDS Naturals, Sequences, FiniteSets, Functions

CONSTANTS
  Jobs,            \* the sources handed to Run
  Units,           \* the unit objects their enumerations may report
  UnitJobs,        \* the jobs whose source is a SourceUnitEnumChunker
  Targeted,        \* the jobs run with targets (they use prioritySem)
  UnitJob,         \* the job each unit belongs to
  UnitID,          \* SourceUnitID of each unit
  None,            \* no unit, no record, no job
  Limits,          \* the limits SetMaxConcurrentSources may set
  SourceLimit,     \* initial limit of sem
  TargetLimit,     \* limit of prioritySem
  ConcurrentUnits, \* limit of the unit pool; 0 is unlimited
  OutCap,          \* capacity of outputChunks
  MetricsCap,      \* capacity of finishedMetrics
  MaxChunks,       \* bound: chunks one source call produces
  MaxInjected,     \* bound: chunks injected by ScanChunk
  HookInstalled,   \* whether a UnitHook is registered
  MayCancel,       \* the jobs whose JobProgressRef may be cancelled
  ParentMayCancel  \* whether the context given to Run may be cancelled

\* The stream of a job itself is the one of the nil unit.
Streams == Units \cup Jobs
JobOf(s) == IF s \in Units THEN UnitJob[s] ELSE s
StreamsOf(j) == {s \in Streams : JobOf(s) = j}
Pool(j) == IF j \in Targeted THEN "target" ELSE "source"
Pools == {"source", "target"}

\* UnitHook.id
HookID(s) == <<JobOf(s), IF s \in Units THEN UnitID[s] ELSE None>>
HookIDs == {HookID(s) : s \in Streams}

Error == [fatal : BOOLEAN, unit : Units \cup {None}]
JobProgressMetrics ==
  [started : BOOLEAN, ended : BOOLEAN, doneEnumerating : BOOLEAN,
   totalUnits : Nat, finishedUnits : Nat, totalChunks : Nat, errors : SUBSET Error]
UnitMetrics == [unit : Streams, chunks : Nat, errors : SUBSET Error]

ASSUME ConstantsAssumption ==
  /\ UnitJobs \subseteq Jobs
  /\ Targeted \subseteq Jobs \ UnitJobs \* targets disable source units
  /\ UnitJob \in [Units -> UnitJobs]
  /\ DOMAIN UnitID = Units
  /\ Units \cap Jobs = {}
  /\ None \notin Streams \cup UnitMetrics
  /\ IsFiniteSet(Jobs) /\ IsFiniteSet(Units)
  /\ Limits \subseteq Nat
  /\ SourceLimit \in Nat \ {0} /\ TargetLimit \in Nat \ {0}
  /\ ConcurrentUnits \in Nat
  /\ OutCap \in Nat \ {0} /\ MetricsCap \in Nat \ {0}
  /\ MaxChunks \in Nat /\ MaxInjected \in Nat
  /\ HookInstalled \in BOOLEAN
  /\ MayCancel \subseteq Jobs /\ ParentMayCancel \in BOOLEAN

VARIABLES
  \* ---- SourceManager and its client thread
  client,    \* where the client thread is: "free", "acquire", "wait", ...
  current,   \* the job the client is acquiring the semaphore for
  ctxDone,   \* the context passed to every Run is cancelled
  limit,     \* limit of each semaphore
  holders,   \* the jobs that hold each semaphore
  wg,        \* the jobs counted by the manager's WaitGroup
  firstErr,  \* the one-slot channel of run errors: is it full?
  waitErr,   \* did Wait read an error?
  \* ---- outputChunks
  out, outClosed, injected,
  sent,      \* history: chunks of each stream put on outputChunks
  \* ---- job goroutines
  jpc,       \* where each job's main goroutine is
  cancelled, \* jobs cancelled by CancelRun
  runErr,    \* has run caught a fatal error to return?
  epc,       \* where each job's enumerator is
  eunit,     \* the unit the enumerator is writing to unitCh
  reported,  \* units already reported by the enumerator
  unitCh,    \* the one-slot unit channel of each job
  jspawn,    \* the unit a job's main goroutine received
  \* ---- stream goroutines
  ppc, cpc,  \* where each stream's producer and consumer are
  ch,        \* number of chunks in the stream's one-slot channel
  produced,  \* chunks the producer has made (bounded by MaxChunks)
  \* ---- JobProgress
  metrics, doneCh,
  \* ---- UnitHook
  hook,      \* the metrics map
  ejecting,  \* the record each stream's goroutine is about to send
  finished,  \* the finishedMetrics channel
  collected, \* history: number of records received for each stream
  finClosed, \* Close was called
  panicked   \* a send on a closed channel crashed the process

mgrVars    == <<client, current, limit, holders, wg, firstErr, waitErr>>
outVars    == <<out, outClosed, injected, sent>>
enumVars   == <<epc, eunit, reported>>
jobVars    == <<jpc, runErr, jspawn>>
streamVars == <<ppc, cpc, ch, produced>>
progVars   == <<metrics, doneCh>>
hookVars   == <<hook, ejecting, finished, collected, finClosed, panicked>>
ctlVars    == <<ctxDone, cancelled>>
vars == <<mgrVars, outVars, enumVars, unitCh, jobVars, streamVars, progVars,
          hookVars, ctlVars>>

----------------------------------------------------------------------------
(* JobProgress and UnitHook helpers.                                       *)

NoProgress == [started |-> FALSE, ended |-> FALSE, doneEnumerating |-> FALSE,
               totalUnits |-> 0, finishedUnits |-> 0, totalChunks |-> 0,
               errors |-> {}]

\* A job's context is done once its parent or the job itself is cancelled.
CtxDone(j) == ctxDone \/ j \in cancelled

NewMetrics(s) == [unit |-> s, chunks |-> 0, errors |-> {}]

\* UnitHook.ReportError on the map h: the nil unit always records the
\* error, a unit records its own ChunkErrors.
HookError(h, j, e) ==
  [id \in HookIDs |->
     IF h[id] # None /\ id[1] = j
        /\ (id[2] = None \/ (e.unit # None /\ id = HookID(e.unit)))
     THEN [h[id] EXCEPT !.errors = @ \cup {e}] ELSE h[id]]

\* JobProgress.ReportError: record it, then call the hook.
ReportError(j, e) ==
  /\ metrics' = [metrics EXCEPT ![j].errors = @ \cup {e}]
  /\ hook' = HookError(hook, j, e)

\* JobProgress.ReportChunk: count it, then UnitHook.ReportChunk, which makes
\* the record of a job without units and ignores a unit that was evicted.
ReportChunk(s) ==
  /\ metrics' = [metrics EXCEPT ![JobOf(s)].totalChunks = @ + 1]
  /\ LET id == HookID(s)
         m  == IF hook[id] = None /\ s \in Jobs THEN NewMetrics(s)
               ELSE hook[id]
     IN  hook' = IF ~HookInstalled \/ m = None THEN hook
                 ELSE [hook EXCEPT ![id] = [m EXCEPT !.chunks = @ + 1]]

\* UnitHook.finishUnit: take the record out of the map to send it.
FinishUnit(s) ==
  /\ hook' = [hook EXCEPT ![HookID(s)] = None]
  /\ ejecting' = [ejecting EXCEPT ![s] = hook[HookID(s)]]

----------------------------------------------------------------------------
(* One step of each kind of goroutine, with the variables no step of that  *)
(* kind changes.                                                           *)

JobStep(j, from, to) ==
  /\ jpc[j] = from
  /\ jpc' = [jpc EXCEPT ![j] = to]
  /\ UNCHANGED <<client, current, limit, waitErr, outVars, eunit, reported,
                 produced, ctlVars>>

EnumStep(j, from, to) ==
  /\ epc[j] = from
  /\ epc' = [epc EXCEPT ![j] = to]
  /\ UNCHANGED <<mgrVars, outVars, jobVars, streamVars, ctlVars>>

ProducerStep(s, from, to) ==
  /\ ppc[s] = from
  /\ ppc' = [ppc EXCEPT ![s] = to]
  /\ UNCHANGED <<mgrVars, outVars, enumVars, unitCh, jpc, jspawn, cpc, doneCh,
                 ejecting, finished, collected, finClosed, panicked, ctlVars>>

ConsumerStep(s, from, to) ==
  /\ cpc[s] = from
  /\ cpc' = [cpc EXCEPT ![s] = to]
  /\ UNCHANGED <<mgrVars, outClosed, injected, enumVars, unitCh, jobVars, ppc,
                 produced, doneCh, ctlVars>>

----------------------------------------------------------------------------
(* Faulty variants of definitions below: each is a mistake this code could *)
(* contain, and each breaks the property its comment names.                *)

\* NoSilentLoss: run without its deferred look at the context's cause.
EndRunIgnoresCause(j) ==
  /\ \A s \in StreamsOf(j) : cpc[s] \in {"idle", "exit"}
  /\ JobStep(j, "drain", "wgdone")
  /\ metrics' = [metrics EXCEPT ![j].ended = TRUE]
  /\ firstErr' = (firstErr \/ runErr[j])
  /\ UNCHANGED <<holders, wg, epc, unitCh, runErr, jspawn, ppc, cpc, ch, doneCh,
                 hookVars>>

\* NoWriterAfterClose, IInv: run without the wait for its consumers.
EndRunUnjoined(j) ==
  /\ \A s \in StreamsOf(j) : ppc[s] \in {"idle", "done"}
  /\ JobStep(j, "drain", "wgdone")
  /\ LET cause == IF CtxDone(j) THEN {[fatal |-> TRUE, unit |-> None]} ELSE {}
     IN  /\ metrics' = [metrics EXCEPT ![j].ended = TRUE, ![j].errors = @ \cup cause]
         /\ hook' = IF cause = {} THEN hook
                    ELSE HookError(hook, j, [fatal |-> TRUE, unit |-> None])
  /\ firstErr' = (firstErr \/ runErr[j])
  /\ UNCHANGED <<holders, wg, epc, unitCh, runErr, jspawn, ppc, cpc, ch, doneCh,
                 ejecting, finished, collected, finClosed, panicked>>

\* DoneMeansQuiet: Finish deferred last, so that it runs before the release.
WgDoneFinishesFirst(j) ==
  /\ JobStep(j, "wgdone", "release")
  /\ wg' = wg \ {j}
  /\ doneCh' = [doneCh EXCEPT ![j] = TRUE]
  /\ UNCHANGED <<holders, firstErr, epc, unitCh, runErr, jspawn, ppc, cpc, ch,
                 metrics, hookVars>>

\* WaitReturns: a job that failed is retried for ever.
WgDoneRetries(j) ==
  /\ JobStep(j, "wgdone", IF runErr[j] THEN "wgdone" ELSE "release")
  /\ wg' = IF runErr[j] THEN wg ELSE wg \ {j}
  /\ UNCHANGED <<holders, firstErr, epc, unitCh, runErr, jspawn, ppc, cpc, ch,
                 progVars, hookVars>>

\* RunningHoldsSlot: targets acquire sem, but release prioritySem.
RunAcquiredWrongPool(j) ==
  /\ client = "acquire" /\ current = j
  /\ Cardinality(holders["source"]) < limit["source"]
  /\ holders' = [holders EXCEPT !["source"] = @ \cup {j}]
  /\ wg' = wg \cup {j}
  /\ jpc' = [jpc EXCEPT ![j] = "start"]
  /\ client' = "free" /\ current' = None
  /\ UNCHANGED <<limit, firstErr, waitErr, outVars, enumVars, unitCh, runErr,
                 jspawn, streamVars, progVars, hookVars, ctlVars>>

\* LifecycleSpec: Wait closes the channels as soon as it is called.
WaitReturnedAtOnce ==
  /\ client = "wait"
  /\ client' = "closehooks"
  /\ waitErr' = firstErr /\ firstErr' = FALSE
  /\ outClosed' = TRUE
  /\ UNCHANGED <<current, limit, holders, wg, out, injected, sent, enumVars, unitCh,
                 jobVars, streamVars, progVars, hookVars, ctlVars>>

\* StartedJobsFinish: the pool's slots are never given back; the loop polls.
SpawnUnitLeaksSlots(j) ==
  \/ jpc[j] = "spawn" /\ UNCHANGED vars
  \/ /\ ConcurrentUnits = 0
        \/ Cardinality({u \in StreamsOf(j) : ppc[u] # "idle"}) < ConcurrentUnits
     /\ JobStep(j, "spawn", "units")
     /\ ppc' = [ppc EXCEPT ![jspawn[j]] = "start"]
     /\ cpc' = [cpc EXCEPT ![jspawn[j]] = "range"]
     /\ jspawn' = [jspawn EXCEPT ![j] = None]
     /\ UNCHANGED <<holders, wg, firstErr, epc, unitCh, runErr, ch, progVars, hookVars>>

\* CountsAhead: UnitOk forgets to count the unit it writes.
ReportUnitUncounted(j, u) ==
  /\ UnitJob[u] = j /\ u \notin reported
  /\ EnumStep(j, "enumerate", "write")
  /\ eunit' = [eunit EXCEPT ![j] = u]
  /\ reported' = reported \cup {u}
  /\ UNCHANGED <<unitCh, progVars, hookVars>>

\* UnitMetricsExact: the send that follows the back-pressure log is missing.
EjectDropsWhenFull(s) ==
  /\ finished' = IF ejecting[s] # None /\ Len(finished) < MetricsCap
                 THEN Append(finished, ejecting[s]) ELSE finished
  /\ ejecting' = [ejecting EXCEPT ![s] = None]
  /\ UNCHANGED <<hook, collected, finClosed, panicked>>

\* UnitHook.ejectFinishedMetrics: a blocking send.  Sending on a closed
\* channel panics, whatever its buffer holds.
Eject(s) ==
  /\ \/ ejecting[s] = None /\ UNCHANGED <<finished, panicked>>
     \/ /\ ejecting[s] # None /\ finClosed
        /\ panicked' = TRUE /\ UNCHANGED finished
     \/ /\ ejecting[s] # None /\ ~finClosed /\ Len(finished) < MetricsCap
        /\ finished' = Append(finished, ejecting[s]) /\ UNCHANGED panicked
  /\ ejecting' = [ejecting EXCEPT ![s] = None]
  /\ UNCHANGED <<hook, collected, finClosed>>

----------------------------------------------------------------------------
(* The client thread: Run, Wait, and what it may do in between.            *)

\* Run, when preflightChecks fails: an empty reference is returned, whose
\* Done channel is closed.
RunRejected(j) ==
  /\ jpc[j] = "new"
  /\ \/ client = "free" /\ ctxDone
     \/ client = "done"
  /\ jpc' = [jpc EXCEPT ![j] = "rejected"]
  /\ doneCh' = [doneCh EXCEPT ![j] = TRUE]
  /\ UNCHANGED <<mgrVars, outVars, enumVars, unitCh, runErr, jspawn, streamVars,
                 metrics, hookVars, ctlVars>>

\* Run, up to the call of Acquire.
RunAcquire(j) ==
  /\ jpc[j] = "new" /\ client = "free" /\ ~ctxDone
  /\ jpc' = [jpc EXCEPT ![j] = "acquire"]
  /\ client' = "acquire" /\ current' = j
  /\ UNCHANGED <<limit, holders, wg, firstErr, waitErr, outVars, enumVars, unitCh,
                 runErr, jspawn, streamVars, progVars, hookVars, ctlVars>>

\* Acquire succeeds: wg.Add, start the goroutine, return its reference.
RunAcquired(j) ==
  /\ client = "acquire" /\ current = j
  /\ Cardinality(holders[Pool(j)]) < limit[Pool(j)]
  /\ holders' = [holders EXCEPT ![Pool(j)] = @ \cup {j}]
  /\ wg' = wg \cup {j}
  /\ jpc' = [jpc EXCEPT ![j] = "start"]
  /\ client' = "free" /\ current' = None
  /\ UNCHANGED <<limit, firstErr, waitErr, outVars, enumVars, unitCh, runErr,
                 jspawn, streamVars, progVars, hookVars, ctlVars>>

\* Acquire fails on a cancelled context: the error is reported and returned.
RunAcquireFailed(j) ==
  /\ client = "acquire" /\ current = j /\ CtxDone(j)
  /\ ReportError(j, [fatal |-> TRUE, unit |-> None])
  /\ jpc' = [jpc EXCEPT ![j] = "failed"]
  /\ client' = "free" /\ current' = None
  /\ UNCHANGED <<limit, holders, wg, firstErr, waitErr, outVars, enumVars, unitCh,
                 runErr, jspawn, streamVars, doneCh, ejecting, finished,
                 collected, finClosed, panicked, ctlVars>>

\* ScanChunk puts a chunk of no stream on the output channel.
ScanChunk ==
  /\ client = "free" /\ injected < MaxInjected /\ Len(out) < OutCap
  /\ out' = Append(out, None) /\ injected' = injected + 1
  /\ UNCHANGED <<mgrVars, outClosed, sent, enumVars, unitCh, jobVars, streamVars,
                 progVars, hookVars, ctlVars>>

SetMaxConcurrentSources(n) ==
  /\ client \in {"free", "acquire"} /\ n # limit["source"]
  /\ limit' = [limit EXCEPT !["source"] = n]
  /\ UNCHANGED <<client, current, holders, wg, firstErr, waitErr, outVars,
                 enumVars, unitCh, jobVars, streamVars, progVars, hookVars, ctlVars>>

\* Wait sets done, so that no Run starts a job any more.
WaitCalled ==
  /\ client = "free"
  /\ client' = "wait"
  /\ UNCHANGED <<current, limit, holders, wg, firstErr, waitErr, outVars, enumVars,
                 unitCh, jobVars, streamVars, progVars, hookVars, ctlVars>>

\* wg.Wait returns: the first error is read and the channels are closed.
WaitReturned ==
  /\ client = "wait" /\ wg = {}
  /\ client' = "closehooks"
  /\ waitErr' = firstErr /\ firstErr' = FALSE
  /\ outClosed' = TRUE
  /\ UNCHANGED <<current, limit, holders, wg, out, injected, sent, enumVars, unitCh,
                 jobVars, streamVars, progVars, hookVars, ctlVars>>

\* Wait closes its hooks: UnitHook.Close closes finishedMetrics.
HooksClosed ==
  /\ client = "closehooks"
  /\ client' = "done"
  /\ finClosed' = HookInstalled
  /\ UNCHANGED <<current, limit, holders, wg, firstErr, waitErr, outVars, enumVars,
                 unitCh, jobVars, streamVars, progVars, hook, ejecting, finished,
                 collected, panicked, ctlVars>>

\* The context every Run was given is cancelled.
ParentCancelled ==
  /\ ParentMayCancel /\ ~ctxDone
  /\ ctxDone' = TRUE
  /\ UNCHANGED <<mgrVars, outVars, enumVars, unitCh, jobVars, streamVars, progVars,
                 hookVars, cancelled>>

\* JobProgressRef.CancelRun: any holder of a reference Run returned.
CancelRun(j) ==
  /\ j \in MayCancel \ cancelled
  /\ jpc[j] \notin {"new", "acquire", "rejected"}
  /\ cancelled' = cancelled \cup {j}
  /\ UNCHANGED <<mgrVars, outVars, enumVars, unitCh, jobVars, streamVars, progVars,
                 hookVars, ctxDone>>

----------------------------------------------------------------------------
(* The goroutine of a job: run, runWithUnits, runWithoutUnits and the       *)
(* deferred calls after them.                                               *)

\* run: Start, then the preferred way of running the source.
StartJob(j) ==
  /\ JobStep(j, "start", IF j \in UnitJobs THEN "units" ELSE "drain")
  /\ metrics' = [metrics EXCEPT ![j].started = TRUE]
  /\ IF j \in UnitJobs
     THEN /\ epc' = [epc EXCEPT ![j] = "enumerate"]
          /\ UNCHANGED <<ppc, cpc>>
     ELSE /\ ppc' = [ppc EXCEPT ![j] = "produce"]
          /\ cpc' = [cpc EXCEPT ![j] = "range"]
          /\ UNCHANGED epc
  /\ UNCHANGED <<holders, wg, firstErr, unitCh, runErr, jspawn, ch, doneCh, hookVars>>

\* The loop over unitCh receives a unit.
ReceiveUnit(j) ==
  /\ unitCh[j] # None
  /\ JobStep(j, "units", "spawn")
  /\ jspawn' = [jspawn EXCEPT ![j] = unitCh[j]]
  /\ unitCh' = [unitCh EXCEPT ![j] = None]
  /\ UNCHANGED <<holders, wg, firstErr, epc, runErr, ppc, cpc, ch, progVars, hookVars>>

\* unitPool.Go waits for a free slot, then both goroutines of the unit start.
SpawnUnit(j) ==
  /\ ConcurrentUnits = 0
     \/ Cardinality({u \in StreamsOf(j) : ppc[u] \in {"start", "produce", "write"}})
          < ConcurrentUnits
  /\ JobStep(j, "spawn", "units")
  /\ ppc' = [ppc EXCEPT ![jspawn[j]] = "start"]
  /\ cpc' = [cpc EXCEPT ![jspawn[j]] = "range"]
  /\ jspawn' = [jspawn EXCEPT ![j] = None]
  /\ UNCHANGED <<holders, wg, firstErr, epc, unitCh, runErr, ch, progVars, hookVars>>

\* unitCh is closed and empty: the loop ends.
UnitsExhausted(j) ==
  /\ unitCh[j] = None /\ epc[j] \in {"end", "exit"}
  /\ JobStep(j, "units", "drain")
  /\ UNCHANGED <<holders, wg, firstErr, epc, unitCh, runErr, jspawn, ppc, cpc, ch,
                 progVars, hookVars>>

\* wg.Wait of the run returns once every consumer has; run's deferred calls
\* record the cause of a cancelled context and the end time, and the error it
\* returns goes to firstErr unless one is already there.
EndRun(j) ==
  /\ \A s \in StreamsOf(j) : cpc[s] \in {"idle", "exit"}
  /\ JobStep(j, "drain", "wgdone")
  /\ LET cause == IF CtxDone(j) THEN {[fatal |-> TRUE, unit |-> None]} ELSE {}
     IN  /\ metrics' = [metrics EXCEPT ![j].ended = TRUE, ![j].errors = @ \cup cause]
         /\ hook' = IF cause = {} THEN hook
                    ELSE HookError(hook, j, [fatal |-> TRUE, unit |-> None])
  /\ firstErr' = (firstErr \/ runErr[j])
  /\ UNCHANGED <<holders, wg, epc, unitCh, runErr, jspawn, ppc, cpc, ch, doneCh,
                 ejecting, finished, collected, finClosed, panicked>>

\* The deferred calls of Run's goroutine, last in first out.
WgDone(j) ==
  /\ JobStep(j, "wgdone", "release")
  /\ wg' = wg \ {j}
  /\ UNCHANGED <<holders, firstErr, epc, unitCh, runErr, jspawn, ppc, cpc, ch,
                 progVars, hookVars>>

ReleaseSem(j) ==
  /\ JobStep(j, "release", "finish")
  /\ holders' = [holders EXCEPT ![Pool(j)] = @ \ {j}]
  /\ UNCHANGED <<wg, firstErr, epc, unitCh, runErr, jspawn, ppc, cpc, ch, progVars,
                 hookVars>>

\* JobProgress.Finish closes Done, then calls the hooks' Finish.
FinishDone(j) ==
  /\ JobStep(j, "finish", "hookfinish")
  /\ doneCh' = [doneCh EXCEPT ![j] = TRUE]
  /\ UNCHANGED <<holders, wg, firstErr, epc, unitCh, runErr, jspawn, ppc, cpc, ch,
                 metrics, hookVars>>

\* UnitHook.Finish takes the nil unit's record out, with the job's errors.
FinishHook(j) ==
  /\ JobStep(j, "hookfinish", "eject")
  /\ hook' = [hook EXCEPT ![HookID(j)] = None]
  /\ ejecting' = [ejecting EXCEPT ![j] =
       IF hook[HookID(j)] = None THEN None
       ELSE [hook[HookID(j)] EXCEPT !.errors = metrics[j].errors]]
  /\ UNCHANGED <<holders, wg, firstErr, epc, unitCh, runErr, jspawn, ppc, cpc, ch,
                 progVars, finished, collected, finClosed, panicked>>

FinishEject(j) ==
  /\ JobStep(j, "eject", "exit")
  /\ Eject(j)
  /\ UNCHANGED <<holders, wg, firstErr, epc, unitCh, runErr, jspawn, ppc, cpc, ch,
                 progVars>>

----------------------------------------------------------------------------
(* The enumerator goroutine of runWithUnits and the UnitReporter it is     *)
(* given.  The source chooses the units it reports and whether it fails.   *)

\* UnitOk counts the unit ...
ReportUnit(j, u) ==
  /\ UnitJob[u] = j /\ u \notin reported
  /\ EnumStep(j, "enumerate", "write")
  /\ eunit' = [eunit EXCEPT ![j] = u]
  /\ reported' = reported \cup {u}
  /\ metrics' = [metrics EXCEPT ![j].totalUnits = @ + 1]
  /\ UNCHANGED <<unitCh, doneCh, hookVars>>

\* ... and writes it to unitCh, or gives up once the context is done.
WriteUnit(j) ==
  /\ EnumStep(j, "write", "enumerate")
  /\ \/ unitCh[j] = None /\ unitCh' = [unitCh EXCEPT ![j] = eunit[j]]
     \/ CtxDone(j) /\ UNCHANGED unitCh
  /\ eunit' = [eunit EXCEPT ![j] = None]
  /\ UNCHANGED <<reported, progVars, hookVars>>

\* UnitErr records an error that is not fatal.
UnitErr(j) ==
  /\ EnumStep(j, "enumerate", "enumerate")
  /\ ReportError(j, [fatal |-> FALSE, unit |-> None])
  /\ UNCHANGED <<eunit, reported, unitCh, doneCh, ejecting, finished, collected,
                 finClosed, panicked>>

\* Enumerate returns and unitCh is closed; a returned error is fatal.
EnumerateReturned(j) ==
  /\ epc[j] = "enumerate"
  /\ epc' = [epc EXCEPT ![j] = "end"]
  /\ \/ UNCHANGED <<runErr, metrics, hook>>
     \/ /\ runErr' = [runErr EXCEPT ![j] = TRUE]
        /\ ReportError(j, [fatal |-> TRUE, unit |-> None])
  /\ UNCHANGED <<mgrVars, outVars, eunit, reported, unitCh, jpc, jspawn, streamVars,
                 doneCh, ejecting, finished, collected, finClosed, panicked, ctlVars>>

\* The deferred EndEnumerating runs after the deferred close of unitCh.
EndEnumerating(j) ==
  /\ EnumStep(j, "end", "exit")
  /\ metrics' = [metrics EXCEPT ![j].doneEnumerating = TRUE]
  /\ UNCHANGED <<eunit, reported, unitCh, doneCh, hookVars>>

----------------------------------------------------------------------------
(* The producer of a stream: ChunkUnit in a goroutine of the unit pool, or *)
(* Chunks in the job's own goroutine.                                      *)

StartUnitChunking(u) ==
  /\ ProducerStep(u, "start", "produce")
  /\ hook' = IF HookInstalled
             THEN [hook EXCEPT ![HookID(u)] = NewMetrics(u)] ELSE hook
  /\ UNCHANGED <<runErr, ch, produced, metrics>>

\* ChunkOk counts the chunk ...
ChunkReported(u) ==
  /\ u \in Units /\ produced[u] < MaxChunks
  /\ ProducerStep(u, "produce", "write")
  /\ produced' = [produced EXCEPT ![u] = @ + 1]
  /\ ReportChunk(u)
  /\ UNCHANGED <<runErr, ch>>

\* ... and writes it to the unit's channel, or gives up once cancelled.
ChunkWritten(u) ==
  /\ ProducerStep(u, "write", "produce")
  /\ \/ ch[u] = 0 /\ ch' = [ch EXCEPT ![u] = 1]
     \/ CtxDone(JobOf(u)) /\ UNCHANGED ch
  /\ UNCHANGED <<runErr, produced, metrics, hook>>

ChunkErr(u) ==
  /\ u \in Units
  /\ ProducerStep(u, "produce", "produce")
  /\ ReportError(JobOf(u), [fatal |-> FALSE, unit |-> u])
  /\ UNCHANGED <<runErr, ch, produced>>

\* ChunkUnit returns: a returned error is fatal; then the channel is closed
\* and the pool's slot is free.
ChunkUnitReturned(u) ==
  /\ u \in Units
  /\ ProducerStep(u, "produce", "done")
  /\ \/ UNCHANGED <<runErr, metrics, hook>>
     \/ /\ runErr' = [runErr EXCEPT ![JobOf(u)] = TRUE]
        /\ ReportError(JobOf(u), [fatal |-> TRUE, unit |-> u])
  /\ UNCHANGED <<ch, produced>>

\* Chunks of a source without units writes chunks to ch itself.
ChunksWrite(j) ==
  /\ j \in Jobs /\ produced[j] < MaxChunks /\ ch[j] = 0
  /\ ProducerStep(j, "produce", "produce")
  /\ produced' = [produced EXCEPT ![j] = @ + 1]
  /\ ch' = [ch EXCEPT ![j] = 1]
  /\ UNCHANGED <<runErr, metrics, hook>>

\* Chunks returns, fails, or panics; the panic is swallowed by Recover after
\* the deferred calls of runWithoutUnits and run.
ChunksReturned(j) ==
  /\ j \in Jobs
  /\ ProducerStep(j, "produce", "done")
  /\ \/ UNCHANGED <<runErr, metrics, hook>>
     \/ /\ runErr' = [runErr EXCEPT ![j] = TRUE]
        /\ ReportError(j, [fatal |-> TRUE, unit |-> None])
  /\ UNCHANGED <<ch, produced>>

----------------------------------------------------------------------------
(* The consumer of a stream and the readers of the manager's channels.     *)

\* Receive a chunk; a source without units has it counted here.
ConsumerReceives(s) ==
  /\ ch[s] = 1
  /\ ConsumerStep(s, "range", "send")
  /\ ch' = [ch EXCEPT ![s] = 0]
  /\ IF s \in Jobs THEN ReportChunk(s) ELSE UNCHANGED <<metrics, hook>>
  /\ UNCHANGED <<out, sent, ejecting, finished, collected, finClosed, panicked>>

\* Send it to outputChunks, whatever the state of the context.
ConsumerSends(s) ==
  /\ \/ /\ outClosed /\ panicked' = TRUE /\ UNCHANGED <<out, sent>>
     \/ /\ ~outClosed /\ Len(out) < OutCap
        /\ out' = Append(out, s) /\ sent' = [sent EXCEPT ![s] = @ + 1]
        /\ UNCHANGED panicked
  /\ ConsumerStep(s, "send", "range")
  /\ UNCHANGED <<ch, metrics, hook, ejecting, finished, collected, finClosed>>

\* The channel is closed and drained; EndUnitChunking counts the unit and
\* takes its record out of the hook.
ConsumerEnds(s) ==
  /\ ch[s] = 0 /\ ppc[s] = "done"
  /\ ConsumerStep(s, "range", IF s \in Units THEN "eject" ELSE "exit")
  /\ IF s \in Units
     THEN /\ metrics' = [metrics EXCEPT ![JobOf(s)].finishedUnits = @ + 1]
          /\ FinishUnit(s)
     ELSE UNCHANGED <<metrics, hook, ejecting>>
  /\ UNCHANGED <<ch, out, sent, finished, collected, finClosed, panicked>>

ConsumerEjects(s) ==
  /\ ConsumerStep(s, "eject", "exit")
  /\ Eject(s)
  /\ UNCHANGED <<out, sent, ch, metrics>>

\* The scanner workers of the engine drain outputChunks.
ScanWorker ==
  /\ out # <<>>
  /\ out' = Tail(out)
  /\ UNCHANGED <<mgrVars, outClosed, injected, sent, enumVars, unitCh, jobVars,
                 streamVars, progVars, hookVars, ctlVars>>

\* The engine's report goroutine drains finishedMetrics.
ReportWriter ==
  /\ finished # <<>>
  /\ finished' = Tail(finished)
  /\ collected' = [collected EXCEPT ![Head(finished).unit] = @ + 1]
  /\ UNCHANGED <<mgrVars, outVars, enumVars, unitCh, jobVars, streamVars, progVars,
                 hook, ejecting, finClosed, panicked, ctlVars>>

----------------------------------------------------------------------------
Init ==
  /\ client = "free" /\ current = None /\ ctxDone = FALSE
  /\ limit = [c \in Pools |-> IF c = "source" THEN SourceLimit ELSE TargetLimit]
  /\ holders = [c \in Pools |-> {}]
  /\ wg = {} /\ firstErr = FALSE /\ waitErr = FALSE
  /\ out = <<>> /\ outClosed = FALSE /\ injected = 0
  /\ sent = [s \in Streams |-> 0]
  /\ jpc = [j \in Jobs |-> "new"]
  /\ cancelled = {} /\ runErr = [j \in Jobs |-> FALSE]
  /\ epc = [j \in Jobs |-> "idle"] /\ eunit = [j \in Jobs |-> None]
  /\ reported = {}
  /\ unitCh = [j \in Jobs |-> None] /\ jspawn = [j \in Jobs |-> None]
  /\ ppc = [s \in Streams |-> "idle"] /\ cpc = [s \in Streams |-> "idle"]
  /\ ch = [s \in Streams |-> 0] /\ produced = [s \in Streams |-> 0]
  /\ metrics = [j \in Jobs |-> NoProgress] /\ doneCh = [j \in Jobs |-> FALSE]
  /\ hook = [id \in HookIDs |-> None]
  /\ ejecting = [s \in Streams |-> None]
  /\ finished = <<>> /\ collected = [s \in Streams |-> 0] /\ finClosed = FALSE
  /\ panicked = FALSE

JobGoroutine(j) ==
  \/ StartJob(j) \/ ReceiveUnit(j) \/ SpawnUnit(j) \/ UnitsExhausted(j)
  \/ EndRun(j) \/ WgDone(j) \/ ReleaseSem(j)
  \/ FinishDone(j) \/ FinishHook(j) \/ FinishEject(j)
\* The sources are trusted to return: each of these is a step towards it.
Enumerator(j) == WriteUnit(j) \/ EnumerateReturned(j) \/ EndEnumerating(j)
Producer(s) == \/ StartUnitChunking(s) \/ ChunkWritten(s)
               \/ ChunkUnitReturned(s) \/ ChunksReturned(s)
Consumer(s) == \/ ConsumerReceives(s) \/ ConsumerSends(s)
               \/ ConsumerEnds(s) \/ ConsumerEjects(s)
ClientStep(j) == RunRejected(j) \/ RunAcquire(j)
Acquiring(j) == RunAcquired(j) \/ RunAcquireFailed(j)
Waiting == WaitReturned \/ HooksClosed

Step ==
  \/ \E j \in Jobs : \/ ClientStep(j) \/ Acquiring(j) \/ CancelRun(j)
                     \/ JobGoroutine(j) \/ Enumerator(j) \/ UnitErr(j)
                     \/ \E u \in Units : ReportUnit(j, u)
  \/ \E s \in Streams : \/ Producer(s) \/ Consumer(s)
                        \/ ChunkReported(s) \/ ChunkErr(s) \/ ChunksWrite(s)
  \/ \E n \in Limits : SetMaxConcurrentSources(n)
  \/ ScanChunk \/ WaitCalled \/ Waiting \/ ParentCancelled
  \/ ScanWorker \/ ReportWriter

\* Everything that was started has returned and every channel is drained.
Terminated ==
  /\ client = "done" /\ out = <<>> /\ finished = <<>>
  /\ \A j \in Jobs : /\ jpc[j] \in {"new", "rejected", "failed", "exit"}
                     /\ epc[j] \in {"idle", "exit"}
  /\ UNCHANGED vars

\* A panic outside Recover ends the process.
Next == \/ ~panicked /\ Step
        \/ panicked /\ UNCHANGED vars
        \/ Terminated

Spec == Init /\ [][Next]_vars

(***************************************************************************)
(* Every goroutine that can run is scheduled, and Go serves the senders    *)
(* blocked on a full channel in the order they came, so no consumer is     *)
(* passed over for ever.  The sources are assumed to return, the readers   *)
(* of the manager's two channels to keep reading, and the client to call   *)
(* Wait; it need not call Run.                                             *)
(***************************************************************************)
Fairness ==
  /\ \A j \in Jobs : /\ WF_vars(JobGoroutine(j) /\ ~panicked)
                     /\ WF_vars(Enumerator(j) /\ ~panicked)
                     /\ WF_vars(Acquiring(j) /\ ~panicked)
  /\ \A s \in Streams : /\ WF_vars(Producer(s) /\ ~panicked)
                        /\ SF_vars(Consumer(s) /\ ~panicked)
  /\ WF_vars(Waiting /\ ~panicked) /\ WF_vars(WaitCalled /\ ~panicked)
  /\ WF_vars(ScanWorker /\ ~panicked) /\ WF_vars(ReportWriter /\ ~panicked)

FairSpec == Spec /\ Fairness

----------------------------------------------------------------------------
(* Properties.                                                             *)

TypeManager ==
  /\ client \in {"free", "acquire", "wait", "closehooks", "done"}
  /\ current \in Jobs \cup {None}
  /\ ctxDone \in BOOLEAN /\ firstErr \in BOOLEAN /\ waitErr \in BOOLEAN
  /\ limit \in [Pools -> Nat] /\ holders \in [Pools -> SUBSET Jobs]
  /\ wg \in SUBSET Jobs /\ cancelled \in SUBSET Jobs
TypeOutput ==
  /\ out \in Seq(Streams \cup {None}) /\ outClosed \in BOOLEAN
  /\ injected \in Nat /\ sent \in [Streams -> Nat]
TypeJobs ==
  /\ jpc \in [Jobs -> {"new", "rejected", "acquire", "failed", "start", "units",
                       "spawn", "drain", "wgdone", "release", "finish",
                       "hookfinish", "eject", "exit"}]
  /\ runErr \in [Jobs -> BOOLEAN]
  /\ unitCh \in [Jobs -> Units \cup {None}]
  /\ jspawn \in [Jobs -> Units \cup {None}]
TypeEnum ==
  /\ epc \in [Jobs -> {"idle", "enumerate", "write", "end", "exit"}]
  /\ eunit \in [Jobs -> Units \cup {None}] /\ reported \in SUBSET Units
TypeStreams ==
  /\ ppc \in [Streams -> {"idle", "start", "produce", "write", "done"}]
  /\ cpc \in [Streams -> {"idle", "range", "send", "eject", "exit"}]
  /\ ch \in [Streams -> {0, 1}] /\ produced \in [Streams -> Nat]
TypeProgress ==
  /\ metrics \in [Jobs -> JobProgressMetrics]
  /\ doneCh \in [Jobs -> BOOLEAN]
TypeHook ==
  /\ hook \in [HookIDs -> UnitMetrics \cup {None}]
  /\ ejecting \in [Streams -> UnitMetrics \cup {None}]
  /\ finished \in Seq(UnitMetrics) /\ collected \in [Streams -> Nat]
  /\ finClosed \in BOOLEAN /\ panicked \in BOOLEAN
TypeOK == /\ TypeManager /\ TypeOutput /\ TypeJobs /\ TypeEnum /\ TypeStreams
          /\ TypeProgress /\ TypeHook

SentBy(j) == SumFunctionOnSet(sent, StreamsOf(j))
Fatal(j) == \E e \in metrics[j].errors : e.fatal

(***************************************************************************)
(* Wait closes outputChunks only when no goroutine of any job can still    *)
(* send on it: consumers send without looking at the context, so this      *)
(* rests on the WaitGroup and on run waiting for its consumers.            *)
(***************************************************************************)
NoWriterAfterClose ==
  outClosed => \A s \in Streams : cpc[s] \notin {"range", "send"}

(***************************************************************************)
(* A job that is Done without a fatal error lost nothing: every chunk that *)
(* was counted reached outputChunks and every unit that was counted was    *)
(* chunked.  Cancellation drops both (CancellableWrite), and only run's    *)
(* deferred look at the cause of its context turns that into an error.     *)
(***************************************************************************)
NoSilentLoss ==
  \A j \in Jobs : doneCh[j] /\ ~Fatal(j) =>
    /\ SentBy(j) = metrics[j].totalChunks
    /\ metrics[j].finishedUnits = metrics[j].totalUnits

(***************************************************************************)
(* What a Snapshot may show at any moment: no more units finished than     *)
(* found (PercentComplete stays within 100 and never divides by zero) and  *)
(* no chunk on the output channel that is not counted yet.                 *)
(***************************************************************************)
CountsAhead ==
  \A j \in Jobs : /\ metrics[j].finishedUnits <= metrics[j].totalUnits
                  /\ SentBy(j) <= metrics[j].totalChunks

(***************************************************************************)
(* When Done is closed the job has ended, its semaphore slot is free for   *)
(* AvailableCapacity to see, and none of its chunking goroutines is left.  *)
(***************************************************************************)
DoneMeansQuiet ==
  \A j \in Jobs : doneCh[j] /\ jpc[j] # "rejected" =>
    /\ metrics[j].ended /\ j \notin holders[Pool(j)] /\ j \notin wg
    /\ \A s \in StreamsOf(j) : ppc[s] \in {"idle", "done"} /\ cpc[s] \in {"idle", "exit"}

(***************************************************************************)
(* A job runs only while it holds a slot of its semaphore.                 *)
(***************************************************************************)
RunningHoldsSlot ==
  \A j \in Jobs : jpc[j] \in {"start", "units", "spawn", "drain", "wgdone"} =>
    j \in holders[Pool(j)] /\ j \in wg

(***************************************************************************)
(* With distinct unit identifiers the UnitHook reports every unit that was *)
(* chunked exactly once, with all of its chunks and all of its errors: no  *)
(* report arrives after the record was taken out of the map.               *)
(***************************************************************************)
DistinctHookIDs == \A s, t \in Streams : HookID(s) = HookID(t) => s = t
Records(s) == {i \in DOMAIN finished : finished[i].unit = s}
ErrorsOf(u) == {e \in metrics[JobOf(u)].errors : e.unit = u}
RecordComplete(m) ==
  m.unit \in Units => m.chunks = produced[m.unit] /\ m.errors = ErrorsOf(m.unit)
UnitMetricsExact ==
  HookInstalled /\ DistinctHookIDs =>
    /\ \A u \in Units :
         collected[u] + Cardinality(Records(u)) + (IF ejecting[u] # None THEN 1 ELSE 0)
           = (IF cpc[u] \in {"eject", "exit"} THEN 1 ELSE 0)
    /\ \A i \in DOMAIN finished : RecordComplete(finished[i])
    /\ \A u \in Units : ejecting[u] # None =>
         ejecting[u].unit = u /\ RecordComplete(ejecting[u])

(***************************************************************************)
(* The inductive invariant behind NoWriterAfterClose, DoneMeansQuiet and   *)
(* RunningHoldsSlot: which goroutines can be alive at each point of a job, *)
(* where its WaitGroup count and its slot are, and that units never reach  *)
(* another job's goroutine.                                                *)
(***************************************************************************)
Running == {"start", "units", "spawn", "drain", "wgdone"}
ConsumersInsideRun ==
  \A s \in Streams : cpc[s] \in {"range", "send", "eject"} =>
    jpc[JobOf(s)] \in {"units", "spawn", "drain"}
ProducersHaveConsumers ==
  \A s \in Streams : ppc[s] \in {"start", "produce", "write"} => cpc[s] \in {"range", "send"}
UnitsStayInJob ==
  \A j \in Jobs : \A u \in Units :
    u \in {eunit[j], unitCh[j], jspawn[j]} => UnitJob[u] = j
CountedWhileRunning ==
  \A j \in Jobs :
    /\ j \in wg <=> jpc[j] \in Running
    /\ j \in holders[Pool(j)] <=> jpc[j] \in Running \cup {"release"}
ClosedAfterWait ==
  /\ outClosed => client \in {"closehooks", "done"}
  /\ client \in {"closehooks", "done"} => wg = {}
AcquiringJob ==
  client = "acquire" => current \in Jobs /\ jpc[current] = "acquire"
DoneAfterEnd ==
  \A j \in Jobs :
    /\ doneCh[j] => jpc[j] \in {"rejected", "hookfinish", "eject", "exit"}
    /\ jpc[j] \in {"wgdone", "release", "finish", "hookfinish", "eject", "exit"}
         => metrics[j].ended
IInv == /\ TypeOK
        /\ ConsumersInsideRun /\ ProducersHaveConsumers /\ UnitsStayInJob
        /\ CountedWhileRunning /\ ClosedAfterWait /\ AcquiringJob /\ DoneAfterEnd

(***************************************************************************)
(* The inductive invariant behind NoSilentLoss and CountsAhead.  Each      *)
(* counter of JobProgress is the size of something the goroutines know:    *)
(* units found, units chunked, chunks counted.  A unit or a chunk that was *)
(* counted is chunked or sent, is still on its way, or was dropped, and    *)
(* then the job has failed or its run has yet to look at the context.      *)
(***************************************************************************)
UnitsFound(j) == {u \in reported : UnitJob[u] = j}
UnitsChunked(j) == {u \in Units : UnitJob[u] = j /\ cpc[u] \in {"eject", "exit"}}
Sending(s) == IF cpc[s] = "send" THEN 1 ELSE 0
Counted == [s \in Streams |-> IF s \in Units THEN produced[s] ELSE sent[s] + Sending(s)]
Held(s) == Sending(s) + ch[s] + (IF ppc[s] = "write" THEN 1 ELSE 0)
MayDrop(j) == Fatal(j) \/ (CtxDone(j) /\ jpc[j] \in {"units", "spawn", "drain"})
CountersExact ==
  \A j \in Jobs : /\ metrics[j].totalUnits = Cardinality(UnitsFound(j))
                  /\ metrics[j].finishedUnits = Cardinality(UnitsChunked(j))
                  /\ metrics[j].totalChunks = SumFunctionOnSet(Counted, StreamsOf(j))
ChunksConserved ==
  \A s \in Streams : /\ sent[s] + Held(s) <= produced[s]
                     /\ sent[s] + Held(s) = produced[s] \/ MayDrop(JobOf(s))
                     /\ cpc[s] \in {"idle", "eject", "exit"} => ch[s] = 0
OnTheWay(u) == u \in {eunit[UnitJob[u]], unitCh[UnitJob[u]], jspawn[UnitJob[u]]}
UnitsConserved ==
  \A u \in Units :
    /\ u \in reported => cpc[u] # "idle" \/ OnTheWay(u) \/ MayDrop(UnitJob[u])
    /\ cpc[u] # "idle" => u \in reported
    /\ OnTheWay(u) => u \in reported /\ cpc[u] = "idle"
OnePlace ==
  \A j \in Jobs :
    /\ jspawn[j] # None <=> jpc[j] = "spawn"
    /\ unitCh[j] # None => jpc[j] \in {"units", "spawn"} /\ unitCh[j] # jspawn[j]
    /\ eunit[j] # None => epc[j] = "write" /\ eunit[j] \notin {unitCh[j], jspawn[j]}
    /\ epc[j] \in {"enumerate", "write"} => jpc[j] \in {"units", "spawn"}
AccountInv == IInv /\ CountersExact /\ ChunksConserved /\ UnitsConserved /\ OnePlace

(***************************************************************************)
(* The inductive invariant behind UnitMetricsExact: where the record of a  *)
(* unit is while its goroutines run, that it is complete there, and that   *)
(* no unit is ejected once Close has closed finishedMetrics.               *)
(***************************************************************************)
HasRecord(u) == \/ ppc[u] \in {"produce", "write"}
                \/ ppc[u] = "done" /\ cpc[u] \in {"range", "send"}
MapExact(u) ==
  /\ hook[HookID(u)] # None <=> HasRecord(u)
  /\ HasRecord(u) => hook[HookID(u)].unit = u /\ RecordComplete(hook[HookID(u)])
  /\ ppc[u] \in {"idle", "start"} => produced[u] = 0 /\ ErrorsOf(u) = {}
  /\ cpc[u] = "idle" => ppc[u] = "idle"
EjectingExact(u) ==
  /\ ejecting[u] # None <=> cpc[u] = "eject"
  /\ ejecting[u] # None => ejecting[u].unit = u /\ RecordComplete(ejecting[u])
FinishedExact(u) ==
  /\ collected[u] + Cardinality(Records(u)) = IF cpc[u] = "exit" THEN 1 ELSE 0
  /\ \A i \in Records(u) : RecordComplete(finished[i]) /\ cpc[u] = "exit"
JobRecords(j) == /\ hook[HookID(j)] # None => hook[HookID(j)].unit = j
                 /\ ejecting[j] # None => ejecting[j].unit = j
RecordInv == /\ IInv
             /\ finClosed => client = "done"
             /\ \A j \in Jobs : JobRecords(j)
             /\ \A u \in Units : MapExact(u) /\ EjectingExact(u) /\ FinishedExact(u)

(***************************************************************************)
(* Wait returns, and a job that was started gets its Done channel closed,  *)
(* provided the readers of both channels keep reading.                     *)
(***************************************************************************)
WaitReturns == client = "wait" ~> client = "done"
StartedJobsFinish == \A j \in Jobs : jpc[j] = "start" ~> doneCh[j]

(***************************************************************************)
(* The manager implements JobLifecycle.  A job has run once it has left    *)
(* the WaitGroup, since that is what Wait looks at.                        *)
(***************************************************************************)
PhaseOf(j) ==
  CASE jpc[j] \in {"new", "rejected", "acquire", "failed"} -> "idle"
    [] j \in wg -> "running"
    [] OTHER -> IF runErr[j] THEN "failed" ELSE "succeeded"
Lifecycle == INSTANCE JobLifecycle WITH
               phase <- [j \in Jobs |-> PhaseOf(j)],
               delivered <- sent, closed <- outClosed, result <- waitErr
LifecycleSpec == Lifecycle!Spec

(***************************************************************************)
(* A claim of the repository the code does not keep.                       *)
(***************************************************************************)

\* TestSourceManagerUnitHookNoUnits waits for Done and Wait and then expects
\* one record: FinishHook must not meet a channel Wait has closed.
HookOpenUntilFinish == ~panicked
=============================================================================

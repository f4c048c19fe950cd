------------------------ MODULE SourceManagerProofs ------------------------
(***************************************************************************)
(* Proofs about SourceManager, for any finite sets of jobs and units, any  *)
(* limits and any channel capacities: where goroutines may be (IInv), that *)
(* it implements JobLifecycle, and what its counters and the hook's        *)
(* records say (AccountInv, RecordInv).                                    *)
(***************************************************************************)
EXTENDS SourceManager, FoldTheorems

\* The stream a goroutine works on belongs to a job and has a hook record.
LEMMA StreamTypes ==
  ASSUME NEW s \in Streams
  PROVE  JobOf(s) \in Jobs /\ HookID(s) \in HookIDs
  BY ConstantsAssumption DEF Streams, JobOf, HookIDs

LEMMA JobStreamTypes == ASSUME NEW j \in Jobs PROVE j \in Streams /\ JobOf(j) = j
  BY ConstantsAssumption DEF Streams, JobOf

LEMMA PoolTypes == ASSUME NEW j \in Jobs PROVE Pool(j) \in Pools
  BY DEF Pool, Pools

LEMMA NoneIsNoUnit == None \notin Units
  BY ConstantsAssumption DEF Streams

LEMMA ErrorTypes ==
  /\ [fatal |-> TRUE, unit |-> None] \in Error
  /\ [fatal |-> FALSE, unit |-> None] \in Error
  /\ \A u \in Units : /\ [fatal |-> TRUE, unit |-> u] \in Error
                      /\ [fatal |-> FALSE, unit |-> u] \in Error
  BY DEF Error

\* UnitHook.ReportError keeps a map of records.
LEMMA HookErrorType ==
  ASSUME NEW h \in [HookIDs -> UnitMetrics \cup {None}], NEW j, NEW e \in Error
  PROVE  HookError(h, j, e) \in [HookIDs -> UnitMetrics \cup {None}]
  BY DEF HookError, UnitMetrics

\* What JobProgress.ReportError and ReportChunk leave: progress and records of
\* the same type, with the same jobs ended.
LEMMA ReportErrorEffect ==
  ASSUME TypeProgress, TypeHook, NEW j \in Jobs, NEW e \in Error, ReportError(j, e)
  PROVE  /\ metrics' \in [Jobs -> JobProgressMetrics]
         /\ hook' \in [HookIDs -> UnitMetrics \cup {None}]
         /\ \A k \in Jobs : metrics'[k].ended = metrics[k].ended
  <1>1. metrics' = [metrics EXCEPT ![j].errors = @ \cup {e}]
    BY DEF ReportError
  <1>2. hook' \in [HookIDs -> UnitMetrics \cup {None}]
    BY HookErrorType DEF ReportError, TypeHook
  <1>3. metrics \in [Jobs -> JobProgressMetrics]
    BY DEF TypeProgress
  <1>. QED BY <1>1, <1>2, <1>3 DEF JobProgressMetrics

LEMMA ReportChunkEffect ==
  ASSUME TypeProgress, TypeHook, NEW s \in Streams, ReportChunk(s)
  PROVE  /\ metrics' \in [Jobs -> JobProgressMetrics]
         /\ hook' \in [HookIDs -> UnitMetrics \cup {None}]
         /\ \A k \in Jobs : metrics'[k].ended = metrics[k].ended
  <1>1. metrics' \in [Jobs -> JobProgressMetrics]
        /\ \A k \in Jobs : metrics'[k].ended = metrics[k].ended
    BY StreamTypes DEF ReportChunk, TypeProgress, JobProgressMetrics
  <1>2. hook' \in [HookIDs -> UnitMetrics \cup {None}]
    <2> DEFINE m == IF hook[HookID(s)] = None /\ s \in Jobs
                    THEN NewMetrics(s) ELSE hook[HookID(s)]
    <2>1. m \in UnitMetrics \cup {None}
      BY StreamTypes DEF TypeHook, NewMetrics, UnitMetrics
    <2>2. m # None => [m EXCEPT !.chunks = @ + 1] \in UnitMetrics
      BY <2>1 DEF UnitMetrics
    <2>3. hook' = IF ~HookInstalled \/ m = None THEN hook
                  ELSE [hook EXCEPT ![HookID(s)] = [m EXCEPT !.chunks = @ + 1]]
      BY DEF ReportChunk
    <2>. QED BY <2>2, <2>3 DEF TypeHook
  <1>. QED BY <1>1, <1>2

\* UnitHook.finishUnit and ejectFinishedMetrics move records around.
LEMMA FinishUnitEffect ==
  ASSUME TypeHook, NEW s \in Streams, FinishUnit(s)
  PROVE  /\ hook' \in [HookIDs -> UnitMetrics \cup {None}]
         /\ ejecting' \in [Streams -> UnitMetrics \cup {None}]
  BY StreamTypes DEF FinishUnit, TypeHook

LEMMA EjectEffect ==
  ASSUME TypeHook, NEW s \in Streams, Eject(s)
  PROVE  TypeHook'
  <1>1. ejecting[s] # None => Append(finished, ejecting[s]) \in Seq(UnitMetrics)
    BY DEF TypeHook
  <1>2. finished' \in Seq(UnitMetrics) /\ panicked' \in BOOLEAN
    BY <1>1 DEF Eject, TypeHook
  <1>. QED BY <1>2 DEF Eject, TypeHook

(***************************************************************************)
(* Each step of the specification preserves the inductive invariant.       *)
(***************************************************************************)
LEMMA RunRejectedStep ==
  ASSUME IInv, NEW j \in Jobs, RunRejected(j)
  PROVE  IInv'
  <1>. USE DEF IInv, TypeOK, RunRejected
  <1>1. TypeManager' /\ TypeOutput' /\
       TypeEnum' /\ TypeStreams' /\ TypeHook' /\
       ProducersHaveConsumers' /\ UnitsStayInJob' /\ ClosedAfterWait'
    BY DEF TypeManager, TypeOutput, TypeEnum, TypeStreams, TypeHook,
         ProducersHaveConsumers, UnitsStayInJob, ClosedAfterWait, mgrVars,
         outVars, enumVars, streamVars, hookVars, ctlVars
  <1>2. TypeJobs'
    BY DEF TypeJobs
  <1>3. TypeProgress'
    BY DEF TypeProgress, JobProgressMetrics
  <1>4. ConsumersInsideRun'
    BY StreamTypes DEF ConsumersInsideRun, streamVars, TypeJobs, TypeStreams
  <1>5. CountedWhileRunning'
    BY PoolTypes DEF CountedWhileRunning, mgrVars, Running, TypeJobs,
         TypeManager
  <1>6. AcquiringJob'
    BY DEF AcquiringJob, mgrVars, TypeJobs, TypeManager
  <1>7. DoneAfterEnd'
    BY DEF DoneAfterEnd, TypeJobs, TypeProgress, JobProgressMetrics
  <1>. QED BY <1>1, <1>2, <1>3, <1>4, <1>5, <1>6, <1>7

LEMMA RunAcquireStep ==
  ASSUME IInv, NEW j \in Jobs, RunAcquire(j)
  PROVE  IInv'
  <1>. USE DEF IInv, TypeOK, RunAcquire
  <1>1. TypeOutput' /\ TypeEnum' /\
       TypeStreams' /\ TypeProgress' /\ TypeHook' /\
       ProducersHaveConsumers' /\ UnitsStayInJob'
    BY DEF TypeOutput, TypeEnum, TypeStreams, TypeProgress, TypeHook,
         ProducersHaveConsumers, UnitsStayInJob, outVars, enumVars,
         streamVars, progVars, hookVars
  <1>2. TypeManager'
    BY DEF TypeManager, ctlVars
  <1>3. TypeJobs'
    BY DEF TypeJobs
  <1>4. ConsumersInsideRun'
    BY StreamTypes DEF ConsumersInsideRun, streamVars, TypeJobs, TypeStreams
  <1>5. CountedWhileRunning'
    BY PoolTypes DEF CountedWhileRunning, Running, TypeJobs, TypeManager
  <1>6. ClosedAfterWait'
    BY DEF ClosedAfterWait, outVars, TypeManager
  <1>7. AcquiringJob'
    BY DEF AcquiringJob, TypeJobs, TypeManager
  <1>8. DoneAfterEnd'
    BY DEF DoneAfterEnd, progVars, TypeJobs, TypeProgress, JobProgressMetrics
  <1>. QED BY <1>1, <1>2, <1>3, <1>4, <1>5, <1>6, <1>7, <1>8

LEMMA RunAcquiredStep ==
  ASSUME IInv, NEW j \in Jobs, RunAcquired(j)
  PROVE  IInv'
  <1>. USE DEF IInv, TypeOK, RunAcquired
  <1>1. TypeOutput' /\ TypeEnum' /\
       TypeStreams' /\ TypeProgress' /\ TypeHook' /\
       ProducersHaveConsumers' /\ UnitsStayInJob'
    BY DEF TypeOutput, TypeEnum, TypeStreams, TypeProgress, TypeHook,
         ProducersHaveConsumers, UnitsStayInJob, outVars, enumVars,
         streamVars, progVars, hookVars
  <1>2. TypeManager'
    BY DEF TypeManager, ctlVars, Pools, Pool
  <1>3. TypeJobs'
    BY DEF TypeJobs
  <1>4. ConsumersInsideRun'
    BY StreamTypes DEF ConsumersInsideRun, streamVars, TypeJobs, TypeStreams,
         AcquiringJob
  <1>5. CountedWhileRunning'
    BY PoolTypes DEF CountedWhileRunning, Running, TypeJobs, TypeManager,
         AcquiringJob
  <1>6. ClosedAfterWait'
    BY DEF ClosedAfterWait, outVars, TypeManager
  <1>7. AcquiringJob'
    BY DEF AcquiringJob, TypeJobs, TypeManager
  <1>8. DoneAfterEnd'
    BY DEF DoneAfterEnd, progVars, TypeJobs, TypeProgress, JobProgressMetrics,
         AcquiringJob
  <1>. QED BY <1>1, <1>2, <1>3, <1>4, <1>5, <1>6, <1>7, <1>8

LEMMA RunAcquireFailedStep ==
  ASSUME IInv, NEW j \in Jobs, RunAcquireFailed(j)
  PROVE  IInv'
  <1>. USE DEF IInv, TypeOK, RunAcquireFailed
  <1>1. TypeOutput' /\ TypeEnum' /\
       TypeStreams' /\ ProducersHaveConsumers' /\ UnitsStayInJob'
    BY DEF TypeOutput, TypeEnum, TypeStreams, ProducersHaveConsumers,
         UnitsStayInJob, outVars, enumVars, streamVars
  <1>2. TypeManager'
    BY DEF TypeManager, ctlVars
  <1>3. TypeJobs'
    BY DEF TypeJobs
  <1>4. TypeProgress'
    BY ErrorTypes, ReportErrorEffect DEF TypeProgress
  <1>5. TypeHook'
    BY ErrorTypes, ReportErrorEffect DEF TypeHook
  <1>6. ConsumersInsideRun'
    BY StreamTypes DEF ConsumersInsideRun, streamVars, TypeJobs, TypeStreams,
         AcquiringJob
  <1>7. CountedWhileRunning'
    BY PoolTypes DEF CountedWhileRunning, Running, TypeJobs, TypeManager,
         AcquiringJob
  <1>8. ClosedAfterWait'
    BY DEF ClosedAfterWait, outVars, TypeManager
  <1>9. AcquiringJob'
    BY DEF AcquiringJob, TypeJobs, TypeManager
  <1>10. DoneAfterEnd'
    BY ErrorTypes, ReportErrorEffect DEF DoneAfterEnd, TypeJobs, TypeProgress,
         AcquiringJob
  <1>. QED BY <1>1, <1>2, <1>3, <1>4, <1>5, <1>6, <1>7, <1>8, <1>9, <1>10

LEMMA CancelRunStep ==
  ASSUME IInv, NEW j \in Jobs, CancelRun(j)
  PROVE  IInv'
  <1>. USE DEF IInv, TypeOK, CancelRun
  <1>1. TypeOutput' /\ TypeJobs' /\
       TypeEnum' /\ TypeStreams' /\ TypeProgress' /\
       TypeHook' /\ ConsumersInsideRun' /\ ProducersHaveConsumers' /\
       UnitsStayInJob' /\ CountedWhileRunning' /\ ClosedAfterWait' /\
       AcquiringJob' /\ DoneAfterEnd'
    BY DEF TypeOutput, TypeJobs, TypeEnum, TypeStreams, TypeProgress,
         TypeHook, ConsumersInsideRun, ProducersHaveConsumers, UnitsStayInJob,
         CountedWhileRunning, ClosedAfterWait, AcquiringJob, DoneAfterEnd,
         mgrVars, outVars, enumVars, jobVars, streamVars, progVars, hookVars
  <1>2. TypeManager'
    BY DEF TypeManager, mgrVars
  <1>. QED BY <1>1, <1>2

LEMMA StartJobStep ==
  ASSUME IInv, NEW j \in Jobs, StartJob(j)
  PROVE  IInv'
  <1>. USE DEF IInv, TypeOK, StartJob, JobStep
  <1>1. TypeManager' /\ TypeOutput' /\
       TypeHook' /\ UnitsStayInJob' /\ ClosedAfterWait'
    BY DEF TypeManager, TypeOutput, TypeHook, UnitsStayInJob, ClosedAfterWait,
         outVars, hookVars, ctlVars
  <1>2. TypeJobs'
    BY DEF TypeJobs
  <1>3. TypeEnum'
    BY DEF TypeEnum
  <1>4. TypeStreams'
    BY JobStreamTypes DEF TypeStreams, Streams
  <1>5. TypeProgress'
    BY JobStreamTypes DEF TypeProgress, JobProgressMetrics
  <1>6. ConsumersInsideRun'
    BY StreamTypes, ConstantsAssumption DEF ConsumersInsideRun, JobOf,
         Streams, TypeJobs, TypeStreams
  <1>7. ProducersHaveConsumers'
    BY DEF ProducersHaveConsumers, TypeStreams
  <1>8. CountedWhileRunning'
    BY PoolTypes DEF CountedWhileRunning, Running, TypeJobs, TypeManager
  <1>9. AcquiringJob'
    BY DEF AcquiringJob, TypeJobs, TypeManager
  <1>10. DoneAfterEnd'
    BY JobStreamTypes DEF DoneAfterEnd, TypeJobs, TypeProgress,
         JobProgressMetrics
  <1>. QED BY <1>1, <1>2, <1>3, <1>4, <1>5, <1>6, <1>7, <1>8, <1>9, <1>10

LEMMA ReceiveUnitStep ==
  ASSUME IInv, NEW j \in Jobs, ReceiveUnit(j)
  PROVE  IInv'
  <1>. USE DEF IInv, TypeOK, ReceiveUnit, JobStep
  <1>1. TypeManager' /\ TypeOutput' /\
       TypeEnum' /\ TypeStreams' /\ TypeProgress' /\
       TypeHook' /\ ProducersHaveConsumers' /\ ClosedAfterWait'
    BY DEF TypeManager, TypeOutput, TypeEnum, TypeStreams, TypeProgress,
         TypeHook, ProducersHaveConsumers, ClosedAfterWait, outVars, progVars,
         hookVars, ctlVars
  <1>2. TypeJobs'
    BY DEF TypeJobs
  <1>3. ConsumersInsideRun'
    BY StreamTypes DEF ConsumersInsideRun, TypeJobs, TypeStreams
  <1>4. UnitsStayInJob'
    BY NoneIsNoUnit DEF UnitsStayInJob, TypeJobs, TypeEnum
  <1>5. CountedWhileRunning'
    BY PoolTypes DEF CountedWhileRunning, Running, TypeJobs, TypeManager
  <1>6. AcquiringJob'
    BY DEF AcquiringJob, TypeJobs, TypeManager
  <1>7. DoneAfterEnd'
    BY DEF DoneAfterEnd, progVars, TypeJobs, TypeProgress, JobProgressMetrics
  <1>. QED BY <1>1, <1>2, <1>3, <1>4, <1>5, <1>6, <1>7

LEMMA SpawnUnitStep ==
  ASSUME IInv, NEW j \in Jobs, SpawnUnit(j)
  PROVE  IInv'
  <1>. USE DEF IInv, TypeOK, SpawnUnit, JobStep
  <1>1. TypeManager' /\ TypeOutput' /\
       TypeEnum' /\ TypeProgress' /\ TypeHook' /\
       ClosedAfterWait'
    BY DEF TypeManager, TypeOutput, TypeEnum, TypeProgress, TypeHook,
         ClosedAfterWait, outVars, progVars, hookVars, ctlVars
  <1>2. TypeJobs'
    BY DEF TypeJobs
  <1>3. TypeStreams'
    BY DEF TypeStreams
  <1>4. ConsumersInsideRun'
    BY StreamTypes, NoneIsNoUnit, ConstantsAssumption DEF ConsumersInsideRun,
         UnitsStayInJob, JobOf, Streams, TypeJobs, TypeStreams
  <1>5. ProducersHaveConsumers'
    BY DEF ProducersHaveConsumers, TypeStreams
  <1>6. UnitsStayInJob'
    BY NoneIsNoUnit DEF UnitsStayInJob, TypeJobs, TypeEnum
  <1>7. CountedWhileRunning'
    BY PoolTypes DEF CountedWhileRunning, Running, TypeJobs, TypeManager
  <1>8. AcquiringJob'
    BY DEF AcquiringJob, TypeJobs, TypeManager
  <1>9. DoneAfterEnd'
    BY DEF DoneAfterEnd, progVars, TypeJobs, TypeProgress, JobProgressMetrics
  <1>. QED BY <1>1, <1>2, <1>3, <1>4, <1>5, <1>6, <1>7, <1>8, <1>9

LEMMA UnitsExhaustedStep ==
  ASSUME IInv, NEW j \in Jobs, UnitsExhausted(j)
  PROVE  IInv'
  <1>. USE DEF IInv, TypeOK, UnitsExhausted, JobStep
  <1>1. TypeManager' /\ TypeOutput' /\
       TypeEnum' /\ TypeStreams' /\ TypeProgress' /\
       TypeHook' /\ ProducersHaveConsumers' /\ UnitsStayInJob' /\
       ClosedAfterWait'
    BY DEF TypeManager, TypeOutput, TypeEnum, TypeStreams, TypeProgress,
         TypeHook, ProducersHaveConsumers, UnitsStayInJob, ClosedAfterWait,
         outVars, progVars, hookVars, ctlVars
  <1>2. TypeJobs'
    BY DEF TypeJobs
  <1>3. ConsumersInsideRun'
    BY StreamTypes DEF ConsumersInsideRun, TypeJobs, TypeStreams
  <1>4. CountedWhileRunning'
    BY PoolTypes DEF CountedWhileRunning, Running, TypeJobs, TypeManager
  <1>5. AcquiringJob'
    BY DEF AcquiringJob, TypeJobs, TypeManager
  <1>6. DoneAfterEnd'
    BY DEF DoneAfterEnd, progVars, TypeJobs, TypeProgress, JobProgressMetrics
  <1>. QED BY <1>1, <1>2, <1>3, <1>4, <1>5, <1>6

LEMMA EndRunStep ==
  ASSUME IInv, NEW j \in Jobs, EndRun(j)
  PROVE  IInv'
  <1>. USE DEF IInv, TypeOK, EndRun, JobStep
  <1>1. TypeOutput' /\ TypeEnum' /\
       TypeStreams' /\ ProducersHaveConsumers' /\ UnitsStayInJob' /\
       ClosedAfterWait'
    BY DEF TypeOutput, TypeEnum, TypeStreams, ProducersHaveConsumers,
         UnitsStayInJob, ClosedAfterWait, outVars
  <1>2. TypeManager'
    BY DEF TypeManager, ctlVars
  <1>3. TypeJobs'
    BY DEF TypeJobs
  <1>4. TypeProgress'
    <2>1. ASSUME NEW c \in SUBSET Error
          PROVE  [metrics EXCEPT ![j].ended = TRUE, ![j].errors = @ \cup c]
                   \in [Jobs -> JobProgressMetrics]
      <3>1. metrics[j] \in JobProgressMetrics
        BY DEF TypeProgress
      <3>2. [metrics[j] EXCEPT !.ended = TRUE, !.errors = @ \cup c] \in JobProgressMetrics
        BY <3>1 DEF JobProgressMetrics
      <3>. QED BY <3>2 DEF TypeProgress
    <2>2. {} \in SUBSET Error /\ {[fatal |-> TRUE, unit |-> None]} \in SUBSET Error
      BY ErrorTypes
    <2>3. PICK c \in {{}, {[fatal |-> TRUE, unit |-> None]}} :
            metrics' = [metrics EXCEPT ![j].ended = TRUE, ![j].errors = @ \cup c]
      OBVIOUS
    <2>4. metrics' \in [Jobs -> JobProgressMetrics]
      <3>1. c \in SUBSET Error
        BY <2>2
      <3>2. [metrics EXCEPT ![j].ended = TRUE, ![j].errors = @ \cup c] \in [Jobs -> JobProgressMetrics]
        BY <2>1, <3>1
      <3>. QED BY <2>3, <3>2, Zenon
    <2>. QED BY <2>4 DEF TypeProgress
  <1>5. TypeHook'
    BY ErrorTypes, HookErrorType DEF TypeHook
  <1>6. ConsumersInsideRun'
    BY StreamTypes DEF ConsumersInsideRun, StreamsOf, TypeJobs, TypeStreams
  <1>7. CountedWhileRunning'
    BY PoolTypes DEF CountedWhileRunning, Running, TypeJobs, TypeManager
  <1>8. AcquiringJob'
    BY DEF AcquiringJob, TypeJobs, TypeManager
  <1>9. DoneAfterEnd'
    BY DEF DoneAfterEnd, TypeJobs, TypeProgress, JobProgressMetrics
  <1>. QED BY <1>1, <1>2, <1>3, <1>4, <1>5, <1>6, <1>7, <1>8, <1>9

LEMMA WgDoneStep ==
  ASSUME IInv, NEW j \in Jobs, WgDone(j)
  PROVE  IInv'
  <1>. USE DEF IInv, TypeOK, WgDone, JobStep
  <1>1. TypeOutput' /\ TypeEnum' /\
       TypeStreams' /\ TypeProgress' /\ TypeHook' /\
       ProducersHaveConsumers' /\ UnitsStayInJob'
    BY DEF TypeOutput, TypeEnum, TypeStreams, TypeProgress, TypeHook,
         ProducersHaveConsumers, UnitsStayInJob, outVars, progVars, hookVars
  <1>2. TypeManager'
    BY DEF TypeManager, ctlVars
  <1>3. TypeJobs'
    BY DEF TypeJobs
  <1>4. ConsumersInsideRun'
    BY StreamTypes DEF ConsumersInsideRun, TypeJobs, TypeStreams
  <1>5. CountedWhileRunning'
    BY PoolTypes DEF CountedWhileRunning, Running, TypeJobs, TypeManager
  <1>6. ClosedAfterWait'
    BY DEF ClosedAfterWait, outVars, TypeManager
  <1>7. AcquiringJob'
    BY DEF AcquiringJob, TypeJobs, TypeManager
  <1>8. DoneAfterEnd'
    BY DEF DoneAfterEnd, progVars, TypeJobs, TypeProgress, JobProgressMetrics
  <1>. QED BY <1>1, <1>2, <1>3, <1>4, <1>5, <1>6, <1>7, <1>8

LEMMA ReleaseSemStep ==
  ASSUME IInv, NEW j \in Jobs, ReleaseSem(j)
  PROVE  IInv'
  <1>. USE DEF IInv, TypeOK, ReleaseSem, JobStep
  <1>1. TypeOutput' /\ TypeEnum' /\
       TypeStreams' /\ TypeProgress' /\ TypeHook' /\
       ProducersHaveConsumers' /\ UnitsStayInJob' /\ ClosedAfterWait'
    BY DEF TypeOutput, TypeEnum, TypeStreams, TypeProgress, TypeHook,
         ProducersHaveConsumers, UnitsStayInJob, ClosedAfterWait, outVars,
         progVars, hookVars
  <1>2. TypeManager'
    BY DEF TypeManager, ctlVars, Pools, Pool
  <1>3. TypeJobs'
    BY DEF TypeJobs
  <1>4. ConsumersInsideRun'
    BY StreamTypes DEF ConsumersInsideRun, TypeJobs, TypeStreams
  <1>5. CountedWhileRunning'
    BY PoolTypes DEF CountedWhileRunning, Running, TypeJobs, TypeManager
  <1>6. AcquiringJob'
    BY DEF AcquiringJob, TypeJobs, TypeManager
  <1>7. DoneAfterEnd'
    BY DEF DoneAfterEnd, progVars, TypeJobs, TypeProgress, JobProgressMetrics
  <1>. QED BY <1>1, <1>2, <1>3, <1>4, <1>5, <1>6, <1>7

LEMMA FinishDoneStep ==
  ASSUME IInv, NEW j \in Jobs, FinishDone(j)
  PROVE  IInv'
  <1>. USE DEF IInv, TypeOK, FinishDone, JobStep
  <1>1. TypeManager' /\ TypeOutput' /\
       TypeEnum' /\ TypeStreams' /\ TypeHook' /\
       ProducersHaveConsumers' /\ UnitsStayInJob' /\ ClosedAfterWait'
    BY DEF TypeManager, TypeOutput, TypeEnum, TypeStreams, TypeHook,
         ProducersHaveConsumers, UnitsStayInJob, ClosedAfterWait, outVars,
         hookVars, ctlVars
  <1>2. TypeJobs'
    BY DEF TypeJobs
  <1>3. TypeProgress'
    BY DEF TypeProgress, JobProgressMetrics
  <1>4. ConsumersInsideRun'
    BY StreamTypes DEF ConsumersInsideRun, TypeJobs, TypeStreams
  <1>5. CountedWhileRunning'
    BY PoolTypes DEF CountedWhileRunning, Running, TypeJobs, TypeManager
  <1>6. AcquiringJob'
    BY DEF AcquiringJob, TypeJobs, TypeManager
  <1>7. DoneAfterEnd'
    BY DEF DoneAfterEnd, TypeJobs, TypeProgress, JobProgressMetrics
  <1>. QED BY <1>1, <1>2, <1>3, <1>4, <1>5, <1>6, <1>7

LEMMA FinishHookStep ==
  ASSUME IInv, NEW j \in Jobs, FinishHook(j)
  PROVE  IInv'
  <1>. USE DEF IInv, TypeOK, FinishHook, JobStep
  <1>1. TypeManager' /\ TypeOutput' /\
       TypeEnum' /\ TypeStreams' /\ TypeProgress' /\
       ProducersHaveConsumers' /\ UnitsStayInJob' /\ ClosedAfterWait'
    BY DEF TypeManager, TypeOutput, TypeEnum, TypeStreams, TypeProgress,
         ProducersHaveConsumers, UnitsStayInJob, ClosedAfterWait, outVars,
         progVars, ctlVars
  <1>2. TypeJobs'
    BY DEF TypeJobs
  <1>3. TypeHook'
    <2>1. metrics[j].errors \in SUBSET Error /\ HookID(j) \in HookIDs
      BY JobStreamTypes, StreamTypes DEF TypeProgress, JobProgressMetrics
    <2>2. hook[HookID(j)] # None =>
            [hook[HookID(j)] EXCEPT !.errors = metrics[j].errors] \in UnitMetrics
      BY <2>1 DEF TypeHook, UnitMetrics
    <2>. QED BY <2>2 DEF TypeHook
  <1>4. ConsumersInsideRun'
    BY StreamTypes DEF ConsumersInsideRun, TypeJobs, TypeStreams
  <1>5. CountedWhileRunning'
    BY PoolTypes DEF CountedWhileRunning, Running, TypeJobs, TypeManager
  <1>6. AcquiringJob'
    BY DEF AcquiringJob, TypeJobs, TypeManager
  <1>7. DoneAfterEnd'
    BY JobStreamTypes DEF DoneAfterEnd, progVars, TypeJobs, TypeProgress,
         JobProgressMetrics
  <1>. QED BY <1>1, <1>2, <1>3, <1>4, <1>5, <1>6, <1>7

LEMMA FinishEjectStep ==
  ASSUME IInv, NEW j \in Jobs, FinishEject(j)
  PROVE  IInv'
  <1>. USE DEF IInv, TypeOK, FinishEject, JobStep
  <1>1. TypeManager' /\ TypeOutput' /\
       TypeEnum' /\ TypeStreams' /\ TypeProgress' /\
       ProducersHaveConsumers' /\ UnitsStayInJob' /\ ClosedAfterWait'
    BY DEF TypeManager, TypeOutput, TypeEnum, TypeStreams, TypeProgress,
         ProducersHaveConsumers, UnitsStayInJob, ClosedAfterWait, outVars,
         progVars, ctlVars
  <1>2. TypeJobs'
    BY DEF TypeJobs
  <1>3. TypeHook'
    BY EjectEffect, JobStreamTypes DEF TypeHook
  <1>4. ConsumersInsideRun'
    BY StreamTypes DEF ConsumersInsideRun, TypeJobs, TypeStreams
  <1>5. CountedWhileRunning'
    BY PoolTypes DEF CountedWhileRunning, Running, TypeJobs, TypeManager
  <1>6. AcquiringJob'
    BY DEF AcquiringJob, TypeJobs, TypeManager
  <1>7. DoneAfterEnd'
    BY JobStreamTypes DEF DoneAfterEnd, progVars, TypeJobs, TypeProgress,
         JobProgressMetrics
  <1>. QED BY <1>1, <1>2, <1>3, <1>4, <1>5, <1>6, <1>7

LEMMA WriteUnitStep ==
  ASSUME IInv, NEW j \in Jobs, WriteUnit(j)
  PROVE  IInv'
  <1>. USE DEF IInv, TypeOK, WriteUnit, EnumStep
  <1>1. TypeManager' /\ TypeOutput' /\
       TypeStreams' /\ TypeProgress' /\ TypeHook' /\
       ConsumersInsideRun' /\ ProducersHaveConsumers' /\ CountedWhileRunning' /\
       ClosedAfterWait' /\ AcquiringJob' /\ DoneAfterEnd'
    BY DEF TypeManager, TypeOutput, TypeStreams, TypeProgress, TypeHook,
         ConsumersInsideRun, ProducersHaveConsumers, CountedWhileRunning,
         ClosedAfterWait, AcquiringJob, DoneAfterEnd, mgrVars, outVars,
         jobVars, streamVars, progVars, hookVars, ctlVars
  <1>2. TypeJobs'
    BY DEF TypeJobs, jobVars, TypeEnum
  <1>3. TypeEnum'
    BY DEF TypeEnum
  <1>4. UnitsStayInJob'
    BY NoneIsNoUnit DEF UnitsStayInJob, jobVars, TypeJobs, TypeEnum
  <1>. QED BY <1>1, <1>2, <1>3, <1>4

LEMMA EnumerateReturnedStep ==
  ASSUME IInv, NEW j \in Jobs, EnumerateReturned(j)
  PROVE  IInv'
  <1>. USE DEF IInv, TypeOK, EnumerateReturned
  <1>1. TypeManager' /\ TypeOutput' /\
       TypeStreams' /\ ConsumersInsideRun' /\ ProducersHaveConsumers' /\
       UnitsStayInJob' /\ CountedWhileRunning' /\ ClosedAfterWait' /\
       AcquiringJob'
    BY DEF TypeManager, TypeOutput, TypeStreams, ConsumersInsideRun,
         ProducersHaveConsumers, UnitsStayInJob, CountedWhileRunning,
         ClosedAfterWait, AcquiringJob, mgrVars, outVars, streamVars, ctlVars
  <1>2. TypeJobs'
    BY DEF TypeJobs
  <1>3. TypeEnum'
    BY DEF TypeEnum
  <1>4. TypeProgress'
    BY ErrorTypes, ReportErrorEffect DEF TypeProgress
  <1>5. TypeHook'
    BY ErrorTypes, ReportErrorEffect DEF TypeHook
  <1>6. DoneAfterEnd'
    BY ErrorTypes, ReportErrorEffect DEF DoneAfterEnd, TypeJobs, TypeProgress
  <1>. QED BY <1>1, <1>2, <1>3, <1>4, <1>5, <1>6

LEMMA EndEnumeratingStep ==
  ASSUME IInv, NEW j \in Jobs, EndEnumerating(j)
  PROVE  IInv'
  <1>. USE DEF IInv, TypeOK, EndEnumerating, EnumStep
  <1>1. TypeManager' /\ TypeOutput' /\
       TypeJobs' /\ TypeStreams' /\ TypeHook' /\
       ConsumersInsideRun' /\ ProducersHaveConsumers' /\ UnitsStayInJob' /\
       CountedWhileRunning' /\ ClosedAfterWait' /\ AcquiringJob'
    BY DEF TypeManager, TypeOutput, TypeJobs, TypeStreams, TypeHook,
         ConsumersInsideRun, ProducersHaveConsumers, UnitsStayInJob,
         CountedWhileRunning, ClosedAfterWait, AcquiringJob, mgrVars, outVars,
         jobVars, streamVars, hookVars, ctlVars
  <1>2. TypeEnum'
    BY DEF TypeEnum
  <1>3. TypeProgress'
    BY DEF TypeProgress, JobProgressMetrics
  <1>4. DoneAfterEnd'
    BY DEF DoneAfterEnd, jobVars, TypeJobs, TypeProgress, JobProgressMetrics
  <1>. QED BY <1>1, <1>2, <1>3, <1>4

LEMMA UnitErrStep ==
  ASSUME IInv, NEW j \in Jobs, UnitErr(j)
  PROVE  IInv'
  <1>. USE DEF IInv, TypeOK, UnitErr, EnumStep
  <1>1. TypeManager' /\ TypeOutput' /\
       TypeJobs' /\ TypeStreams' /\ ConsumersInsideRun' /\
       ProducersHaveConsumers' /\ UnitsStayInJob' /\ CountedWhileRunning' /\
       ClosedAfterWait' /\ AcquiringJob'
    BY DEF TypeManager, TypeOutput, TypeJobs, TypeStreams, ConsumersInsideRun,
         ProducersHaveConsumers, UnitsStayInJob, CountedWhileRunning,
         ClosedAfterWait, AcquiringJob, mgrVars, outVars, jobVars, streamVars,
         ctlVars
  <1>2. TypeEnum'
    BY DEF TypeEnum
  <1>3. TypeProgress'
    BY ErrorTypes, ReportErrorEffect DEF TypeProgress
  <1>4. TypeHook'
    BY ErrorTypes, ReportErrorEffect DEF TypeHook
  <1>5. DoneAfterEnd'
    BY ErrorTypes, ReportErrorEffect DEF DoneAfterEnd, jobVars, TypeJobs,
         TypeProgress
  <1>. QED BY <1>1, <1>2, <1>3, <1>4, <1>5

LEMMA ReportUnitStep ==
  ASSUME IInv, NEW j \in Jobs, NEW u \in Units, ReportUnit(j, u)
  PROVE  IInv'
  <1>. USE DEF IInv, TypeOK, ReportUnit, EnumStep
  <1>1. TypeManager' /\ TypeOutput' /\
       TypeJobs' /\ TypeStreams' /\ TypeHook' /\
       ConsumersInsideRun' /\ ProducersHaveConsumers' /\ CountedWhileRunning' /\
       ClosedAfterWait' /\ AcquiringJob'
    BY DEF TypeManager, TypeOutput, TypeJobs, TypeStreams, TypeHook,
         ConsumersInsideRun, ProducersHaveConsumers, CountedWhileRunning,
         ClosedAfterWait, AcquiringJob, mgrVars, outVars, jobVars, streamVars,
         hookVars, ctlVars
  <1>2. TypeEnum'
    BY DEF TypeEnum
  <1>3. TypeProgress'
    BY DEF TypeProgress, JobProgressMetrics
  <1>4. UnitsStayInJob'
    BY NoneIsNoUnit DEF UnitsStayInJob, jobVars, TypeJobs, TypeEnum
  <1>5. DoneAfterEnd'
    BY DEF DoneAfterEnd, jobVars, TypeJobs, TypeProgress, JobProgressMetrics
  <1>. QED BY <1>1, <1>2, <1>3, <1>4, <1>5

LEMMA StartUnitChunkingStep ==
  ASSUME IInv, NEW s \in Streams, StartUnitChunking(s)
  PROVE  IInv'
  <1>. USE DEF IInv, TypeOK, StartUnitChunking, ProducerStep
  <1>1. TypeManager' /\ TypeOutput' /\
       TypeJobs' /\ TypeEnum' /\ TypeProgress' /\
       ConsumersInsideRun' /\ UnitsStayInJob' /\ CountedWhileRunning' /\
       ClosedAfterWait' /\ AcquiringJob' /\ DoneAfterEnd'
    BY DEF TypeManager, TypeOutput, TypeJobs, TypeEnum, TypeProgress,
         ConsumersInsideRun, UnitsStayInJob, CountedWhileRunning,
         ClosedAfterWait, AcquiringJob, DoneAfterEnd, mgrVars, outVars,
         enumVars, ctlVars
  <1>2. TypeStreams'
    BY DEF TypeStreams
  <1>3. TypeHook'
    BY StreamTypes DEF TypeHook, NewMetrics, UnitMetrics
  <1>4. ProducersHaveConsumers'
    BY DEF ProducersHaveConsumers, TypeStreams
  <1>. QED BY <1>1, <1>2, <1>3, <1>4

LEMMA ChunkWrittenStep ==
  ASSUME IInv, NEW s \in Streams, ChunkWritten(s)
  PROVE  IInv'
  <1>. USE DEF IInv, TypeOK, ChunkWritten, ProducerStep
  <1>1. TypeManager' /\ TypeOutput' /\
       TypeJobs' /\ TypeEnum' /\ TypeProgress' /\
       TypeHook' /\ ConsumersInsideRun' /\ UnitsStayInJob' /\
       CountedWhileRunning' /\ ClosedAfterWait' /\ AcquiringJob' /\
       DoneAfterEnd'
    BY DEF TypeManager, TypeOutput, TypeJobs, TypeEnum, TypeProgress,
         TypeHook, ConsumersInsideRun, UnitsStayInJob, CountedWhileRunning,
         ClosedAfterWait, AcquiringJob, DoneAfterEnd, mgrVars, outVars,
         enumVars, ctlVars
  <1>2. TypeStreams'
    BY DEF TypeStreams
  <1>3. ProducersHaveConsumers'
    BY DEF ProducersHaveConsumers, TypeStreams
  <1>. QED BY <1>1, <1>2, <1>3

LEMMA ChunkUnitReturnedStep ==
  ASSUME IInv, NEW s \in Streams, ChunkUnitReturned(s)
  PROVE  IInv'
  <1>. USE DEF IInv, TypeOK, ChunkUnitReturned, ProducerStep
  <1>1. TypeManager' /\ TypeOutput' /\
       TypeEnum' /\ ConsumersInsideRun' /\ UnitsStayInJob' /\
       CountedWhileRunning' /\ ClosedAfterWait' /\ AcquiringJob'
    BY DEF TypeManager, TypeOutput, TypeEnum, ConsumersInsideRun,
         UnitsStayInJob, CountedWhileRunning, ClosedAfterWait, AcquiringJob,
         mgrVars, outVars, enumVars, ctlVars
  <1>2. TypeJobs'
    BY DEF TypeJobs
  <1>3. TypeStreams'
    BY DEF TypeStreams
  <1>4. TypeProgress'
    BY ErrorTypes, ReportErrorEffect, StreamTypes DEF TypeProgress
  <1>5. TypeHook'
    BY ErrorTypes, ReportErrorEffect, StreamTypes DEF TypeHook
  <1>6. ProducersHaveConsumers'
    BY DEF ProducersHaveConsumers, TypeStreams
  <1>7. DoneAfterEnd'
    BY ErrorTypes, ReportErrorEffect, StreamTypes DEF DoneAfterEnd, TypeJobs,
         TypeProgress
  <1>. QED BY <1>1, <1>2, <1>3, <1>4, <1>5, <1>6, <1>7

LEMMA ChunksReturnedStep ==
  ASSUME IInv, NEW s \in Streams, ChunksReturned(s)
  PROVE  IInv'
  <1>. USE DEF IInv, TypeOK, ChunksReturned, ProducerStep
  <1>1. TypeManager' /\ TypeOutput' /\
       TypeEnum' /\ ConsumersInsideRun' /\ UnitsStayInJob' /\
       CountedWhileRunning' /\ ClosedAfterWait' /\ AcquiringJob'
    BY DEF TypeManager, TypeOutput, TypeEnum, ConsumersInsideRun,
         UnitsStayInJob, CountedWhileRunning, ClosedAfterWait, AcquiringJob,
         mgrVars, outVars, enumVars, ctlVars
  <1>2. TypeJobs'
    BY DEF TypeJobs
  <1>3. TypeStreams'
    BY JobStreamTypes DEF TypeStreams
  <1>4. TypeProgress'
    BY ErrorTypes, ReportErrorEffect, StreamTypes, JobStreamTypes DEF
         TypeProgress
  <1>5. TypeHook'
    BY ErrorTypes, ReportErrorEffect, StreamTypes, JobStreamTypes DEF TypeHook
  <1>6. ProducersHaveConsumers'
    BY DEF ProducersHaveConsumers, TypeStreams
  <1>7. DoneAfterEnd'
    BY ErrorTypes, ReportErrorEffect, StreamTypes, JobStreamTypes DEF
         DoneAfterEnd, TypeJobs, TypeProgress
  <1>. QED BY <1>1, <1>2, <1>3, <1>4, <1>5, <1>6, <1>7

LEMMA ConsumerReceivesStep ==
  ASSUME IInv, NEW s \in Streams, ConsumerReceives(s)
  PROVE  IInv'
  <1>. USE DEF IInv, TypeOK, ConsumerReceives, ConsumerStep
  <1>1. TypeManager' /\ TypeOutput' /\
       TypeJobs' /\ TypeEnum' /\ UnitsStayInJob' /\
       CountedWhileRunning' /\ ClosedAfterWait' /\ AcquiringJob'
    BY DEF TypeManager, TypeOutput, TypeJobs, TypeEnum, UnitsStayInJob,
         CountedWhileRunning, ClosedAfterWait, AcquiringJob, mgrVars,
         enumVars, jobVars, ctlVars
  <1>2. TypeStreams'
    BY DEF TypeStreams
  <1>3. TypeProgress'
    BY ReportChunkEffect DEF TypeProgress
  <1>4. TypeHook'
    BY ReportChunkEffect DEF TypeHook
  <1>5. ConsumersInsideRun'
    BY StreamTypes DEF ConsumersInsideRun, jobVars, TypeJobs, TypeStreams
  <1>6. ProducersHaveConsumers'
    BY DEF ProducersHaveConsumers, TypeStreams
  <1>7. DoneAfterEnd'
    BY ReportChunkEffect DEF DoneAfterEnd, jobVars, TypeJobs, TypeProgress
  <1>. QED BY <1>1, <1>2, <1>3, <1>4, <1>5, <1>6, <1>7

LEMMA ConsumerSendsStep ==
  ASSUME IInv, NEW s \in Streams, ConsumerSends(s)
  PROVE  IInv'
  <1>. USE DEF IInv, TypeOK, ConsumerSends, ConsumerStep
  <1>1. TypeManager' /\ TypeJobs' /\
       TypeEnum' /\ TypeProgress' /\ UnitsStayInJob' /\
       CountedWhileRunning' /\ ClosedAfterWait' /\ AcquiringJob' /\
       DoneAfterEnd'
    BY DEF TypeManager, TypeJobs, TypeEnum, TypeProgress, UnitsStayInJob,
         CountedWhileRunning, ClosedAfterWait, AcquiringJob, DoneAfterEnd,
         mgrVars, enumVars, jobVars, ctlVars
  <1>2. TypeOutput'
    <2>1. TypeOutput => Append(out, s) \in Seq(Streams \cup {None})
      BY DEF TypeOutput
    <2>2. out' \in Seq(Streams \cup {None})
      BY <2>1 DEF TypeOutput
    <2>3. sent' \in [Streams -> Nat]
      BY DEF TypeOutput
    <2>. QED BY <2>2, <2>3 DEF TypeOutput
  <1>3. TypeStreams'
    BY DEF TypeStreams
  <1>4. TypeHook'
    BY DEF TypeHook
  <1>5. ConsumersInsideRun'
    BY StreamTypes DEF ConsumersInsideRun, jobVars, TypeJobs, TypeStreams
  <1>6. ProducersHaveConsumers'
    BY DEF ProducersHaveConsumers, TypeStreams
  <1>. QED BY <1>1, <1>2, <1>3, <1>4, <1>5, <1>6

LEMMA ConsumerEndsStep ==
  ASSUME IInv, NEW s \in Streams, ConsumerEnds(s)
  PROVE  IInv'
  <1>. USE DEF IInv, TypeOK, ConsumerEnds, ConsumerStep
  <1>1. TypeManager' /\ TypeOutput' /\
       TypeJobs' /\ TypeEnum' /\ UnitsStayInJob' /\
       CountedWhileRunning' /\ ClosedAfterWait' /\ AcquiringJob'
    BY DEF TypeManager, TypeOutput, TypeJobs, TypeEnum, UnitsStayInJob,
         CountedWhileRunning, ClosedAfterWait, AcquiringJob, mgrVars,
         enumVars, jobVars, ctlVars
  <1>2. TypeStreams'
    BY DEF TypeStreams
  <1>3. TypeProgress'
    BY StreamTypes DEF TypeProgress, JobProgressMetrics
  <1>4. TypeHook'
    BY StreamTypes, FinishUnitEffect DEF TypeHook
  <1>5. ConsumersInsideRun'
    BY StreamTypes DEF ConsumersInsideRun, jobVars, TypeJobs, TypeStreams
  <1>6. ProducersHaveConsumers'
    BY DEF ProducersHaveConsumers, TypeStreams
  <1>7. DoneAfterEnd'
    <2>1. \A k \in Jobs : metrics'[k].ended = metrics[k].ended
      BY StreamTypes DEF TypeProgress, JobProgressMetrics
    <2>. QED BY <2>1 DEF DoneAfterEnd, TypeJobs, jobVars
  <1>. QED BY <1>1, <1>2, <1>3, <1>4, <1>5, <1>6, <1>7

LEMMA ConsumerEjectsStep ==
  ASSUME IInv, NEW s \in Streams, ConsumerEjects(s)
  PROVE  IInv'
  <1>. USE DEF IInv, TypeOK, ConsumerEjects, ConsumerStep
  <1>1. TypeManager' /\ TypeOutput' /\
       TypeJobs' /\ TypeEnum' /\ TypeProgress' /\
       UnitsStayInJob' /\ CountedWhileRunning' /\ ClosedAfterWait' /\
       AcquiringJob' /\ DoneAfterEnd'
    BY DEF TypeManager, TypeOutput, TypeJobs, TypeEnum, TypeProgress,
         UnitsStayInJob, CountedWhileRunning, ClosedAfterWait, AcquiringJob,
         DoneAfterEnd, mgrVars, enumVars, jobVars, ctlVars
  <1>2. TypeStreams'
    BY DEF TypeStreams
  <1>3. TypeHook'
    BY EjectEffect DEF TypeHook
  <1>4. ConsumersInsideRun'
    BY StreamTypes DEF ConsumersInsideRun, jobVars, TypeJobs, TypeStreams
  <1>5. ProducersHaveConsumers'
    BY DEF ProducersHaveConsumers, TypeStreams
  <1>. QED BY <1>1, <1>2, <1>3, <1>4, <1>5

LEMMA ChunkReportedStep ==
  ASSUME IInv, NEW s \in Streams, ChunkReported(s)
  PROVE  IInv'
  <1>. USE DEF IInv, TypeOK, ChunkReported, ProducerStep
  <1>1. TypeManager' /\ TypeOutput' /\
       TypeJobs' /\ TypeEnum' /\ ConsumersInsideRun' /\
       UnitsStayInJob' /\ CountedWhileRunning' /\ ClosedAfterWait' /\
       AcquiringJob'
    BY DEF TypeManager, TypeOutput, TypeJobs, TypeEnum, ConsumersInsideRun,
         UnitsStayInJob, CountedWhileRunning, ClosedAfterWait, AcquiringJob,
         mgrVars, outVars, enumVars, ctlVars
  <1>2. TypeStreams'
    BY DEF TypeStreams
  <1>3. TypeProgress'
    BY ReportChunkEffect DEF TypeProgress
  <1>4. TypeHook'
    BY ReportChunkEffect DEF TypeHook
  <1>5. ProducersHaveConsumers'
    BY DEF ProducersHaveConsumers, TypeStreams
  <1>6. DoneAfterEnd'
    BY ReportChunkEffect DEF DoneAfterEnd, TypeJobs, TypeProgress
  <1>. QED BY <1>1, <1>2, <1>3, <1>4, <1>5, <1>6

LEMMA ChunkErrStep ==
  ASSUME IInv, NEW s \in Streams, ChunkErr(s)
  PROVE  IInv'
  <1>. USE DEF IInv, TypeOK, ChunkErr, ProducerStep
  <1>1. TypeManager' /\ TypeOutput' /\
       TypeJobs' /\ TypeEnum' /\ ConsumersInsideRun' /\
       UnitsStayInJob' /\ CountedWhileRunning' /\ ClosedAfterWait' /\
       AcquiringJob'
    BY DEF TypeManager, TypeOutput, TypeJobs, TypeEnum, ConsumersInsideRun,
         UnitsStayInJob, CountedWhileRunning, ClosedAfterWait, AcquiringJob,
         mgrVars, outVars, enumVars, ctlVars
  <1>2. TypeStreams'
    BY DEF TypeStreams
  <1>3. TypeProgress'
    BY ErrorTypes, ReportErrorEffect, StreamTypes DEF TypeProgress
  <1>4. TypeHook'
    BY ErrorTypes, ReportErrorEffect, StreamTypes DEF TypeHook
  <1>5. ProducersHaveConsumers'
    BY DEF ProducersHaveConsumers, TypeStreams
  <1>6. DoneAfterEnd'
    BY ErrorTypes, ReportErrorEffect, StreamTypes DEF DoneAfterEnd, TypeJobs,
         TypeProgress
  <1>. QED BY <1>1, <1>2, <1>3, <1>4, <1>5, <1>6

LEMMA ChunksWriteStep ==
  ASSUME IInv, NEW s \in Streams, ChunksWrite(s)
  PROVE  IInv'
  <1>. USE DEF IInv, TypeOK, ChunksWrite, ProducerStep
  <1>1. TypeManager' /\ TypeOutput' /\
       TypeJobs' /\ TypeEnum' /\ TypeProgress' /\
       TypeHook' /\ ConsumersInsideRun' /\ UnitsStayInJob' /\
       CountedWhileRunning' /\ ClosedAfterWait' /\ AcquiringJob' /\
       DoneAfterEnd'
    BY DEF TypeManager, TypeOutput, TypeJobs, TypeEnum, TypeProgress,
         TypeHook, ConsumersInsideRun, UnitsStayInJob, CountedWhileRunning,
         ClosedAfterWait, AcquiringJob, DoneAfterEnd, mgrVars, outVars,
         enumVars, ctlVars
  <1>2. TypeStreams'
    BY DEF TypeStreams
  <1>3. ProducersHaveConsumers'
    BY DEF ProducersHaveConsumers, TypeStreams
  <1>. QED BY <1>1, <1>2, <1>3

LEMMA SetMaxConcurrentSourcesStep ==
  ASSUME IInv, NEW n \in Limits, SetMaxConcurrentSources(n)
  PROVE  IInv'
  <1>. USE DEF IInv, TypeOK, SetMaxConcurrentSources
  <1>1. TypeOutput' /\ TypeJobs' /\
       TypeEnum' /\ TypeStreams' /\ TypeProgress' /\
       TypeHook' /\ ConsumersInsideRun' /\ ProducersHaveConsumers' /\
       UnitsStayInJob' /\ CountedWhileRunning' /\ ClosedAfterWait' /\
       AcquiringJob' /\ DoneAfterEnd'
    BY DEF TypeOutput, TypeJobs, TypeEnum, TypeStreams, TypeProgress,
         TypeHook, ConsumersInsideRun, ProducersHaveConsumers, UnitsStayInJob,
         CountedWhileRunning, ClosedAfterWait, AcquiringJob, DoneAfterEnd,
         outVars, enumVars, jobVars, streamVars, progVars, hookVars
  <1>2. TypeManager'
    BY ConstantsAssumption DEF TypeManager, ctlVars, Pools
  <1>. QED BY <1>1, <1>2

LEMMA ScanChunkStep ==
  ASSUME IInv, ScanChunk
  PROVE  IInv'
  <1>. USE DEF IInv, TypeOK, ScanChunk
  <1>1. TypeManager' /\ TypeJobs' /\
       TypeEnum' /\ TypeStreams' /\ TypeProgress' /\
       TypeHook' /\ ConsumersInsideRun' /\ ProducersHaveConsumers' /\
       UnitsStayInJob' /\ CountedWhileRunning' /\ ClosedAfterWait' /\
       AcquiringJob' /\ DoneAfterEnd'
    BY DEF TypeManager, TypeJobs, TypeEnum, TypeStreams, TypeProgress,
         TypeHook, ConsumersInsideRun, ProducersHaveConsumers, UnitsStayInJob,
         CountedWhileRunning, ClosedAfterWait, AcquiringJob, DoneAfterEnd,
         mgrVars, enumVars, jobVars, streamVars, progVars, hookVars, ctlVars
  <1>2. TypeOutput'
    BY DEF TypeOutput
  <1>. QED BY <1>1, <1>2

LEMMA WaitCalledStep ==
  ASSUME IInv, WaitCalled
  PROVE  IInv'
  <1>. USE DEF IInv, TypeOK, WaitCalled
  <1>1. TypeOutput' /\ TypeJobs' /\
       TypeEnum' /\ TypeStreams' /\ TypeProgress' /\
       TypeHook' /\ ConsumersInsideRun' /\ ProducersHaveConsumers' /\
       UnitsStayInJob' /\ CountedWhileRunning' /\ DoneAfterEnd'
    BY DEF TypeOutput, TypeJobs, TypeEnum, TypeStreams, TypeProgress,
         TypeHook, ConsumersInsideRun, ProducersHaveConsumers, UnitsStayInJob,
         CountedWhileRunning, DoneAfterEnd, outVars, enumVars, jobVars,
         streamVars, progVars, hookVars
  <1>2. TypeManager'
    BY DEF TypeManager, ctlVars
  <1>3. ClosedAfterWait'
    BY DEF ClosedAfterWait, outVars, TypeManager
  <1>4. AcquiringJob'
    BY DEF AcquiringJob, jobVars, TypeJobs, TypeManager
  <1>. QED BY <1>1, <1>2, <1>3, <1>4

LEMMA WaitReturnedStep ==
  ASSUME IInv, WaitReturned
  PROVE  IInv'
  <1>. USE DEF IInv, TypeOK, WaitReturned
  <1>1. TypeJobs' /\ TypeEnum' /\
       TypeStreams' /\ TypeProgress' /\ TypeHook' /\
       ConsumersInsideRun' /\ ProducersHaveConsumers' /\ UnitsStayInJob' /\
       CountedWhileRunning' /\ DoneAfterEnd'
    BY DEF TypeJobs, TypeEnum, TypeStreams, TypeProgress, TypeHook,
         ConsumersInsideRun, ProducersHaveConsumers, UnitsStayInJob,
         CountedWhileRunning, DoneAfterEnd, enumVars, jobVars, streamVars,
         progVars, hookVars
  <1>2. TypeManager'
    BY DEF TypeManager, ctlVars
  <1>3. TypeOutput'
    BY DEF TypeOutput
  <1>4. ClosedAfterWait'
    BY DEF ClosedAfterWait, TypeManager
  <1>5. AcquiringJob'
    BY DEF AcquiringJob, jobVars, TypeJobs, TypeManager
  <1>. QED BY <1>1, <1>2, <1>3, <1>4, <1>5

LEMMA HooksClosedStep ==
  ASSUME IInv, HooksClosed
  PROVE  IInv'
  <1>. USE DEF IInv, TypeOK, HooksClosed
  <1>1. TypeOutput' /\ TypeJobs' /\
       TypeEnum' /\ TypeStreams' /\ TypeProgress' /\
       ConsumersInsideRun' /\ ProducersHaveConsumers' /\ UnitsStayInJob' /\
       CountedWhileRunning' /\ DoneAfterEnd'
    BY DEF TypeOutput, TypeJobs, TypeEnum, TypeStreams, TypeProgress,
         ConsumersInsideRun, ProducersHaveConsumers, UnitsStayInJob,
         CountedWhileRunning, DoneAfterEnd, outVars, enumVars, jobVars,
         streamVars, progVars
  <1>2. TypeManager'
    BY DEF TypeManager, ctlVars
  <1>3. TypeHook'
    BY ConstantsAssumption DEF TypeHook
  <1>4. ClosedAfterWait'
    BY DEF ClosedAfterWait, outVars, TypeManager
  <1>5. AcquiringJob'
    BY DEF AcquiringJob, jobVars, TypeJobs, TypeManager
  <1>. QED BY <1>1, <1>2, <1>3, <1>4, <1>5

LEMMA ParentCancelledStep ==
  ASSUME IInv, ParentCancelled
  PROVE  IInv'
  <1>. USE DEF IInv, TypeOK, ParentCancelled
  <1>1. TypeOutput' /\ TypeJobs' /\
       TypeEnum' /\ TypeStreams' /\ TypeProgress' /\
       TypeHook' /\ ConsumersInsideRun' /\ ProducersHaveConsumers' /\
       UnitsStayInJob' /\ CountedWhileRunning' /\ ClosedAfterWait' /\
       AcquiringJob' /\ DoneAfterEnd'
    BY DEF TypeOutput, TypeJobs, TypeEnum, TypeStreams, TypeProgress,
         TypeHook, ConsumersInsideRun, ProducersHaveConsumers, UnitsStayInJob,
         CountedWhileRunning, ClosedAfterWait, AcquiringJob, DoneAfterEnd,
         mgrVars, outVars, enumVars, jobVars, streamVars, progVars, hookVars
  <1>2. TypeManager'
    BY DEF TypeManager, mgrVars
  <1>. QED BY <1>1, <1>2

LEMMA ScanWorkerStep ==
  ASSUME IInv, ScanWorker
  PROVE  IInv'
  <1>. USE DEF IInv, TypeOK, ScanWorker
  <1>1. TypeManager' /\ TypeJobs' /\
       TypeEnum' /\ TypeStreams' /\ TypeProgress' /\
       TypeHook' /\ ConsumersInsideRun' /\ ProducersHaveConsumers' /\
       UnitsStayInJob' /\ CountedWhileRunning' /\ ClosedAfterWait' /\
       AcquiringJob' /\ DoneAfterEnd'
    BY DEF TypeManager, TypeJobs, TypeEnum, TypeStreams, TypeProgress,
         TypeHook, ConsumersInsideRun, ProducersHaveConsumers, UnitsStayInJob,
         CountedWhileRunning, ClosedAfterWait, AcquiringJob, DoneAfterEnd,
         mgrVars, enumVars, jobVars, streamVars, progVars, hookVars, ctlVars
  <1>2. TypeOutput'
    BY DEF TypeOutput
  <1>. QED BY <1>1, <1>2

LEMMA ReportWriterStep ==
  ASSUME IInv, ReportWriter
  PROVE  IInv'
  <1>. USE DEF IInv, TypeOK, ReportWriter
  <1>1. TypeManager' /\ TypeOutput' /\
       TypeJobs' /\ TypeEnum' /\ TypeStreams' /\
       TypeProgress' /\ ConsumersInsideRun' /\ ProducersHaveConsumers' /\
       UnitsStayInJob' /\ CountedWhileRunning' /\ ClosedAfterWait' /\
       AcquiringJob' /\ DoneAfterEnd'
    BY DEF TypeManager, TypeOutput, TypeJobs, TypeEnum, TypeStreams,
         TypeProgress, ConsumersInsideRun, ProducersHaveConsumers,
         UnitsStayInJob, CountedWhileRunning, ClosedAfterWait, AcquiringJob,
         DoneAfterEnd, mgrVars, outVars, enumVars, jobVars, streamVars,
         progVars, ctlVars
  <1>2. TypeHook'
    <2>1. Tail(finished) \in Seq(UnitMetrics)
      BY DEF TypeHook
    <2>2. Head(finished).unit \in Streams
      <3>1. finished \in Seq(UnitMetrics) /\ finished # <<>>
        BY DEF TypeHook
      <3>2. Head(finished) \in UnitMetrics
        BY <3>1
      <3>. QED BY <3>2 DEF UnitMetrics
    <2>3. collected' \in [Streams -> Nat]
      BY <2>2 DEF TypeHook
    <2>. QED BY <2>1, <2>3 DEF TypeHook
  <1>. QED BY <1>1, <1>2
\* The initial state satisfies the inductive invariant.
LEMMA InitIInv == Init => IInv
  <1>. SUFFICES ASSUME Init PROVE IInv
    OBVIOUS
  <1>. USE ConstantsAssumption DEF Init
  <1>1. TypeManager
    BY DEF TypeManager, Pools
  <1>2. TypeOutput
    <2>1. <<>> \in Seq(Streams \cup {None})
      OBVIOUS
    <2>. QED BY <2>1 DEF TypeOutput
  <1>3. TypeJobs
    BY DEF TypeJobs
  <1>4. TypeEnum
    BY DEF TypeEnum
  <1>5. TypeStreams
    BY DEF TypeStreams
  <1>6. TypeProgress
    BY DEF TypeProgress, JobProgressMetrics, NoProgress
  <1>7. TypeHook
    <2>1. <<>> \in Seq(UnitMetrics)
      OBVIOUS
    <2>. QED BY <2>1 DEF TypeHook
  <1>8. ConsumersInsideRun /\ ProducersHaveConsumers
    BY DEF ConsumersInsideRun, ProducersHaveConsumers
  <1>9. UnitsStayInJob
    BY NoneIsNoUnit DEF UnitsStayInJob
  <1>10. CountedWhileRunning
    BY PoolTypes DEF CountedWhileRunning, Running
  <1>11. ClosedAfterWait /\ AcquiringJob
    BY DEF ClosedAfterWait, AcquiringJob
  <1>12. DoneAfterEnd
    BY DEF DoneAfterEnd
  <1>. QED BY <1>1, <1>2, <1>3, <1>4, <1>5, <1>6, <1>7, <1>8, <1>9, <1>10, <1>11, <1>12 DEF IInv, TypeOK

\* A step that changes nothing preserves it.
LEMMA StutterStep == IInv /\ UNCHANGED vars => IInv'
  <1>. SUFFICES ASSUME IInv, UNCHANGED vars PROVE IInv'
    OBVIOUS
  <1>. USE DEF vars, mgrVars, outVars, enumVars, jobVars, streamVars, progVars,
               hookVars, ctlVars
  <1>1. TypeOK'
    BY DEF IInv, TypeOK, TypeManager, TypeOutput, TypeJobs, TypeEnum,
           TypeStreams, TypeProgress, TypeHook
  <1>2. ConsumersInsideRun' /\ ProducersHaveConsumers' /\ UnitsStayInJob'
    BY DEF IInv, ConsumersInsideRun, ProducersHaveConsumers, UnitsStayInJob
  <1>3. CountedWhileRunning' /\ ClosedAfterWait' /\ AcquiringJob' /\ DoneAfterEnd'
    BY DEF IInv, CountedWhileRunning, ClosedAfterWait, AcquiringJob, DoneAfterEnd
  <1>. QED BY <1>1, <1>2, <1>3 DEF IInv

\* Steps of a job: its client, its main goroutine and its enumerator.
LEMMA JobStepsPreserve ==
  ASSUME IInv, NEW j \in Jobs,
         \/ ClientStep(j) \/ Acquiring(j) \/ CancelRun(j)
         \/ JobGoroutine(j) \/ Enumerator(j) \/ UnitErr(j)
         \/ \E u \in Units : ReportUnit(j, u)
  PROVE  IInv'
  <1>1. CASE ClientStep(j) \/ Acquiring(j) \/ CancelRun(j)
    BY <1>1, RunRejectedStep, RunAcquireStep, RunAcquiredStep,
       RunAcquireFailedStep, CancelRunStep DEF ClientStep, Acquiring
  <1>2. CASE JobGoroutine(j)
    <2>1. CASE StartJob(j) \/ ReceiveUnit(j) \/ SpawnUnit(j) \/ UnitsExhausted(j)
      BY <2>1, StartJobStep, ReceiveUnitStep, SpawnUnitStep, UnitsExhaustedStep
    <2>2. CASE EndRun(j) \/ WgDone(j) \/ ReleaseSem(j)
      BY <2>2, EndRunStep, WgDoneStep, ReleaseSemStep
    <2>3. CASE FinishDone(j) \/ FinishHook(j) \/ FinishEject(j)
      BY <2>3, FinishDoneStep, FinishHookStep, FinishEjectStep
    <2>. QED BY <1>2, <2>1, <2>2, <2>3 DEF JobGoroutine
  <1>3. CASE Enumerator(j) \/ UnitErr(j)
    BY <1>3, WriteUnitStep, EnumerateReturnedStep, EndEnumeratingStep, UnitErrStep
    DEF Enumerator
  <1>4. CASE \E u \in Units : ReportUnit(j, u)
    BY <1>4, ReportUnitStep
  <1>. QED BY <1>1, <1>2, <1>3, <1>4

\* Steps of a stream: its producer, its consumer and its source.
LEMMA StreamStepsPreserve ==
  ASSUME IInv, NEW s \in Streams,
         \/ Producer(s) \/ Consumer(s)
         \/ ChunkReported(s) \/ ChunkErr(s) \/ ChunksWrite(s)
  PROVE  IInv'
  <1>1. CASE Producer(s)
    BY <1>1, StartUnitChunkingStep, ChunkWrittenStep, ChunkUnitReturnedStep,
       ChunksReturnedStep DEF Producer
  <1>2. CASE Consumer(s)
    BY <1>2, ConsumerReceivesStep, ConsumerSendsStep, ConsumerEndsStep,
       ConsumerEjectsStep DEF Consumer
  <1>3. CASE ChunkReported(s) \/ ChunkErr(s) \/ ChunksWrite(s)
    BY <1>3, ChunkReportedStep, ChunkErrStep, ChunksWriteStep
  <1>. QED BY <1>1, <1>2, <1>3

\* The invariant is inductive.
LEMMA NextIInv == IInv /\ [Next]_vars => IInv'
  <1>. SUFFICES ASSUME IInv, [Next]_vars PROVE IInv'
    OBVIOUS
  <1>1. CASE Step
    <2>1. ASSUME NEW j \in Jobs,
                 \/ ClientStep(j) \/ Acquiring(j) \/ CancelRun(j)
                 \/ JobGoroutine(j) \/ Enumerator(j) \/ UnitErr(j)
                 \/ \E u \in Units : ReportUnit(j, u)
          PROVE  IInv'
      BY <2>1, JobStepsPreserve
    <2>2. ASSUME NEW s \in Streams,
                 \/ Producer(s) \/ Consumer(s)
                 \/ ChunkReported(s) \/ ChunkErr(s) \/ ChunksWrite(s)
          PROVE  IInv'
      BY <2>2, StreamStepsPreserve
    <2>3. CASE \E n \in Limits : SetMaxConcurrentSources(n)
      BY <2>3, SetMaxConcurrentSourcesStep
    <2>4. CASE ScanChunk \/ WaitCalled \/ Waiting \/ ParentCancelled
      BY <2>4, ScanChunkStep, WaitCalledStep, WaitReturnedStep, HooksClosedStep,
         ParentCancelledStep DEF Waiting
    <2>5. CASE ScanWorker \/ ReportWriter
      BY <2>5, ScanWorkerStep, ReportWriterStep
    <2>. QED BY <1>1, <2>1, <2>2, <2>3, <2>4, <2>5 DEF Step
  <1>2. CASE UNCHANGED vars
    BY <1>2, StutterStep
  <1>. QED BY <1>1, <1>2 DEF Next, Terminated

(***************************************************************************)
(* IInv holds in every reachable state: which goroutines can be alive at   *)
(* each point of a job, and where its WaitGroup count and slot are.        *)
(***************************************************************************)
THEOREM Invariance == Spec => []IInv
  <1>. QED BY InitIInv, NextIInv, PTL DEF Spec

(***************************************************************************)
(* Every variable keeps its type; in particular a stream's channel never   *)
(* holds more than its one slot.                                           *)
(***************************************************************************)
THEOREM TypeCorrect == Spec => []TypeOK
  <1>1. IInv => TypeOK
    BY DEF IInv
  <1>. QED BY <1>1, Invariance, PTL

(***************************************************************************)
(* Wait never closes outputChunks under a goroutine that can still send.   *)
(***************************************************************************)
THEOREM NoSendOnClosedOutput == Spec => []NoWriterAfterClose
  <1>1. IInv => NoWriterAfterClose
    <2>. SUFFICES ASSUME IInv, outClosed, NEW s \in Streams,
                         cpc[s] \in {"range", "send"}
                  PROVE  FALSE
      BY DEF NoWriterAfterClose
    <2>1. wg = {}
      BY DEF IInv, ClosedAfterWait
    <2>2. JobOf(s) \in Jobs /\ jpc[JobOf(s)] \in Running
      BY StreamTypes DEF IInv, ConsumersInsideRun, Running
    <2>3. JobOf(s) \in wg
      BY <2>2 DEF IInv, CountedWhileRunning
    <2>. QED BY <2>1, <2>3
  <1>. QED BY <1>1, Invariance, PTL

(***************************************************************************)
(* A job that runs holds a slot of its semaphore and is waited for.        *)
(***************************************************************************)
THEOREM SlotsHeld == Spec => []RunningHoldsSlot
  <1>1. IInv => RunningHoldsSlot
    BY DEF IInv, RunningHoldsSlot, CountedWhileRunning, Running
  <1>. QED BY <1>1, Invariance, PTL

(***************************************************************************)
(* When Done is closed the job has ended, has given its slot back, and     *)
(* none of its chunking goroutines is left.                                *)
(***************************************************************************)
THEOREM DoneIsQuiet == Spec => []DoneMeansQuiet
  <1>1. IInv => DoneMeansQuiet
    <2>. SUFFICES ASSUME IInv, NEW j \in Jobs, doneCh[j], jpc[j] # "rejected"
                  PROVE  /\ metrics[j].ended
                         /\ j \notin holders[Pool(j)] /\ j \notin wg
                         /\ \A s \in StreamsOf(j) : /\ ppc[s] \in {"idle", "done"}
                                                    /\ cpc[s] \in {"idle", "exit"}
      BY DEF DoneMeansQuiet
    <2>1. jpc[j] \in {"hookfinish", "eject", "exit"}
      BY DEF IInv, DoneAfterEnd
    <2>2. metrics[j].ended
      BY <2>1 DEF IInv, DoneAfterEnd
    <2>3. j \notin holders[Pool(j)] /\ j \notin wg
      BY <2>1 DEF IInv, CountedWhileRunning, Running
    <2>4. ASSUME NEW s \in StreamsOf(j)
          PROVE  ppc[s] \in {"idle", "done"} /\ cpc[s] \in {"idle", "exit"}
      <3>1. s \in Streams /\ JobOf(s) = j
        BY DEF StreamsOf
      <3>2. cpc[s] \in {"idle", "exit"}
        BY <2>1, <3>1 DEF IInv, TypeOK, TypeStreams, ConsumersInsideRun
      <3>3. ppc[s] \in {"idle", "done"}
        BY <3>1, <3>2 DEF IInv, TypeOK, TypeStreams, ProducersHaveConsumers
      <3>. QED BY <3>2, <3>3
    <2>. QED BY <2>2, <2>3, <2>4
  <1>. QED BY <1>1, Invariance, PTL

(***************************************************************************)
(* The source manager implements JobLifecycle: the initial states map to   *)
(* initial states, and every step to a step or to none.                    *)
(***************************************************************************)
Idle == {"new", "rejected", "acquire", "failed"}
Over == {"wgdone", "release", "finish", "hookfinish", "eject", "exit"}

\* Until Wait reads it, firstErr is set exactly when a run that is over caught
\* an error, and an enumerator that can fail is inside the run of its job.
ErrInv ==
  /\ client \in {"free", "acquire", "wait"} =>
       (firstErr <=> \E j \in Jobs : jpc[j] \in Over /\ runErr[j])
  /\ \A j \in Jobs : epc[j] \in {"enumerate", "write"} => jpc[j] \in {"units", "spawn"}
LifecycleInv == IInv /\ ErrInv

LEMMA PhaseCases ==
  ASSUME IInv, NEW j \in Jobs
  PROVE  /\ PhaseOf(j) = "idle" <=> jpc[j] \in Idle
         /\ PhaseOf(j) = "running" <=> j \in wg
         /\ jpc[j] \in Over /\ j \notin wg => PhaseOf(j) = IF runErr[j] THEN "failed" ELSE "succeeded"
         /\ PhaseOf(j) = "failed" <=> jpc[j] \in Over /\ j \notin wg /\ runErr[j]
         /\ j \in wg <=> jpc[j] \in Running
         /\ jpc[j] \in Idle \cup Running \cup Over
  BY DEF PhaseOf, IInv, TypeOK, TypeJobs, CountedWhileRunning, Running, Idle, Over

\* The jobs with work left are where their streams say.
LEMMA StreamsInsideRun ==
  ASSUME IInv, NEW s \in Streams
  PROVE  /\ cpc[s] \in {"range", "send", "eject"} =>
              jpc[JobOf(s)] \in {"units", "spawn", "drain"} /\ JobOf(s) \in wg
         /\ ppc[s] \in {"start", "produce", "write"} => jpc[JobOf(s)] \in {"units", "spawn", "drain"}
  BY StreamTypes DEF IInv, ConsumersInsideRun, ProducersHaveConsumers, CountedWhileRunning, Running

\* A step of one goroutine that neither begins nor ends a run is a stutter.
LEMMA QuietStep ==
  ASSUME LifecycleInv, IInv', UNCHANGED <<wg, sent, outClosed, waitErr, firstErr>>,
         client' \in {"free", "acquire", "wait"} => client \in {"free", "acquire", "wait"},
         \A j \in Jobs :
           /\ jpc'[j] \in Idle <=> jpc[j] \in Idle
           /\ jpc'[j] \in Over <=> jpc[j] \in Over
           /\ jpc[j] \in Over => runErr'[j] = runErr[j]
           /\ epc'[j] \in {"enumerate", "write"} => jpc'[j] \in {"units", "spawn"}
  PROVE  LifecycleInv' /\ UNCHANGED Lifecycle!vars
<1>1. ErrInv'
  BY DEF LifecycleInv, ErrInv
<1>2. ASSUME NEW j \in Jobs PROVE PhaseOf(j)' = PhaseOf(j)
  <2>1. /\ jpc'[j] \in Idle <=> jpc[j] \in Idle
        /\ jpc'[j] \in Over <=> jpc[j] \in Over
        /\ jpc[j] \in Over => runErr'[j] = runErr[j]
    OBVIOUS
  <2>2. jpc[j] \in Idle \cup Running \cup Over /\ (j \in wg <=> jpc[j] \in Running)
    BY PhaseCases DEF LifecycleInv
  <2>3. wg' = wg
    OBVIOUS
  <2> QED BY <2>1, <2>2, <2>3 DEF PhaseOf, Idle, Running, Over
<1>3. [j \in Jobs |-> PhaseOf(j)]' = [j \in Jobs |-> PhaseOf(j)]
  BY <1>2
<1> QED BY <1>1, <1>3 DEF LifecycleInv, Lifecycle!vars

\* The same with the variables only some of these steps change.
LEMMA StillStep ==
  ASSUME LifecycleInv, IInv', UNCHANGED <<wg, sent, outClosed, waitErr, firstErr>>,
         UNCHANGED <<client, jpc, epc, runErr>>
  PROVE  LifecycleInv' /\ UNCHANGED Lifecycle!vars
<1>1. \A j \in Jobs : epc[j] \in {"enumerate", "write"} => jpc[j] \in {"units", "spawn"}
  BY DEF LifecycleInv, ErrInv
<1> QED BY <1>1, QuietStep

LEMMA ClientLifecycle ==
  ASSUME LifecycleInv, IInv', NEW j \in Jobs,
         RunRejected(j) \/ RunAcquire(j) \/ RunAcquireFailed(j) \/ CancelRun(j)
  PROVE  LifecycleInv' /\ UNCHANGED Lifecycle!vars
<1>1. CASE CancelRun(j)
  BY <1>1, StillStep DEF CancelRun, mgrVars, outVars, enumVars, jobVars
<1>2. CASE RunRejected(j) \/ RunAcquire(j) \/ RunAcquireFailed(j)
  <2>1. UNCHANGED <<wg, sent, outClosed, waitErr, firstErr, epc, runErr>>
    BY <1>2 DEF RunRejected, RunAcquire, RunAcquireFailed, mgrVars, outVars, enumVars
  <2>2. client' = client \/ client \in {"free", "acquire"}
    BY <1>2 DEF RunRejected, RunAcquire, RunAcquireFailed, mgrVars
  <2>3. /\ jpc[j] \in Idle
        /\ \E to \in Idle : jpc' = [jpc EXCEPT ![j] = to]
    <3>1. CASE RunRejected(j)
      BY <3>1 DEF RunRejected, Idle
    <3>2. CASE RunAcquire(j)
      BY <3>2 DEF RunAcquire, Idle
    <3>3. CASE RunAcquireFailed(j)
      <4>1. jpc[j] = "acquire" /\ jpc' = [jpc EXCEPT ![j] = "failed"]
        BY <3>3 DEF RunAcquireFailed, LifecycleInv, IInv, AcquiringJob
      <4> QED BY <4>1 DEF Idle
    <3> QED BY <1>2, <3>1, <3>2, <3>3
  <2>4. jpc = [k \in Jobs |-> jpc[k]]
    BY DEF LifecycleInv, IInv, TypeOK, TypeJobs
  <2>5. ASSUME NEW k \in Jobs
        PROVE  /\ jpc'[k] \in Idle <=> jpc[k] \in Idle
               /\ jpc'[k] \in Over <=> jpc[k] \in Over
               /\ epc[k] \in {"enumerate", "write"} => jpc'[k] \in {"units", "spawn"}
    BY <2>3, <2>4 DEF Idle, Over, LifecycleInv, ErrInv
  <2> QED BY <2>1, <2>2, <2>5, QuietStep
<1> QED BY <1>1, <1>2

LEMMA JobLifecycleSteps ==
  ASSUME LifecycleInv, IInv', NEW j \in Jobs,
         \/ StartJob(j) \/ ReceiveUnit(j) \/ SpawnUnit(j) \/ UnitsExhausted(j)
         \/ ReleaseSem(j) \/ FinishDone(j) \/ FinishHook(j) \/ FinishEject(j)
  PROVE  LifecycleInv' /\ UNCHANGED Lifecycle!vars
<1>1. UNCHANGED <<wg, sent, outClosed, waitErr, firstErr, client, runErr>>
  <2>1. CASE StartJob(j) \/ ReceiveUnit(j) \/ SpawnUnit(j) \/ UnitsExhausted(j)
    BY <2>1 DEF StartJob, ReceiveUnit, SpawnUnit, UnitsExhausted, JobStep, outVars
  <2>2. CASE ReleaseSem(j) \/ FinishDone(j)
    BY <2>2 DEF ReleaseSem, FinishDone, JobStep, outVars
  <2>3. CASE FinishHook(j)
    BY <2>3 DEF FinishHook, JobStep, outVars
  <2>4. CASE FinishEject(j)
    BY <2>4 DEF FinishEject, JobStep, outVars
  <2> QED BY <2>1, <2>2, <2>3, <2>4
<1>2. jpc = [k \in Jobs |-> jpc[k]] /\ epc = [k \in Jobs |-> epc[k]]
  BY DEF LifecycleInv, IInv, TypeOK, TypeJobs, TypeEnum
<1>3. \A k \in Jobs : epc[k] \in {"enumerate", "write"} => jpc[k] \in {"units", "spawn"}
  BY DEF LifecycleInv, ErrInv
<1>4. CASE StartJob(j) \/ ReceiveUnit(j) \/ SpawnUnit(j) \/ UnitsExhausted(j)
  <2>1. \E from, to \in {"start", "units", "spawn", "drain"} :
          jpc[j] = from /\ jpc' = [jpc EXCEPT ![j] = to]
    BY <1>4 DEF StartJob, ReceiveUnit, SpawnUnit, UnitsExhausted, JobStep
  <2>2. ASSUME NEW k \in Jobs, epc'[k] \in {"enumerate", "write"} PROVE jpc'[k] \in {"units", "spawn"}
    <3>1. CASE StartJob(j)
      BY <1>2, <1>3, <2>2, <3>1 DEF StartJob, JobStep
    <3>2. CASE ReceiveUnit(j) \/ SpawnUnit(j)
      BY <1>2, <1>3, <2>2, <3>2 DEF ReceiveUnit, SpawnUnit, JobStep
    <3>3. CASE UnitsExhausted(j)
      BY <1>2, <1>3, <2>2, <3>3 DEF UnitsExhausted, JobStep
    <3> QED BY <1>4, <3>1, <3>2, <3>3
  <2>3. ASSUME NEW k \in Jobs
        PROVE  (jpc'[k] \in Idle <=> jpc[k] \in Idle) /\ (jpc'[k] \in Over <=> jpc[k] \in Over)
    BY <1>2, <2>1 DEF Idle, Over
  <2> QED BY <1>1, <2>2, <2>3, QuietStep
<1>5. CASE ReleaseSem(j) \/ FinishDone(j) \/ FinishHook(j) \/ FinishEject(j)
  <2>1. /\ jpc[j] \in Over /\ \E to \in Over : jpc' = [jpc EXCEPT ![j] = to]
        /\ UNCHANGED epc
    BY <1>5 DEF ReleaseSem, FinishDone, FinishHook, FinishEject, JobStep, Over
  <2>2. ASSUME NEW k \in Jobs
        PROVE  /\ jpc'[k] \in Idle <=> jpc[k] \in Idle
               /\ jpc'[k] \in Over <=> jpc[k] \in Over
               /\ epc'[k] \in {"enumerate", "write"} => jpc'[k] \in {"units", "spawn"}
    BY <1>2, <1>3, <2>1 DEF Idle, Over
  <2> QED BY <1>1, <2>2, QuietStep
<1> QED BY <1>4, <1>5

LEMMA EnumeratorLifecycle ==
  ASSUME LifecycleInv, IInv', NEW j \in Jobs,
         Enumerator(j) \/ UnitErr(j) \/ \E u \in Units : ReportUnit(j, u)
  PROVE  LifecycleInv' /\ UNCHANGED Lifecycle!vars
<1>1. UNCHANGED <<wg, sent, outClosed, waitErr, firstErr, client, jpc>>
  BY DEF Enumerator, WriteUnit, EnumerateReturned, EndEnumerating, UnitErr, ReportUnit, EnumStep,
     mgrVars, outVars, jobVars
<1>2. /\ epc = [k \in Jobs |-> epc[k]] /\ runErr \in [Jobs -> BOOLEAN]
      /\ \A k \in Jobs : epc[k] \in {"enumerate", "write"} => jpc[k] \in {"units", "spawn"}
  BY DEF LifecycleInv, ErrInv, IInv, TypeOK, TypeJobs, TypeEnum
<1>3. /\ \E to : epc' = [epc EXCEPT ![j] = to]
      /\ epc[j] \in {"enumerate", "write", "end"} /\ (epc[j] = "end" => epc'[j] = "exit")
      /\ runErr' = runErr \/ (runErr' = [runErr EXCEPT ![j] = TRUE] /\ epc[j] = "enumerate")
  <2>1. CASE EnumerateReturned(j)
    BY <1>2, <2>1 DEF EnumerateReturned
  <2>2. CASE WriteUnit(j) \/ EndEnumerating(j)
    BY <1>2, <2>2 DEF WriteUnit, EndEnumerating, EnumStep, jobVars
  <2>3. CASE UnitErr(j)
    BY <1>2, <2>3 DEF UnitErr, EnumStep, jobVars
  <2>4. CASE \E u \in Units : ReportUnit(j, u)
    BY <1>2, <2>4 DEF ReportUnit, EnumStep, jobVars
  <2> QED BY <2>1, <2>2, <2>3, <2>4 DEF Enumerator
<1>4. ASSUME NEW k \in Jobs
      PROVE  /\ epc'[k] \in {"enumerate", "write"} => jpc[k] \in {"units", "spawn"}
             /\ jpc[k] \in Over => runErr'[k] = runErr[k]
  BY <1>2, <1>3 DEF Over
<1> QED BY <1>1, <1>4, QuietStep

\* A source that fails does so inside the run of its job.
LEMMA ProducerLifecycle ==
  ASSUME LifecycleInv, IInv', NEW s \in Streams,
         Producer(s) \/ ChunkReported(s) \/ ChunkErr(s) \/ ChunksWrite(s)
  PROVE  LifecycleInv' /\ UNCHANGED Lifecycle!vars
<1>1. UNCHANGED <<wg, sent, outClosed, waitErr, firstErr, client, jpc, epc>>
  BY DEF Producer, StartUnitChunking, ChunkWritten, ChunkUnitReturned, ChunksReturned, ChunkReported,
     ChunkErr, ChunksWrite, ProducerStep, mgrVars, outVars, enumVars
<1>2. CASE UNCHANGED runErr
  BY <1>1, <1>2, StillStep
<1>3. CASE ChunkUnitReturned(s) \/ ChunksReturned(s)
  <2>1. /\ ppc[s] = "produce"
        /\ runErr' = runErr \/ runErr' = [runErr EXCEPT ![JobOf(s)] = TRUE]
    BY <1>3, JobStreamTypes DEF ChunkUnitReturned, ChunksReturned, ProducerStep
  <2>2. jpc[JobOf(s)] \notin Over
    BY <2>1, StreamsInsideRun DEF LifecycleInv, Over
  <2>3. ASSUME NEW k \in Jobs, jpc[k] \in Over PROVE runErr'[k] = runErr[k]
    BY <2>1, <2>2, <2>3 DEF LifecycleInv, IInv, TypeOK, TypeJobs
  <2>4. \A k \in Jobs : epc[k] \in {"enumerate", "write"} => jpc[k] \in {"units", "spawn"}
    BY DEF LifecycleInv, ErrInv
  <2> QED BY <1>1, <2>3, <2>4, QuietStep
<1> QED BY <1>2, <1>3 DEF Producer, StartUnitChunking, ChunkWritten, ChunkReported, ChunkErr, ChunksWrite

LEMMA OtherLifecycle ==
  ASSUME LifecycleInv, IInv',
         \/ \E s \in Streams : ConsumerReceives(s) \/ ConsumerEnds(s) \/ ConsumerEjects(s)
         \/ \E n \in Limits : SetMaxConcurrentSources(n)
         \/ ScanChunk \/ WaitCalled \/ HooksClosed \/ ParentCancelled \/ ScanWorker \/ ReportWriter
         \/ UNCHANGED vars
  PROVE  LifecycleInv' /\ UNCHANGED Lifecycle!vars
<1>1. /\ UNCHANGED <<wg, sent, outClosed, waitErr, firstErr, jpc, epc, runErr>>
      /\ client' = client \/ (client = "free" /\ client' = "wait") \/ client' = "done"
  <2>1. CASE \E s \in Streams : ConsumerReceives(s) \/ ConsumerEnds(s)
    BY <2>1 DEF ConsumerReceives, ConsumerEnds, ConsumerStep, mgrVars, enumVars, jobVars
  <2>2. CASE \E s \in Streams : ConsumerEjects(s)
    BY <2>2 DEF ConsumerEjects, ConsumerStep, mgrVars, enumVars, jobVars
  <2>3. CASE \E n \in Limits : SetMaxConcurrentSources(n)
    BY <2>3 DEF SetMaxConcurrentSources, outVars, enumVars, jobVars
  <2>4. CASE ScanChunk \/ WaitCalled \/ HooksClosed
    BY <2>4 DEF ScanChunk, WaitCalled, HooksClosed, mgrVars, outVars, enumVars, jobVars
  <2>5. CASE ParentCancelled \/ ScanWorker \/ ReportWriter
    BY <2>5 DEF ParentCancelled, ScanWorker, ReportWriter, mgrVars, outVars, enumVars, jobVars
  <2>6. CASE UNCHANGED vars
    BY <2>6 DEF vars, mgrVars, outVars, enumVars, jobVars
  <2> QED BY <2>1, <2>2, <2>3, <2>4, <2>5, <2>6
<1>2. \A j \in Jobs : epc[j] \in {"enumerate", "write"} => jpc[j] \in {"units", "spawn"}
  BY DEF LifecycleInv, ErrInv
<1> QED BY <1>1, <1>2, QuietStep

\* Run starts the goroutine of a job: the client is not in Wait, so the stream is open.
LEMMA RunAcquiredBegins ==
  ASSUME LifecycleInv, IInv', NEW j \in Jobs, RunAcquired(j)
  PROVE  LifecycleInv' /\ Lifecycle!Begin(j)
<1>1. /\ client = "acquire" /\ jpc[j] = "acquire" /\ jpc' = [jpc EXCEPT ![j] = "start"]
      /\ UNCHANGED <<sent, outClosed, waitErr, firstErr, epc, runErr>>
      /\ wg' = wg \cup {j} /\ client' = "free"
  BY DEF RunAcquired, LifecycleInv, IInv, AcquiringJob, outVars, enumVars
<1>2. jpc = [k \in Jobs |-> jpc[k]] /\ ~outClosed
  BY <1>1 DEF LifecycleInv, IInv, TypeOK, TypeJobs, TypeOutput, ClosedAfterWait
<1>3. ErrInv'
  <2>1. ASSUME NEW k \in Jobs
        PROVE  /\ jpc'[k] \in Over <=> jpc[k] \in Over
               /\ epc[k] \in {"enumerate", "write"} => jpc'[k] \in {"units", "spawn"}
    BY <1>1, <1>2 DEF Over, LifecycleInv, ErrInv
  <2> QED BY <1>1, <2>1 DEF LifecycleInv, ErrInv
<1>4. /\ PhaseOf(j) = "idle" /\ PhaseOf(j)' = "running"
      /\ \A k \in Jobs \ {j} : PhaseOf(k)' = PhaseOf(k)
  <2>1. PhaseOf(j) = "idle"
    BY <1>1, PhaseCases DEF LifecycleInv, Idle
  <2>2. PhaseOf(j)' = "running"
    BY <1>1, <1>2 DEF PhaseOf
  <2>3. ASSUME NEW k \in Jobs \ {j} PROVE PhaseOf(k)' = PhaseOf(k)
    <3>1. jpc'[k] = jpc[k] /\ (k \in wg' <=> k \in wg) /\ runErr'[k] = runErr[k]
      BY <1>1, <1>2, <2>3
    <3> QED BY <3>1 DEF PhaseOf
  <2> QED BY <2>1, <2>2, <2>3
<1>5. [k \in Jobs |-> PhaseOf(k)]' = [[k \in Jobs |-> PhaseOf(k)] EXCEPT ![j] = "running"]
  BY <1>4
<1> QED BY <1>1, <1>2, <1>3, <1>4, <1>5 DEF LifecycleInv, Lifecycle!Begin

\* run returns: its error is in firstErr, and the job still in the WaitGroup.
LEMMA EndRunLifecycle ==
  ASSUME LifecycleInv, IInv', NEW j \in Jobs, EndRun(j)
  PROVE  LifecycleInv' /\ UNCHANGED Lifecycle!vars
<1>1. /\ jpc[j] = "drain" /\ jpc' = [jpc EXCEPT ![j] = "wgdone"] /\ firstErr' = (firstErr \/ runErr[j])
      /\ UNCHANGED <<wg, sent, outClosed, waitErr, epc, runErr, client>>
  BY DEF EndRun, JobStep, outVars
<1>2. jpc = [k \in Jobs |-> jpc[k]]
  BY DEF LifecycleInv, IInv, TypeOK, TypeJobs
<1>3. ErrInv'
  <2>1. ASSUME NEW k \in Jobs
        PROVE  /\ jpc'[k] \in Over <=> jpc[k] \in Over \/ k = j
               /\ epc[k] \in {"enumerate", "write"} => jpc'[k] \in {"units", "spawn"}
    BY <1>1, <1>2 DEF Over, LifecycleInv, ErrInv
  <2>2. (\E k \in Jobs : jpc'[k] \in Over /\ runErr[k])
          <=> (\E k \in Jobs : jpc[k] \in Over /\ runErr[k]) \/ runErr[j]
    BY <2>1
  <2> QED BY <1>1, <2>1, <2>2 DEF LifecycleInv, ErrInv
<1>4. ASSUME NEW k \in Jobs PROVE PhaseOf(k)' = PhaseOf(k)
  <2>1. CASE k = j
    BY <1>1, <1>2, <2>1, PhaseCases DEF LifecycleInv, PhaseOf, Running
  <2>2. CASE k # j
    BY <1>1, <1>2, <2>2 DEF PhaseOf
  <2> QED BY <2>1, <2>2
<1>5. [k \in Jobs |-> PhaseOf(k)]' = [k \in Jobs |-> PhaseOf(k)]
  BY <1>4
<1> QED BY <1>1, <1>3, <1>5 DEF LifecycleInv, Lifecycle!vars

\* wg.Done completes the job.
LEMMA WgDoneCompletes ==
  ASSUME LifecycleInv, IInv', NEW j \in Jobs, WgDone(j)
  PROVE  LifecycleInv' /\ \E how \in {"succeeded", "failed"} : Lifecycle!Complete(j, how)
<1>1. /\ jpc[j] = "wgdone" /\ jpc' = [jpc EXCEPT ![j] = "release"] /\ wg' = wg \ {j}
      /\ UNCHANGED <<firstErr, sent, outClosed, waitErr, epc, runErr, client>>
  BY DEF WgDone, JobStep, outVars
<1>2. jpc = [k \in Jobs |-> jpc[k]]
  BY DEF LifecycleInv, IInv, TypeOK, TypeJobs
<1>3. ErrInv'
  <2>1. ASSUME NEW k \in Jobs
        PROVE  /\ jpc'[k] \in Over <=> jpc[k] \in Over
               /\ epc[k] \in {"enumerate", "write"} => jpc'[k] \in {"units", "spawn"}
    BY <1>1, <1>2 DEF Over, LifecycleInv, ErrInv
  <2> QED BY <1>1, <2>1 DEF LifecycleInv, ErrInv
<1> DEFINE how == IF runErr[j] THEN "failed" ELSE "succeeded"
<1>4. /\ PhaseOf(j) = "running" /\ PhaseOf(j)' = how
      /\ \A k \in Jobs \ {j} : PhaseOf(k)' = PhaseOf(k)
  <2>1. PhaseOf(j) = "running"
    BY <1>1, PhaseCases DEF LifecycleInv, Running
  <2>2. PhaseOf(j)' = how
    BY <1>1, <1>2 DEF PhaseOf
  <2>3. ASSUME NEW k \in Jobs \ {j} PROVE PhaseOf(k)' = PhaseOf(k)
    <3>1. jpc'[k] = jpc[k] /\ (k \in wg' <=> k \in wg) /\ runErr'[k] = runErr[k]
      BY <1>1, <1>2, <2>3
    <3> QED BY <3>1 DEF PhaseOf
  <2> QED BY <2>1, <2>2, <2>3
<1>5. [k \in Jobs |-> PhaseOf(k)]' = [[k \in Jobs |-> PhaseOf(k)] EXCEPT ![j] = how]
  BY <1>4
<1>6. how \in {"succeeded", "failed"}
  OBVIOUS
<1> QED BY <1>1, <1>3, <1>4, <1>5, <1>6 DEF LifecycleInv, Lifecycle!Complete

\* A consumer delivers for a job that runs; the stream is open.
LEMMA ConsumerSendsDelivers ==
  ASSUME LifecycleInv, IInv', NEW s \in Streams, ConsumerSends(s)
  PROVE  LifecycleInv' /\ Lifecycle!Deliver(s)
<1>1. /\ cpc[s] = "send"
      /\ UNCHANGED <<wg, firstErr, outClosed, waitErr, client, jpc, epc, runErr>>
  BY DEF ConsumerSends, ConsumerStep, mgrVars, enumVars, jobVars
<1>2. JobOf(s) \in wg /\ JobOf(s) \in Jobs
  BY <1>1, StreamsInsideRun, StreamTypes DEF LifecycleInv
<1>3. ~outClosed
  BY <1>2 DEF LifecycleInv, IInv, ClosedAfterWait
<1>4. sent' = [sent EXCEPT ![s] = @ + 1]
  BY <1>3 DEF ConsumerSends
<1>5. ErrInv'
  BY <1>1 DEF LifecycleInv, ErrInv
<1>6. PhaseOf(JobOf(s)) = "running"
  BY <1>2, PhaseCases DEF LifecycleInv
<1>7. [k \in Jobs |-> PhaseOf(k)]' = [k \in Jobs |-> PhaseOf(k)]
  BY <1>1 DEF PhaseOf
<1> QED BY <1>1, <1>2, <1>4, <1>5, <1>6, <1>7 DEF LifecycleInv, Lifecycle!Deliver

\* Wait returns with an error exactly when a job failed.
LEMMA WaitReturnedCloses ==
  ASSUME LifecycleInv, IInv', WaitReturned
  PROVE  LifecycleInv' /\ Lifecycle!Close
<1>1. /\ client = "wait" /\ wg = {} /\ client' = "closehooks" /\ waitErr' = firstErr
      /\ outClosed' = TRUE /\ UNCHANGED <<wg, sent, jpc, epc, runErr>>
  BY DEF WaitReturned, enumVars, jobVars
<1>2. ~outClosed
  BY <1>1 DEF LifecycleInv, IInv, ClosedAfterWait, TypeOK, TypeOutput
<1>3. ErrInv'
  BY <1>1 DEF LifecycleInv, ErrInv
<1>4. ASSUME NEW j \in Jobs
      PROVE  PhaseOf(j) # "running" /\ (PhaseOf(j) = "failed" <=> jpc[j] \in Over /\ runErr[j])
  BY <1>1, PhaseCases DEF LifecycleInv
<1>5. waitErr' = (\E j \in Jobs : PhaseOf(j) = "failed")
  <2>1. firstErr <=> \E j \in Jobs : jpc[j] \in Over /\ runErr[j]
    BY <1>1 DEF LifecycleInv, ErrInv
  <2>2. firstErr \in BOOLEAN
    BY DEF LifecycleInv, IInv, TypeOK, TypeManager
  <2> QED BY <1>1, <1>4, <2>1, <2>2
<1>6. [k \in Jobs |-> PhaseOf(k)]' = [k \in Jobs |-> PhaseOf(k)]
  BY <1>1 DEF PhaseOf
<1> QED BY <1>1, <1>2, <1>3, <1>4, <1>5, <1>6 DEF LifecycleInv, Lifecycle!Close

LEMMA StepLifecycle ==
  ASSUME LifecycleInv, [Next]_vars
  PROVE  LifecycleInv' /\ [Lifecycle!Next]_Lifecycle!vars
<1>0. IInv'
  BY NextIInv DEF LifecycleInv
<1>1. ASSUME NEW j \in Jobs, RunAcquired(j) PROVE LifecycleInv' /\ Lifecycle!Next
  BY <1>0, <1>1, RunAcquiredBegins DEF Lifecycle!Next
<1>2. ASSUME NEW j \in Jobs, WgDone(j) PROVE LifecycleInv' /\ Lifecycle!Next
  BY <1>0, <1>2, WgDoneCompletes DEF Lifecycle!Next
<1>3. ASSUME NEW s \in Streams, ConsumerSends(s) PROVE LifecycleInv' /\ Lifecycle!Next
  BY <1>0, <1>3, ConsumerSendsDelivers DEF Lifecycle!Next
<1>4. ASSUME WaitReturned PROVE LifecycleInv' /\ Lifecycle!Next
  BY <1>0, <1>4, WaitReturnedCloses DEF Lifecycle!Next
<1>5. ASSUME NEW j \in Jobs,
             \/ ClientStep(j) \/ Acquiring(j) \/ CancelRun(j)
             \/ JobGoroutine(j) \/ Enumerator(j) \/ UnitErr(j)
             \/ \E u \in Units : ReportUnit(j, u)
      PROVE  LifecycleInv' /\ [Lifecycle!Next]_Lifecycle!vars
  BY <1>0, <1>1, <1>2, <1>5, ClientLifecycle, JobLifecycleSteps, EndRunLifecycle, EnumeratorLifecycle
     DEF ClientStep, Acquiring, JobGoroutine
<1>6. ASSUME NEW s \in Streams,
             \/ Producer(s) \/ Consumer(s)
             \/ ChunkReported(s) \/ ChunkErr(s) \/ ChunksWrite(s)
      PROVE  LifecycleInv' /\ [Lifecycle!Next]_Lifecycle!vars
  BY <1>0, <1>3, <1>6, ProducerLifecycle, OtherLifecycle DEF Consumer
<1>7. CASE \/ \E n \in Limits : SetMaxConcurrentSources(n)
           \/ ScanChunk \/ WaitCalled \/ Waiting \/ ParentCancelled
           \/ ScanWorker \/ ReportWriter \/ UNCHANGED vars
  BY <1>0, <1>4, <1>7, OtherLifecycle DEF Waiting
<1> QED BY <1>5, <1>6, <1>7 DEF Next, Step, Terminated

LEMMA InitLifecycle == Init => LifecycleInv /\ Lifecycle!Init
<1> SUFFICES ASSUME Init PROVE LifecycleInv /\ Lifecycle!Init
  OBVIOUS
<1>1. ErrInv
  BY DEF Init, ErrInv, Over
<1>2. [j \in Jobs |-> PhaseOf(j)] = [j \in Jobs |-> "idle"]
  BY DEF Init, PhaseOf
<1> QED BY <1>1, <1>2, InitIInv DEF Init, LifecycleInv, Lifecycle!Init

(***************************************************************************)
(* The manager implements JobLifecycle, for any jobs, units, limits and    *)
(* capacities: chunks are delivered only while their job runs, the stream  *)
(* is closed when no job runs and none starts any more, and the error that *)
(* Wait returns says whether a job failed.                                 *)
(***************************************************************************)
THEOREM ImplementsLifecycle == Spec => LifecycleSpec
<1> QED BY InitLifecycle, StepLifecycle, PTL DEF Spec, LifecycleSpec, Lifecycle!Spec

----------------------------------------------------------------------------
(***************************************************************************)
(* Nothing a job produces is lost without an error, what a Snapshot shows  *)
(* never runs ahead, and the unit hook reports each unit exactly once.     *)
(***************************************************************************)

(***************************************************************************)
(* AccountInv.  Most steps leave every count alone (KeepsAccounts); one     *)
(* lemma says that such a step preserves the invariant, and every other     *)
(* step has a lemma of its own.                                             *)
(***************************************************************************)
InUnits == {"units", "spawn"}
Gone == {"idle", "eject", "exit"}
SameCounters(j) ==
  /\ metrics'[j].totalUnits = metrics[j].totalUnits
  /\ metrics'[j].finishedUnits = metrics[j].finishedUnits
  /\ metrics'[j].totalChunks = metrics[j].totalChunks
\* A step that neither finds, passes on nor finishes a unit or a chunk.
KeepsAccounts ==
  /\ UNCHANGED <<sent, ch, produced, reported, eunit, unitCh, jspawn>>
  /\ \A s \in Streams :
       /\ cpc'[s] = "send" <=> cpc[s] = "send"
       /\ ppc'[s] = "write" <=> ppc[s] = "write"
       /\ cpc'[s] \in Gone => cpc[s] \in Gone
  /\ \A u \in Units : /\ cpc'[u] = "idle" <=> cpc[u] = "idle"
                      /\ cpc'[u] \in {"eject", "exit"} <=> cpc[u] \in {"eject", "exit"}
  /\ \A j \in Jobs : /\ SameCounters(j)
                     /\ MayDrop(j) => MayDrop(j)'
                     /\ jpc'[j] = "spawn" <=> jpc[j] = "spawn"
                     /\ epc'[j] = "write" <=> epc[j] = "write"
                     /\ unitCh[j] # None => jpc'[j] \in InUnits
                     /\ epc'[j] \in {"enumerate", "write"} => jpc'[j] \in InUnits

\* A unit is a stream of a job, and not the nil unit.
LEMMA UnitTypes ==
  ASSUME NEW u \in Units
  PROVE  u \in Streams /\ UnitJob[u] \in Jobs /\ JobOf(u) = UnitJob[u] /\ u # None
  BY ConstantsAssumption DEF Streams, JobOf

\* The sets the counters of a job are compared with are finite.
LEMMA FiniteStreams ==
  /\ IsFiniteSet(Streams) /\ IsFiniteSet(Units)
  /\ \A j : IsFiniteSet(StreamsOf(j)) /\ IsFiniteSet(UnitsChunked(j))
  <1>1. IsFiniteSet(Units \cup Jobs) /\ IsFiniteSet(Units)
    BY ConstantsAssumption, FS_Union
  <1>2. ASSUME NEW j PROVE StreamsOf(j) \in SUBSET (Units \cup Jobs) /\ UnitsChunked(j) \in SUBSET Units
    BY DEF StreamsOf, UnitsChunked, Streams
  <1>. QED BY <1>1, <1>2, FS_Subset DEF Streams

\* A step that moves no unit and no chunk preserves every account.
LEMMA KeepsAccountsStep ==
  ASSUME AccountInv, IInv', KeepsAccounts
  PROVE  AccountInv'
  <1>1. CountersExact'
    <2>1. ASSUME NEW j \in Jobs PROVE UnitsFound(j)' = UnitsFound(j) /\ UnitsChunked(j)' = UnitsChunked(j)
      BY DEF UnitsFound, UnitsChunked, KeepsAccounts
    <2>2. Counted' = Counted
      BY DEF Counted, KeepsAccounts, Sending
    <2>3. \A j \in Jobs : SameCounters(j)
      BY DEF KeepsAccounts
    <2>. QED BY <2>1, <2>2, <2>3 DEF CountersExact, AccountInv, SameCounters
  <1>2. ChunksConserved'
    <2>1. ASSUME NEW s \in Streams PROVE Held(s)' = Held(s)
      BY DEF Held, KeepsAccounts, Sending
    <2>2. \A s \in Streams : MayDrop(JobOf(s)) => MayDrop(JobOf(s))'
      BY StreamTypes DEF KeepsAccounts
    <2>. QED BY <2>1, <2>2 DEF ChunksConserved, AccountInv, KeepsAccounts, Gone
  <1>3. UnitsConserved'
    <2>1. ASSUME NEW u \in Units PROVE OnTheWay(u)' = OnTheWay(u)
      BY DEF OnTheWay, KeepsAccounts
    <2>2. \A u \in Units : MayDrop(UnitJob[u]) => MayDrop(UnitJob[u])'
      BY UnitTypes DEF KeepsAccounts
    <2>. QED BY <2>1, <2>2 DEF UnitsConserved, AccountInv, KeepsAccounts
  <1>4. OnePlace'
    BY DEF OnePlace, AccountInv, KeepsAccounts, InUnits
  <1>. QED BY <1>1, <1>2, <1>3, <1>4 DEF AccountInv

\* Once a job may drop, it may as long as its errors and its context stay and
\* its run has not ended.
LEMMA MayDropStable ==
  ASSUME NEW j \in Jobs, metrics[j].errors \subseteq metrics'[j].errors,
         CtxDone(j) => CtxDone(j)',
         jpc[j] \in {"units", "spawn", "drain"} /\ CtxDone(j) =>
           jpc'[j] \in {"units", "spawn", "drain"} \/ Fatal(j)'
  PROVE  MayDrop(j) => MayDrop(j)'
  BY DEF MayDrop, Fatal

\* Recording an error changes no counter.
LEMMA ReportErrorAccounts ==
  ASSUME TypeProgress, NEW j \in Jobs, NEW e, ReportError(j, e)
  PROVE  \A k \in Jobs : SameCounters(k) /\ metrics[k].errors \subseteq metrics'[k].errors
  BY DEF ReportError, TypeProgress, JobProgressMetrics, SameCounters

\* Unchanged metrics leave the counters of each job alone.
LEMMA SameProgress ==
  ASSUME UNCHANGED metrics
  PROVE  \A k \in Jobs : SameCounters(k) /\ metrics[k].errors \subseteq metrics'[k].errors
  BY DEF SameCounters

\* The contexts are as they were.
LEMMA SameCtx ==
  ASSUME UNCHANGED <<ctxDone, cancelled>>
  PROVE  \A j : CtxDone(j)' = CtxDone(j)
  BY DEF CtxDone

\* Steps of the client thread.
LEMMA ClientAccounts ==
  ASSUME AccountInv, IInv', NEW j \in Jobs, ClientStep(j) \/ Acquiring(j) \/ CancelRun(j)
  PROVE  AccountInv'
  <1>1. UNCHANGED <<sent, ch, produced, reported, eunit, unitCh, jspawn, cpc, ppc, epc>>
    BY DEF ClientStep, Acquiring, RunRejected, RunAcquire, RunAcquired, RunAcquireFailed, CancelRun,
           outVars, streamVars, enumVars, jobVars
  <1>2. \A k \in Jobs : SameCounters(k) /\ metrics[k].errors \subseteq metrics'[k].errors
    <2>1. CASE RunAcquireFailed(j)
      BY <2>1, ReportErrorAccounts DEF RunAcquireFailed, AccountInv, IInv, TypeOK
    <2>2. CASE ~RunAcquireFailed(j)
      BY <2>2, SameProgress DEF ClientStep, Acquiring, RunRejected, RunAcquire, RunAcquired, CancelRun, progVars
    <2>. QED BY <2>1, <2>2
  <1>3. \A k : CtxDone(k) => CtxDone(k)'
    BY DEF ClientStep, Acquiring, RunRejected, RunAcquire, RunAcquired, RunAcquireFailed, CancelRun,
           ctlVars, CtxDone
  <1>4. ASSUME NEW k \in Jobs
        PROVE  \/ jpc'[k] = jpc[k]
               \/ {jpc[k], jpc'[k]} \cap {"units", "spawn", "drain"} = {}
    BY DEF ClientStep, Acquiring, RunRejected, RunAcquire, RunAcquired, RunAcquireFailed, CancelRun,
           AccountInv, IInv, AcquiringJob, TypeOK, TypeJobs, jobVars
  <1>5. KeepsAccounts
    <2>1. \A k \in Jobs : MayDrop(k) => MayDrop(k)'
      BY <1>2, <1>3, <1>4, MayDropStable
    <2>. QED BY <1>1, <1>2, <1>4, <2>1 DEF KeepsAccounts, AccountInv, OnePlace, InUnits
  <1>. QED BY <1>5, KeepsAccountsStep

\* Steps of a job's goroutine that do not touch units or streams.
LEMMA QuietJobAccounts ==
  ASSUME AccountInv, IInv', NEW j \in Jobs,
         \/ UnitsExhausted(j) \/ EndRun(j) \/ WgDone(j) \/ ReleaseSem(j)
         \/ FinishDone(j) \/ FinishHook(j) \/ FinishEject(j)
  PROVE  AccountInv'
  <1>. USE DEF UnitsExhausted, EndRun, WgDone, ReleaseSem, FinishDone, FinishHook, FinishEject, JobStep
  <1>1. UNCHANGED <<sent, ch, produced, reported, eunit, unitCh, jspawn, cpc, ppc, epc, ctxDone, cancelled>>
    BY DEF outVars, ctlVars
  <1>2. \A k \in Jobs : SameCounters(k) /\ metrics[k].errors \subseteq metrics'[k].errors
    <2>1. CASE EndRun(j)
      BY <2>1 DEF SameCounters, AccountInv, IInv, TypeOK, TypeProgress, JobProgressMetrics
    <2>2. CASE ~EndRun(j)
      <3>1. UNCHANGED metrics
        BY <2>2 DEF progVars
      <3>2. QED BY <3>1, SameProgress
    <2>. QED BY <2>1, <2>2
  <1>3. \A k : CtxDone(k) => CtxDone(k)'
    BY <1>1, SameCtx
  <1>4. ASSUME NEW k \in Jobs
        PROVE  /\ k # j => jpc'[k] = jpc[k]
               /\ jpc'[j] # "spawn" /\ jpc[j] # "spawn"
               /\ unitCh[k] # None \/ epc[k] \in {"enumerate", "write"} => k # j
    BY <1>1 DEF AccountInv, IInv, TypeOK, TypeJobs, OnePlace
  <1>5. jpc[j] \in {"units", "spawn", "drain"} /\ CtxDone(j) =>
           jpc'[j] \in {"units", "spawn", "drain"} \/ Fatal(j)'
    <2>1. CASE EndRun(j)
      <3>1. SUFFICES ASSUME CtxDone(j) PROVE Fatal(j)'
        OBVIOUS
      <3>2. [fatal |-> TRUE, unit |-> None] \in metrics'[j].errors
        BY <2>1, <3>1 DEF AccountInv, IInv, TypeOK, TypeProgress, JobProgressMetrics
      <3>. QED BY <3>2 DEF Fatal
    <2>2. CASE ~EndRun(j)
      BY <2>2 DEF AccountInv, IInv, TypeOK, TypeJobs
    <2>. QED BY <2>1, <2>2
  <1>6. KeepsAccounts
    <2>1. \A k \in Jobs : MayDrop(k) => MayDrop(k)'
      BY <1>2, <1>3, <1>4, <1>5, MayDropStable
    <2>. QED BY <1>1, <1>2, <1>4, <2>1 DEF KeepsAccounts, AccountInv, OnePlace, InUnits
  <1>. QED BY <1>6, KeepsAccountsStep

\* Starting a job starts its own stream, which has nothing to send yet.
LEMMA StartJobAccounts ==
  ASSUME AccountInv, IInv', NEW j \in Jobs, StartJob(j)
  PROVE  AccountInv'
  <1>. USE DEF StartJob, JobStep
  <1>1. UNCHANGED <<sent, ch, produced, reported, eunit, unitCh, jspawn, ctxDone, cancelled>>
    BY DEF outVars, ctlVars
  <1>2. \A k \in Jobs : SameCounters(k) /\ metrics[k].errors \subseteq metrics'[k].errors
    BY DEF SameCounters, AccountInv, IInv, TypeOK, TypeProgress, JobProgressMetrics
  <1>3. \A k : CtxDone(k) => CtxDone(k)'
    BY <1>1, SameCtx
  <1>4. /\ jpc[j] = "start" /\ jpc'[j] = (IF j \in UnitJobs THEN "units" ELSE "drain")
        /\ \A k \in Jobs : k # j => jpc'[k] = jpc[k] /\ epc'[k] = epc[k]
        /\ epc'[j] = (IF j \in UnitJobs THEN "enumerate" ELSE epc[j])
        /\ unitCh[j] = None /\ epc[j] \notin {"enumerate", "write"}
    BY DEF AccountInv, IInv, TypeOK, TypeJobs, TypeEnum, OnePlace
  <1>5. cpc[j] \in {"idle", "exit"} /\ ppc[j] \in {"idle", "done"}
    <2>1. j \in Streams /\ JobOf(j) = j
      BY JobStreamTypes
    <2>2. cpc[j] \in {"idle", "exit"}
      BY <1>4, <2>1 DEF AccountInv, IInv, TypeOK, TypeStreams, ConsumersInsideRun
    <2>. QED BY <2>1, <2>2 DEF AccountInv, IInv, TypeOK, TypeStreams, ProducersHaveConsumers
  <1>6. /\ \A s \in Streams : s # j => cpc'[s] = cpc[s] /\ ppc'[s] = ppc[s]
        /\ cpc'[j] \in {cpc[j], "range"} /\ ppc'[j] \in {ppc[j], "produce"}
    BY JobStreamTypes DEF AccountInv, IInv, TypeOK, TypeStreams
  <1>7. KeepsAccounts
    <2>1. \A k \in Jobs : MayDrop(k) => MayDrop(k)'
      BY <1>2, <1>3, <1>4, MayDropStable
    <2>2. j \notin Units
      BY ConstantsAssumption
    <2>3. \A s \in Streams : /\ cpc'[s] = "send" <=> cpc[s] = "send"
                             /\ ppc'[s] = "write" <=> ppc[s] = "write"
                             /\ cpc'[s] \in Gone => cpc[s] \in Gone
      BY <1>5, <1>6 DEF Gone
    <2>4. \A u \in Units : cpc'[u] = cpc[u]
      BY <1>6, <2>2, UnitTypes
    <2>. QED BY <1>1, <1>2, <1>4, <2>1, <2>3, <2>4 DEF KeepsAccounts, AccountInv, OnePlace, InUnits
  <1>. QED BY <1>7, KeepsAccountsStep

\* Steps of the enumerator that report no unit.
LEMMA QuietEnumAccounts ==
  ASSUME AccountInv, IInv', NEW j \in Jobs, UnitErr(j) \/ EnumerateReturned(j) \/ EndEnumerating(j)
  PROVE  AccountInv'
  <1>. USE DEF UnitErr, EnumerateReturned, EndEnumerating, EnumStep
  <1>1. UNCHANGED <<sent, ch, produced, reported, eunit, unitCh, jspawn, jpc, cpc, ppc, ctxDone, cancelled>>
    BY DEF outVars, ctlVars, jobVars, streamVars
  <1>2. \A k \in Jobs : SameCounters(k) /\ metrics[k].errors \subseteq metrics'[k].errors
    <2>. USE DEF AccountInv, IInv, TypeOK
    <2>1. CASE UnitErr(j) \/ EnumerateReturned(j)
      BY <2>1, ReportErrorAccounts, SameProgress
    <2>2. CASE EndEnumerating(j)
      BY <2>2 DEF SameCounters, TypeProgress, JobProgressMetrics
    <2>. QED BY <2>1, <2>2
  <1>3. /\ \A k \in Jobs : k # j => epc'[k] = epc[k]
        /\ epc'[j] \in {epc[j], "end", "exit"} /\ epc[j] # "write"
    BY DEF AccountInv, IInv, TypeOK, TypeEnum
  <1>4. KeepsAccounts
    <2>1. \A k \in Jobs : MayDrop(k) => MayDrop(k)'
      BY <1>1, <1>2, SameCtx, MayDropStable
    <2>. QED BY <1>1, <1>2, <1>3, <2>1 DEF KeepsAccounts, AccountInv, OnePlace, InUnits
  <1>. QED BY <1>4, KeepsAccountsStep

\* Steps of the goroutines of a stream that move no chunk.
LEMMA QuietStreamAccounts ==
  ASSUME AccountInv, IInv', NEW s \in Streams,
         \/ StartUnitChunking(s) \/ ChunkErr(s) \/ ChunkUnitReturned(s) \/ ChunksReturned(s)
         \/ ConsumerEjects(s)
  PROVE  AccountInv'
  <1>. USE DEF StartUnitChunking, ChunkErr, ChunkUnitReturned, ChunksReturned, ConsumerEjects,
               ProducerStep, ConsumerStep
  <1>1. UNCHANGED <<sent, ch, produced, reported, eunit, unitCh, jspawn, jpc, epc, ctxDone, cancelled>>
    BY DEF outVars, ctlVars, jobVars, enumVars
  <1>2. \A k \in Jobs : SameCounters(k) /\ metrics[k].errors \subseteq metrics'[k].errors
    BY ReportErrorAccounts, SameProgress, StreamTypes DEF AccountInv, IInv, TypeOK
  <1>3. /\ \A t \in Streams : t # s => cpc'[t] = cpc[t] /\ ppc'[t] = ppc[t]
        /\ \/ cpc'[s] = cpc[s] /\ ppc'[s] # "write" /\ ppc[s] # "write"
           \/ ppc'[s] = ppc[s] /\ cpc[s] = "eject" /\ cpc'[s] = "exit"
    BY DEF AccountInv, IInv, TypeOK, TypeStreams
  <1>4. KeepsAccounts
    <2>1. \A k \in Jobs : MayDrop(k) => MayDrop(k)'
      BY <1>1, <1>2, SameCtx, MayDropStable
    <2>. QED BY <1>1, <1>2, <1>3, <2>1, UnitTypes DEF KeepsAccounts, AccountInv, OnePlace, InUnits, Gone
  <1>. QED BY <1>4, KeepsAccountsStep

\* Steps outside the jobs.
LEMMA OtherAccounts ==
  ASSUME AccountInv, IInv',
         \/ \E n \in Limits : SetMaxConcurrentSources(n)
         \/ ScanChunk \/ WaitCalled \/ Waiting \/ ParentCancelled
         \/ ScanWorker \/ ReportWriter \/ UNCHANGED vars
  PROVE  AccountInv'
  <1>. USE DEF SetMaxConcurrentSources, ScanChunk, WaitCalled, Waiting, WaitReturned, HooksClosed,
         ParentCancelled, ScanWorker, ReportWriter
  <1>1. UNCHANGED <<sent, ch, produced, reported, eunit, unitCh, jspawn, jpc, epc, cpc, ppc, metrics>>
    BY DEF outVars, jobVars, enumVars, streamVars, progVars, vars
  <1>2. \A k : CtxDone(k) => CtxDone(k)'
    BY DEF CtxDone, ctlVars, vars
  <1>3. KeepsAccounts
    <2>1. \A k \in Jobs : MayDrop(k) => MayDrop(k)'
      BY <1>1, <1>2, SameProgress, MayDropStable
    <2>2. \A k \in Jobs : SameCounters(k)
      BY <1>1 DEF SameCounters
    <2>. QED BY <1>1, <2>1, <2>2 DEF KeepsAccounts, AccountInv, OnePlace, InUnits
  <1>. QED BY <1>3, KeepsAccountsStep

\* The counters are exact as long as the sets and sums they count are the same.
LEMMA CountersKept ==
  ASSUME AccountInv, UNCHANGED reported, \A j \in Jobs : SameCounters(j),
         Counted' = Counted,
         \A u \in Units : cpc'[u] \in {"eject", "exit"} <=> cpc[u] \in {"eject", "exit"}
  PROVE  CountersExact'
  <1>1. \A j \in Jobs : UnitsFound(j)' = UnitsFound(j) /\ UnitsChunked(j)' = UnitsChunked(j)
    BY DEF UnitsFound, UnitsChunked
  <1>. QED BY <1>1 DEF CountersExact, AccountInv, SameCounters

\* A unit stays where it was when nothing picks it up.
LEMMA UnitsKept ==
  ASSUME AccountInv, UNCHANGED <<reported, eunit, unitCh, jspawn>>,
         \A j \in Jobs : MayDrop(j) => MayDrop(j)',
         \A u \in Units : cpc'[u] = "idle" <=> cpc[u] = "idle"
  PROVE  UnitsConserved'
  <1>1. \A u \in Units : OnTheWay(u)' = OnTheWay(u)
    BY DEF OnTheWay
  <1>2. \A u \in Units : MayDrop(UnitJob[u]) => MayDrop(UnitJob[u])'
    BY UnitTypes
  <1>. QED BY <1>1, <1>2 DEF UnitsConserved, AccountInv

\* The places a unit may be in are untouched.
LEMMA PlaceKept ==
  ASSUME AccountInv, UNCHANGED <<eunit, unitCh, jspawn, epc, jpc>>
  PROVE  OnePlace'
  BY DEF OnePlace, AccountInv

\* A step that keeps the program counters and only adds errors drops nothing new.
LEMMA DropKept ==
  ASSUME UNCHANGED <<jpc, ctxDone, cancelled>>,
         \A j \in Jobs : metrics[j].errors \subseteq metrics'[j].errors
  PROVE  \A j \in Jobs : MayDrop(j) => MayDrop(j)'
  BY SameCtx, MayDropStable

\* A step of the goroutines of one stream.
LEMMA ChunksKept ==
  ASSUME AccountInv, \A j \in Jobs : MayDrop(j) => MayDrop(j)',
         NEW s \in Streams,
         \A t \in Streams \ {s} : /\ Held(t)' = Held(t)
                                  /\ sent'[t] = sent[t] /\ produced'[t] = produced[t]
                                  /\ ch'[t] = ch[t] /\ cpc'[t] = cpc[t],
         /\ sent'[s] + Held(s)' <= produced'[s]
         /\ sent'[s] + Held(s)' = produced'[s] \/ MayDrop(JobOf(s))'
         /\ cpc'[s] \in {"idle", "eject", "exit"} => ch'[s] = 0
  PROVE  ChunksConserved'
  BY StreamTypes DEF ChunksConserved, AccountInv

\* Receiving a unit moves it from the channel to the goroutine of the job.
LEMMA ReceiveUnitAccounts ==
  ASSUME AccountInv, IInv', NEW j \in Jobs, ReceiveUnit(j)
  PROVE  AccountInv'
  <1>. USE DEF ReceiveUnit, JobStep
  <1>1. UNCHANGED <<sent, ch, produced, reported, eunit, cpc, ppc, epc, metrics, ctxDone, cancelled>>
    BY DEF outVars, ctlVars, progVars
  <1>2. /\ \A k \in Jobs : k # j => unitCh'[k] = unitCh[k] /\ jspawn'[k] = jspawn[k] /\ jpc'[k] = jpc[k]
        /\ jpc[j] = "units" /\ jpc'[j] = "spawn" /\ unitCh[j] # None
        /\ unitCh'[j] = None /\ jspawn'[j] = unitCh[j]
    BY DEF AccountInv, IInv, TypeOK, TypeJobs
  <1>3. jspawn[j] = None
    BY <1>2 DEF AccountInv, OnePlace
  <1>4. \A k \in Jobs : MayDrop(k) => MayDrop(k)'
    <2>1. \A k \in Jobs : jpc[k] \in {"units", "spawn", "drain"} => jpc'[k] \in {"units", "spawn", "drain"}
      BY <1>2
    <2>. QED BY <1>1, <2>1, SameCtx, SameProgress, MayDropStable
  <1>5. CountersExact'
    <2>1. Counted' = Counted
      BY <1>1 DEF Counted, Sending
    <2>. QED BY <1>1, <2>1, CountersKept, SameProgress
  <1>6. ChunksConserved'
    <2>1. \A s \in Streams : Held(s)' = Held(s)
      BY <1>1 DEF Held, Sending
    <2>. QED BY <1>1, <1>4, <2>1, StreamTypes DEF ChunksConserved, AccountInv
  <1>7. UnitsConserved'
    <2>1. \A u \in Units : OnTheWay(u)' <=> OnTheWay(u)
      BY <1>1, <1>2, <1>3, UnitTypes DEF OnTheWay
    <2>. QED BY <1>1, <1>4, <2>1, UnitTypes DEF UnitsConserved, AccountInv
  <1>8. OnePlace'
    BY <1>1, <1>2, <1>3 DEF OnePlace, AccountInv
  <1>. QED BY <1>5, <1>6, <1>7, <1>8 DEF AccountInv

\* Spawning a unit ends its way: its consumer runs from then on.
LEMMA SpawnUnitAccounts ==
  ASSUME AccountInv, IInv', NEW j \in Jobs, SpawnUnit(j)
  PROVE  AccountInv'
  <1>. USE DEF SpawnUnit, JobStep
  <1>1. UNCHANGED <<sent, ch, produced, reported, eunit, unitCh, epc, metrics, ctxDone, cancelled>>
    BY DEF outVars, ctlVars, progVars
  <1>2. /\ \A k \in Jobs : k # j => jspawn'[k] = jspawn[k] /\ jpc'[k] = jpc[k]
        /\ jpc[j] = "spawn" /\ jpc'[j] = "units" /\ jspawn'[j] = None
    BY DEF AccountInv, IInv, TypeOK, TypeJobs
  <1>3. PICK v \in Units : v = jspawn[j]
    BY <1>2 DEF AccountInv, OnePlace, IInv, TypeOK, TypeJobs
  <1>4. UnitJob[v] = j /\ v \in Streams /\ v # None
    BY <1>3, UnitTypes DEF AccountInv, IInv, UnitsStayInJob
  <1>5. cpc[v] = "idle" /\ v \in reported
    BY <1>3, <1>4 DEF AccountInv, UnitsConserved, OnTheWay
  <1>6. ppc[v] \in {"idle", "done"}
    BY <1>4, <1>5 DEF AccountInv, IInv, TypeOK, TypeStreams, ProducersHaveConsumers
  <1>7. /\ \A s \in Streams : s # v => cpc'[s] = cpc[s] /\ ppc'[s] = ppc[s]
        /\ cpc'[v] = "range" /\ ppc'[v] = "start"
    BY <1>3, <1>4 DEF AccountInv, IInv, TypeOK, TypeStreams
  <1>8. \A k \in Jobs : MayDrop(k) => MayDrop(k)'
    <2>1. \A k \in Jobs : jpc[k] \in {"units", "spawn", "drain"} => jpc'[k] \in {"units", "spawn", "drain"}
      BY <1>2
    <2>. QED BY <1>1, <2>1, SameCtx, SameProgress, MayDropStable
  <1>9. CountersExact'
    <2>1. Counted' = Counted
      BY <1>1, <1>5, <1>7 DEF Counted, Sending
    <2>2. \A u \in Units : cpc'[u] \in {"eject", "exit"} <=> cpc[u] \in {"eject", "exit"}
      BY <1>5, <1>7, UnitTypes
    <2>. QED BY <1>1, <2>1, <2>2, CountersKept, SameProgress
  <1>10. ChunksConserved'
    <2>1. \A s \in Streams : Held(s)' = Held(s)
      BY <1>1, <1>5, <1>6, <1>7 DEF Held, Sending
    <2>. QED BY <1>1, <1>7, <1>8, <2>1, StreamTypes DEF ChunksConserved, AccountInv
  <1>11. UnitsConserved'
    <2>1. ASSUME NEW u \in Units PROVE OnTheWay(u)' <=> OnTheWay(u) /\ u # v
      <3>1. CASE UnitJob[u] # j
        BY <1>1, <1>2, <1>4, <3>1, UnitTypes DEF OnTheWay
      <3>2. CASE UnitJob[u] = j
        <4>1. OnTheWay(u) <=> u \in {eunit[j], unitCh[j], v}
          BY <1>3, <3>2 DEF OnTheWay
        <4>2. OnTheWay(u)' <=> u \in {eunit[j], unitCh[j], None}
          BY <1>1, <1>2, <3>2 DEF OnTheWay
        <4>3. v \notin {eunit[j], unitCh[j]}
          BY <1>3, <1>4 DEF AccountInv, OnePlace
        <4>. QED BY <4>1, <4>2, <4>3, UnitTypes
      <3>. QED BY <3>1, <3>2
    <2>. QED BY <1>1, <1>5, <1>7, <1>8, <2>1, UnitTypes DEF UnitsConserved, AccountInv
  <1>12. OnePlace'
    BY <1>1, <1>2 DEF OnePlace, AccountInv
  <1>. QED BY <1>9, <1>10, <1>11, <1>12 DEF AccountInv

\* Reporting a unit counts it and puts it on its way.
LEMMA ReportUnitAccounts ==
  ASSUME AccountInv, IInv', NEW j \in Jobs, NEW v \in Units, ReportUnit(j, v)
  PROVE  AccountInv'
  <1>. USE DEF ReportUnit, EnumStep
  <1>1. /\ UNCHANGED <<sent, ch, produced, unitCh, jspawn, jpc, cpc, ppc, ctxDone, cancelled>>
        /\ v \notin reported /\ reported' = reported \cup {v} /\ UnitJob[v] = j
    BY DEF outVars, ctlVars, jobVars, streamVars
  <1>2. /\ \A k \in Jobs : k # j => eunit'[k] = eunit[k] /\ epc'[k] = epc[k]
        /\ epc[j] = "enumerate" /\ epc'[j] = "write" /\ eunit'[j] = v
    BY DEF AccountInv, IInv, TypeOK, TypeEnum
  <1>3. /\ \A k \in Jobs : k # j => metrics'[k] = metrics[k]
        /\ metrics'[j].totalUnits = metrics[j].totalUnits + 1
        /\ metrics'[j].finishedUnits = metrics[j].finishedUnits
        /\ metrics'[j].totalChunks = metrics[j].totalChunks
        /\ metrics'[j].errors = metrics[j].errors
    BY DEF AccountInv, IInv, TypeOK, TypeProgress, JobProgressMetrics
  <1>4. \A k \in Jobs : MayDrop(k) => MayDrop(k)'
    BY <1>1, <1>3, DropKept
  <1>5. cpc[v] = "idle" /\ ~OnTheWay(v)
    BY <1>1 DEF AccountInv, UnitsConserved
  <1>6. CountersExact'
    <2>1. Counted' = Counted
      BY <1>1 DEF Counted, Sending
    <2>2. \A k \in Jobs : UnitsChunked(k)' = UnitsChunked(k)
      BY <1>1 DEF UnitsChunked
    <2>3. \A k \in Jobs : k # j => UnitsFound(k)' = UnitsFound(k)
      BY <1>1 DEF UnitsFound
    <2>4. UnitsFound(j)' = UnitsFound(j) \cup {v} /\ v \notin UnitsFound(j)
      BY <1>1 DEF UnitsFound
    <2>5. IsFiniteSet(UnitsFound(j))
      BY FiniteStreams, FS_Subset DEF UnitsFound, AccountInv, IInv, TypeOK, TypeEnum
    <2>6. Cardinality(UnitsFound(j)') = Cardinality(UnitsFound(j)) + 1
      BY <2>4, <2>5, FS_AddElement
    <2>. QED BY <1>3, <2>1, <2>2, <2>3, <2>6 DEF CountersExact, AccountInv
  <1>7. ChunksConserved'
    <2>1. \A s \in Streams : Held(s)' = Held(s)
      BY <1>1 DEF Held, Sending
    <2>. QED BY <1>1, <1>4, <2>1, StreamTypes DEF ChunksConserved, AccountInv
  <1>8. UnitsConserved'
    <2>1. \A u \in Units : u # v => (OnTheWay(u)' <=> OnTheWay(u))
      <3>1. eunit[j] = None
        BY <1>2 DEF AccountInv, OnePlace
      <3>. QED BY <1>1, <1>2, <3>1, UnitTypes DEF OnTheWay
    <2>2. OnTheWay(v)'
      BY <1>1, <1>2 DEF OnTheWay
    <2>. QED BY <1>1, <1>4, <1>5, <2>1, <2>2, UnitTypes DEF UnitsConserved, AccountInv
  <1>9. OnePlace'
    <2>1. v \notin {unitCh[j], jspawn[j]}
      BY <1>1, <1>5 DEF OnTheWay
    <2>. QED BY <1>1, <1>2, <2>1 DEF OnePlace, AccountInv
  <1>. QED BY <1>6, <1>7, <1>8, <1>9 DEF AccountInv

\* A unit is written to the channel, or dropped by a job whose context is done.
LEMMA WriteUnitAccounts ==
  ASSUME AccountInv, IInv', NEW j \in Jobs, WriteUnit(j)
  PROVE  AccountInv'
  <1>. USE DEF WriteUnit, EnumStep
  <1>1. UNCHANGED <<sent, ch, produced, jspawn, jpc, cpc, ppc, ctxDone, cancelled, reported, metrics>>
    BY DEF outVars, ctlVars, jobVars, streamVars, progVars
  <1>2. /\ \A k \in Jobs : k # j => eunit'[k] = eunit[k] /\ epc'[k] = epc[k] /\ unitCh'[k] = unitCh[k]
        /\ epc[j] = "write" /\ epc'[j] = "enumerate" /\ eunit'[j] = None
        /\ \/ unitCh[j] = None /\ unitCh'[j] = eunit[j]
           \/ unitCh'[j] = unitCh[j] /\ CtxDone(j)
    BY DEF AccountInv, IInv, TypeOK, TypeEnum, TypeJobs
  <1>3. \A k \in Jobs : MayDrop(k) => MayDrop(k)'
    BY <1>1, SameProgress, DropKept
  <1>4. CountersExact'
    <2>1. Counted' = Counted
      BY <1>1 DEF Counted, Sending
    <2>. QED BY <1>1, <2>1, CountersKept, SameProgress
  <1>5. ChunksConserved'
    <2>1. \A s \in Streams : Held(s)' = Held(s)
      BY <1>1 DEF Held, Sending
    <2>. QED BY <1>1, <1>3, <2>1, StreamTypes DEF ChunksConserved, AccountInv
  <1>6. UnitsConserved'
    <2>1. \A u \in Units : OnTheWay(u)' => OnTheWay(u)
      BY <1>1, <1>2, UnitTypes DEF OnTheWay
    <2>2. \A u \in Units : OnTheWay(u) => OnTheWay(u)' \/ MayDrop(UnitJob[u])'
      <3>1. jpc[j] \in {"units", "spawn"}
        BY <1>2 DEF AccountInv, OnePlace
      <3>2. CtxDone(j) => MayDrop(j)
        BY <3>1 DEF MayDrop
      <3>. QED BY <1>1, <1>2, <1>3, <3>2, UnitTypes DEF OnTheWay
    <2>. QED BY <1>1, <1>3, <2>1, <2>2, UnitTypes DEF UnitsConserved, AccountInv
  <1>7. OnePlace'
    BY <1>1, <1>2 DEF OnePlace, AccountInv
  <1>. QED BY <1>4, <1>5, <1>6, <1>7 DEF AccountInv

\* Counting a chunk touches no other counter.
LEMMA ReportChunkAccounts ==
  ASSUME TypeProgress, NEW s \in Streams, ReportChunk(s)
  PROVE  /\ \A k \in Jobs : /\ metrics'[k].totalUnits = metrics[k].totalUnits
                            /\ metrics'[k].finishedUnits = metrics[k].finishedUnits
                            /\ metrics'[k].errors = metrics[k].errors
                            /\ k # JobOf(s) => metrics'[k].totalChunks = metrics[k].totalChunks
         /\ metrics'[JobOf(s)].totalChunks = metrics[JobOf(s)].totalChunks + 1
  BY StreamTypes DEF ReportChunk, TypeProgress, JobProgressMetrics

\* The chunks counted for a stream are a natural number.
LEMMA CountedTypes ==
  ASSUME IInv
  PROVE  \A j : NatOn(Counted, StreamsOf(j)) /\ NatOn(sent, StreamsOf(j))
  BY DEF Counted, Sending, NatOn, StreamsOf, IInv, TypeOK, TypeOutput, TypeStreams

\* The one stream that counts a chunk, and its job.
LEMMA ChunkCounted ==
  ASSUME AccountInv, UNCHANGED reported, NEW s \in Streams, ReportChunk(s),
         Counted'[s] = Counted[s] + 1,
         \A t \in Streams \ {s} : Counted'[t] = Counted[t],
         \A u \in Units : cpc'[u] \in {"eject", "exit"} <=> cpc[u] \in {"eject", "exit"}
  PROVE  CountersExact'
  <1>1. \A j \in Jobs : UnitsFound(j)' = UnitsFound(j) /\ UnitsChunked(j)' = UnitsChunked(j)
    BY DEF UnitsFound, UnitsChunked
  <1>2. ASSUME NEW j \in Jobs, j # JobOf(s)
        PROVE  SumFunctionOnSet(Counted', StreamsOf(j)) = SumFunctionOnSet(Counted, StreamsOf(j))
    <2>1. \A t \in StreamsOf(j) : Counted'[t] = Counted[t]
      BY <1>2 DEF StreamsOf
    <2>. QED BY <2>1, FiniteStreams, CountedTypes, SumSame DEF AccountInv
  <1>3. SumFunctionOnSet(Counted', StreamsOf(JobOf(s))) = SumFunctionOnSet(Counted, StreamsOf(JobOf(s))) + 1
    <2>1. s \in StreamsOf(JobOf(s)) /\ \A t \in StreamsOf(JobOf(s)) \ {s} : Counted'[t] = Counted[t]
      BY DEF StreamsOf
    <2>. QED BY <2>1, FiniteStreams, CountedTypes, SumGrows DEF AccountInv
  <1>4. /\ \A k \in Jobs : /\ metrics'[k].totalUnits = metrics[k].totalUnits
                           /\ metrics'[k].finishedUnits = metrics[k].finishedUnits
                           /\ k # JobOf(s) => metrics'[k].totalChunks = metrics[k].totalChunks
        /\ metrics'[JobOf(s)].totalChunks = metrics[JobOf(s)].totalChunks + 1
    BY ReportChunkAccounts DEF AccountInv, IInv, TypeOK
  <1>5. ASSUME NEW j \in Jobs
        PROVE  metrics'[j].totalChunks = SumFunctionOnSet(Counted', StreamsOf(j))
    <2>1. metrics[j].totalChunks = SumFunctionOnSet(Counted, StreamsOf(j))
      BY DEF AccountInv, CountersExact
    <2>2. CASE j = JobOf(s)
      BY <1>3, <1>4, <2>1, <2>2
    <2>3. CASE j # JobOf(s)
      BY <1>2, <1>4, <2>1, <2>3
    <2>. QED BY <2>2, <2>3
  <1>6. ASSUME NEW j \in Jobs
        PROVE  /\ metrics'[j].totalUnits = Cardinality(UnitsFound(j)')
               /\ metrics'[j].finishedUnits = Cardinality(UnitsChunked(j)')
    BY <1>1, <1>4 DEF AccountInv, CountersExact
  <1>7. \A j \in Jobs : StreamsOf(j)' = StreamsOf(j)
    BY DEF StreamsOf, Streams, JobOf
  <1>. QED BY <1>5, <1>6, <1>7 DEF CountersExact

\* Producing a chunk counts it, or will when it is received; writing it may drop
\* it, but only in a job whose context is done.
LEMMA ProducerAccounts ==
  ASSUME AccountInv, IInv', NEW s \in Streams,
         ChunkReported(s) \/ ChunkWritten(s) \/ ChunksWrite(s)
  PROVE  AccountInv'
  <1>. USE DEF ChunkReported, ChunkWritten, ChunksWrite, ProducerStep
  <1>1. UNCHANGED <<sent, reported, eunit, unitCh, jspawn, epc, jpc, cpc, ctxDone, cancelled>>
    BY DEF outVars, ctlVars, enumVars
  <1>2. \A t \in Streams : t # s => ppc'[t] = ppc[t] /\ ch'[t] = ch[t] /\ produced'[t] = produced[t]
    BY DEF AccountInv, IInv, TypeOK, TypeStreams
  <1>3. \A j \in Jobs : MayDrop(j) => MayDrop(j)'
    <2>1. \A k \in Jobs : metrics[k].errors \subseteq metrics'[k].errors
      BY ReportChunkAccounts DEF AccountInv, IInv, TypeOK
    <2>. QED BY <1>1, <2>1, DropKept
  <1>4. /\ ppc[s] \in {"produce", "write"}
        /\ cpc[s] \in {"range", "send"} /\ ch[s] \in {0, 1} /\ produced[s] \in Nat /\ sent[s] \in Nat
    BY DEF AccountInv, IInv, TypeOK, TypeStreams, TypeOutput, ProducersHaveConsumers
  <1>5. CASE ChunkReported(s)
    <2>1. /\ ppc[s] = "produce" /\ ppc'[s] = "write" /\ ch'[s] = ch[s]
          /\ produced'[s] = produced[s] + 1 /\ s \in Units
      BY <1>5 DEF AccountInv, IInv, TypeOK, TypeStreams
    <2>2. CountersExact'
      <3>1. Counted'[s] = Counted[s] + 1 /\ \A t \in Streams \ {s} : Counted'[t] = Counted[t]
        BY <1>1, <1>2, <2>1 DEF Counted, Sending
      <3>. QED BY <1>1, <1>5, <3>1, ChunkCounted
    <2>3. ChunksConserved'
      <3>1. Held(s)' = Held(s) + 1 /\ Held(s) \in Nat
        BY <1>1, <1>4, <2>1 DEF Held, Sending
      <3>2. \A t \in Streams \ {s} : Held(t)' = Held(t)
        BY <1>1, <1>2 DEF Held, Sending
      <3>3. /\ sent[s] + Held(s) <= produced[s]
            /\ sent[s] + Held(s) = produced[s] \/ MayDrop(JobOf(s))
        BY DEF AccountInv, ChunksConserved
      <3>4. /\ sent'[s] + Held(s)' <= produced'[s]
            /\ sent'[s] + Held(s)' = produced'[s] \/ MayDrop(JobOf(s))'
            /\ cpc'[s] \in {"idle", "eject", "exit"} => ch'[s] = 0
        BY <1>1, <1>3, <1>4, <2>1, <3>1, <3>3, StreamTypes
      <3>. QED BY <1>1, <1>2, <1>3, <3>2, <3>4, ChunksKept
    <2>. QED BY <1>1, <1>3, <2>2, <2>3, UnitsKept, PlaceKept DEF AccountInv
  <1>6. CASE ChunkWritten(s)
    <2>1. /\ ppc[s] = "write" /\ ppc'[s] = "produce" /\ produced'[s] = produced[s] /\ metrics' = metrics
          /\ \/ ch[s] = 0 /\ ch'[s] = 1
             \/ CtxDone(JobOf(s)) /\ ch'[s] = ch[s]
      BY <1>6 DEF AccountInv, IInv, TypeOK, TypeStreams
    <2>2. CountersExact'
      <3>1. produced' = produced
        BY <1>6
      <3>2. Counted' = Counted
        BY <1>1, <3>1 DEF Counted, Sending
      <3>. QED BY <1>1, <2>1, <3>2, CountersKept, SameProgress
    <2>3. ChunksConserved'
      <3>1. \/ Held(s)' = Held(s) /\ Held(s) \in Nat
            \/ Held(s) = Held(s)' + 1 /\ Held(s)' \in Nat /\ CtxDone(JobOf(s))
        BY <1>1, <1>4, <2>1 DEF Held, Sending
      <3>2. \A t \in Streams \ {s} : Held(t)' = Held(t)
        BY <1>1, <1>2 DEF Held, Sending
      <3>3. /\ sent[s] + Held(s) <= produced[s]
            /\ sent[s] + Held(s) = produced[s] \/ MayDrop(JobOf(s))
        BY DEF AccountInv, ChunksConserved
      <3>4. CtxDone(JobOf(s)) => MayDrop(JobOf(s))
        BY <1>4 DEF MayDrop, AccountInv, IInv, ConsumersInsideRun
      <3>5. /\ sent'[s] + Held(s)' <= produced'[s]
            /\ sent'[s] + Held(s)' = produced'[s] \/ MayDrop(JobOf(s))'
            /\ cpc'[s] \in {"idle", "eject", "exit"} => ch'[s] = 0
        BY <1>1, <1>3, <1>4, <2>1, <3>1, <3>3, <3>4, StreamTypes
      <3>. QED BY <1>1, <1>2, <1>3, <3>2, <3>5, ChunksKept
    <2>. QED BY <1>1, <1>3, <2>2, <2>3, UnitsKept, PlaceKept DEF AccountInv
  <1>7. CASE ChunksWrite(s)
    <2>1. /\ ppc'[s] = ppc[s] /\ ch[s] = 0 /\ ch'[s] = 1 /\ metrics' = metrics
          /\ produced'[s] = produced[s] + 1 /\ s \in Jobs
      BY <1>7 DEF AccountInv, IInv, TypeOK, TypeStreams
    <2>2. CountersExact'
      <3>1. Counted' = Counted
        <4>1. s \notin Units
          BY <2>1, ConstantsAssumption
        <4>2. \A u \in Units : produced'[u] = produced[u]
          BY <1>2, <4>1, UnitTypes
        <4>. QED BY <1>1, <4>2 DEF Counted, Sending
      <3>. QED BY <1>1, <2>1, <3>1, CountersKept, SameProgress
    <2>3. ChunksConserved'
      <3>1. Held(s)' = Held(s) + 1 /\ Held(s) \in Nat
        BY <1>1, <1>4, <2>1 DEF Held, Sending
      <3>2. \A t \in Streams \ {s} : Held(t)' = Held(t)
        BY <1>1, <1>2 DEF Held, Sending
      <3>3. /\ sent[s] + Held(s) <= produced[s]
            /\ sent[s] + Held(s) = produced[s] \/ MayDrop(JobOf(s))
        BY DEF AccountInv, ChunksConserved
      <3>4. /\ sent'[s] + Held(s)' <= produced'[s]
            /\ sent'[s] + Held(s)' = produced'[s] \/ MayDrop(JobOf(s))'
            /\ cpc'[s] \in {"idle", "eject", "exit"} => ch'[s] = 0
        BY <1>1, <1>3, <1>4, <2>1, <3>1, <3>3, StreamTypes
      <3>. QED BY <1>1, <1>2, <1>3, <3>2, <3>4, ChunksKept
    <2>. QED BY <1>1, <1>3, <2>2, <2>3, UnitsKept, PlaceKept DEF AccountInv
  <1>. QED BY <1>5, <1>6, <1>7

\* Receiving and sending move a chunk on; a consumer that ends has none left.
LEMMA ConsumerAccounts ==
  ASSUME AccountInv, IInv', NEW s \in Streams,
         ConsumerReceives(s) \/ ConsumerSends(s) \/ ConsumerEnds(s)
  PROVE  AccountInv'
  <1>. USE DEF ConsumerReceives, ConsumerSends, ConsumerEnds, ConsumerStep
  <1>1. UNCHANGED <<reported, eunit, unitCh, jspawn, epc, jpc, ppc, produced, ctxDone, cancelled>>
    BY DEF jobVars, ctlVars, enumVars
  <1>2. \A t \in Streams : t # s => cpc'[t] = cpc[t] /\ ch'[t] = ch[t] /\ sent'[t] = sent[t]
    BY DEF AccountInv, IInv, TypeOK, TypeStreams, TypeOutput
  <1>3. /\ cpc[s] \in {"range", "send"} /\ ch[s] \in {0, 1} /\ produced[s] \in Nat /\ sent[s] \in Nat
    BY DEF AccountInv, IInv, TypeOK, TypeStreams, TypeOutput
  <1>4. \A j \in Jobs : MayDrop(j) => MayDrop(j)'
    <2>1. \A k \in Jobs : metrics[k].errors \subseteq metrics'[k].errors
      <3>1. CASE ConsumerReceives(s)
        BY <3>1, ReportChunkAccounts, SameProgress DEF AccountInv, IInv, TypeOK
      <3>2. CASE ConsumerSends(s)
        BY <3>2, SameProgress
      <3>3. CASE ConsumerEnds(s)
        BY <3>3, SameProgress, StreamTypes DEF AccountInv, IInv, TypeOK, TypeProgress, JobProgressMetrics
      <3>. QED BY <3>1, <3>2, <3>3
    <2>. QED BY <1>1, <2>1, DropKept
  <1>5. \A t \in Streams \ {s} : Held(t)' = Held(t)
    BY <1>1, <1>2 DEF Held, Sending
  <1>6. /\ sent[s] + Held(s) <= produced[s]
        /\ sent[s] + Held(s) = produced[s] \/ MayDrop(JobOf(s))
    BY DEF AccountInv, ChunksConserved
  <1>7. ASSUME sent'[s] + Held(s)' = sent[s] + Held(s),
               cpc'[s] \in {"idle", "eject", "exit"} => ch'[s] = 0
        PROVE  ChunksConserved'
    <2>1. /\ sent'[s] + Held(s)' <= produced'[s]
          /\ sent'[s] + Held(s)' = produced'[s] \/ MayDrop(JobOf(s))'
      BY <1>1, <1>4, <1>6, <1>7, StreamTypes
    <2>. QED BY <1>1, <1>2, <1>4, <1>5, <1>7, <2>1, ChunksKept
  <1>8. CASE ConsumerReceives(s)
    <2>1. cpc[s] = "range" /\ cpc'[s] = "send" /\ ch[s] = 1 /\ ch'[s] = 0 /\ sent'[s] = sent[s]
      BY <1>8 DEF AccountInv, IInv, TypeOK, TypeStreams, TypeOutput
    <2>2. sent'[s] + Held(s)' = sent[s] + Held(s)
      BY <1>1, <1>3, <2>1 DEF Held, Sending
    <2>3. CountersExact'
      <3>1. CASE s \in Jobs
        <4>1. s \notin Units /\ ReportChunk(s)
          BY <1>8, <3>1, ConstantsAssumption
        <4>2. Counted'[s] = Counted[s] + 1 /\ \A t \in Streams \ {s} : Counted'[t] = Counted[t]
          BY <1>1, <1>2, <1>3, <2>1, <4>1 DEF Counted, Sending
        <4>3. \A u \in Units : cpc'[u] = cpc[u]
          BY <1>2, <4>1, UnitTypes
        <4>. QED BY <1>1, <4>1, <4>2, <4>3, ChunkCounted
      <3>2. CASE s \notin Jobs
        <4>1. s \in Units /\ metrics' = metrics
          BY <1>8, <3>2 DEF Streams
        <4>2. Counted' = Counted
          BY <1>1, <1>2, <4>1 DEF Counted, Sending
        <4>3. \A u \in Units : cpc'[u] \in {"eject", "exit"} <=> cpc[u] \in {"eject", "exit"}
          BY <1>2, <2>1, UnitTypes
        <4>. QED BY <1>1, <4>1, <4>2, <4>3, CountersKept, SameProgress
      <3>. QED BY <3>1, <3>2
    <2>4. \A u \in Units : cpc'[u] = "idle" <=> cpc[u] = "idle"
      BY <1>2, <2>1, UnitTypes
    <2>. QED BY <1>1, <1>4, <1>7, <2>1, <2>2, <2>3, <2>4, UnitsKept, PlaceKept DEF AccountInv
  <1>9. CASE ConsumerSends(s)
    <2>1. ~outClosed
      <3>1. JobOf(s) \in Jobs /\ jpc[JobOf(s)] \in Running
        BY <1>3, StreamTypes DEF AccountInv, IInv, ConsumersInsideRun, Running
      <3>2. JobOf(s) \in wg
        BY <3>1 DEF AccountInv, IInv, CountedWhileRunning
      <3>. QED BY <3>2 DEF AccountInv, IInv, ClosedAfterWait
    <2>2. cpc[s] = "send" /\ cpc'[s] = "range" /\ ch'[s] = ch[s] /\ sent'[s] = sent[s] + 1 /\ metrics' = metrics
      BY <1>9, <2>1 DEF AccountInv, IInv, TypeOK, TypeStreams, TypeOutput
    <2>3. sent'[s] + Held(s)' = sent[s] + Held(s)
      BY <1>1, <1>3, <2>2 DEF Held, Sending
    <2>4. CountersExact'
      <3>1. Counted' = Counted
        BY <1>1, <1>2, <1>3, <2>2 DEF Counted, Sending
      <3>2. \A u \in Units : cpc'[u] \in {"eject", "exit"} <=> cpc[u] \in {"eject", "exit"}
        BY <1>2, <2>2, UnitTypes
      <3>. QED BY <1>1, <2>2, <3>1, <3>2, CountersKept, SameProgress
    <2>5. \A u \in Units : cpc'[u] = "idle" <=> cpc[u] = "idle"
      BY <1>2, <2>2, UnitTypes
    <2>. QED BY <1>1, <1>4, <1>7, <2>2, <2>3, <2>4, <2>5, UnitsKept, PlaceKept DEF AccountInv
  <1>10. CASE ConsumerEnds(s)
    <2>1. /\ cpc[s] = "range" /\ cpc'[s] = (IF s \in Units THEN "eject" ELSE "exit")
          /\ ch[s] = 0 /\ ch'[s] = 0 /\ sent' = sent
      BY <1>10 DEF AccountInv, IInv, TypeOK, TypeStreams, TypeOutput
    <2>2. sent'[s] + Held(s)' = sent[s] + Held(s)
      BY <1>1, <1>3, <2>1 DEF Held, Sending
    <2>3. Counted' = Counted
      BY <1>1, <1>2, <2>1 DEF Counted, Sending
    <2>4. CountersExact'
      <3>1. CASE s \in Units
        <4>1. UnitsFound(JobOf(s))' = UnitsFound(JobOf(s))
          BY <1>1 DEF UnitsFound
        <4>2. /\ \A k \in Jobs : /\ UnitsFound(k)' = UnitsFound(k)
                                 /\ k # JobOf(s) => UnitsChunked(k)' = UnitsChunked(k)
              /\ UnitsChunked(JobOf(s))' = UnitsChunked(JobOf(s)) \cup {s}
              /\ s \notin UnitsChunked(JobOf(s))
          BY <1>1, <1>2, <2>1, <3>1, UnitTypes DEF UnitsFound, UnitsChunked
        <4>3. Cardinality(UnitsChunked(JobOf(s))') = Cardinality(UnitsChunked(JobOf(s))) + 1
          BY <4>2, FiniteStreams, FS_AddElement
        <4>4. /\ \A k \in Jobs : k # JobOf(s) => metrics'[k] = metrics[k]
              /\ metrics'[JobOf(s)].totalUnits = metrics[JobOf(s)].totalUnits
              /\ metrics'[JobOf(s)].finishedUnits = metrics[JobOf(s)].finishedUnits + 1
              /\ metrics'[JobOf(s)].totalChunks = metrics[JobOf(s)].totalChunks
          BY <1>10, <3>1, StreamTypes DEF AccountInv, IInv, TypeOK, TypeProgress, JobProgressMetrics
        <4>. QED BY <2>3, <4>2, <4>3, <4>4, StreamTypes DEF CountersExact, AccountInv
      <3>2. CASE s \notin Units
        <4>1. metrics' = metrics
          BY <1>10, <3>2
        <4>2. \A u \in Units : cpc'[u] = cpc[u]
          BY <1>2, <3>2, UnitTypes
        <4>. QED BY <1>1, <2>3, <4>1, <4>2, CountersKept, SameProgress
      <3>. QED BY <3>1, <3>2
    <2>5. \A u \in Units : cpc'[u] = "idle" <=> cpc[u] = "idle"
      BY <1>2, <2>1, UnitTypes
    <2>. QED BY <1>1, <1>4, <1>7, <2>1, <2>2, <2>4, <2>5, UnitsKept, PlaceKept DEF AccountInv
  <1>. QED BY <1>8, <1>9, <1>10

\* Nothing is counted and nothing is on its way at first.
LEMMA InitAccounts == Init => AccountInv
  <1>. SUFFICES ASSUME Init PROVE AccountInv
    OBVIOUS
  <1>1. IInv
    BY InitIInv
  <1>. USE DEF Init
  <1>2. CountersExact
    <2>1. ASSUME NEW j \in Jobs
          PROVE  /\ metrics[j].totalUnits = Cardinality(UnitsFound(j))
                 /\ metrics[j].finishedUnits = Cardinality(UnitsChunked(j))
                 /\ metrics[j].totalChunks = SumFunctionOnSet(Counted, StreamsOf(j))
      <3>1. UnitsFound(j) = {} /\ UnitsChunked(j) = {}
        BY UnitTypes DEF UnitsFound, UnitsChunked
      <3>2. SumFunctionOnSet(Counted, StreamsOf(j)) = 0
        <4>1. \A s \in StreamsOf(j) : Counted[s] = 0
          BY DEF StreamsOf, Counted, Sending
        <4>. QED BY <4>1, FiniteStreams, SumZero
      <3>. QED BY <3>1, <3>2, FS_EmptySet DEF NoProgress
    <2>. QED BY <2>1 DEF CountersExact
  <1>3. ChunksConserved
    BY DEF ChunksConserved, Held, Sending
  <1>4. UnitsConserved
    BY UnitTypes DEF UnitsConserved, OnTheWay
  <1>5. OnePlace
    BY DEF OnePlace
  <1>. QED BY <1>1, <1>2, <1>3, <1>4, <1>5 DEF AccountInv

\* Every step keeps the accounts.
LEMMA NextAccounts == AccountInv /\ [Next]_vars => AccountInv'
  <1>. SUFFICES ASSUME AccountInv, [Next]_vars PROVE AccountInv'
    OBVIOUS
  <1>1. IInv'
    BY NextIInv DEF AccountInv
  <1>2. CASE Step
    <2>1. ASSUME NEW j \in Jobs,
                 \/ ClientStep(j) \/ Acquiring(j) \/ CancelRun(j)
                 \/ JobGoroutine(j) \/ Enumerator(j) \/ UnitErr(j)
                 \/ \E u \in Units : ReportUnit(j, u)
          PROVE  AccountInv'
      <3>1. CASE JobGoroutine(j)
        BY <1>1, <3>1, StartJobAccounts, ReceiveUnitAccounts, SpawnUnitAccounts, QuietJobAccounts
        DEF JobGoroutine
      <3>2. CASE Enumerator(j) \/ UnitErr(j)
        BY <1>1, <3>2, WriteUnitAccounts, QuietEnumAccounts DEF Enumerator
      <3>. QED BY <1>1, <2>1, <3>1, <3>2, ClientAccounts, ReportUnitAccounts
    <2>2. ASSUME NEW s \in Streams,
                 \/ Producer(s) \/ Consumer(s)
                 \/ ChunkReported(s) \/ ChunkErr(s) \/ ChunksWrite(s)
          PROVE  AccountInv'
      BY <1>1, <2>2, QuietStreamAccounts, ProducerAccounts, ConsumerAccounts DEF Producer, Consumer
    <2>3. CASE \/ \E n \in Limits : SetMaxConcurrentSources(n)
               \/ ScanChunk \/ WaitCalled \/ Waiting \/ ParentCancelled
               \/ ScanWorker \/ ReportWriter
      BY <1>1, <2>3, OtherAccounts
    <2>. QED BY <1>2, <2>1, <2>2, <2>3 DEF Step
  <1>3. CASE UNCHANGED vars
    BY <1>1, <1>3, OtherAccounts
  <1>. QED BY <1>2, <1>3 DEF Next, Terminated

(***************************************************************************)
(* The counters of every JobProgress are what the goroutines know, and     *)
(* what was counted is accounted for.                                      *)
(***************************************************************************)
THEOREM AccountsKept == Spec => []AccountInv
  <1>. QED BY InitAccounts, NextAccounts, PTL DEF Spec

(***************************************************************************)
(* A Snapshot never shows more finished units than units, nor more chunks  *)
(* on outputChunks than were counted.                                      *)
(***************************************************************************)
THEOREM SnapshotsCountAhead == Spec => []CountsAhead
  <1>1. AccountInv => CountsAhead
    <2>. SUFFICES ASSUME AccountInv, NEW j \in Jobs
                  PROVE  /\ metrics[j].finishedUnits <= metrics[j].totalUnits
                         /\ SentBy(j) <= metrics[j].totalChunks
      BY DEF CountsAhead
    <2>1. metrics[j].finishedUnits <= metrics[j].totalUnits
      <3>1. UnitsChunked(j) \subseteq UnitsFound(j)
        BY DEF UnitsChunked, UnitsFound, AccountInv, UnitsConserved
      <3>2. IsFiniteSet(UnitsFound(j))
        BY FiniteStreams, FS_Subset DEF UnitsFound, AccountInv, IInv, TypeOK, TypeEnum
      <3>. QED BY <3>1, <3>2, FS_Subset DEF AccountInv, CountersExact
    <2>2. SentBy(j) <= metrics[j].totalChunks
      <3>1. ASSUME NEW s \in StreamsOf(j) PROVE sent[s] <= Counted[s]
        <4>1. s \in Streams
          BY DEF StreamsOf
        <4>2. sent[s] \in Nat /\ produced[s] \in Nat /\ ch[s] \in {0, 1}
          BY <4>1 DEF AccountInv, IInv, TypeOK, TypeStreams, TypeOutput
        <4>3. Held(s) \in Nat
          BY <4>2 DEF Held, Sending
        <4>4. sent[s] + Held(s) <= produced[s]
          BY <4>1 DEF AccountInv, ChunksConserved
        <4>. QED BY <4>1, <4>2, <4>3, <4>4 DEF Counted, Sending
      <3>2. /\ NatOn(Counted, StreamsOf(j)) /\ NatOn(sent, StreamsOf(j))
            /\ IsFiniteSet(StreamsOf(j))
        BY FiniteStreams, CountedTypes DEF AccountInv
      <3>3. SumFunctionOnSet(sent, StreamsOf(j)) <= SumFunctionOnSet(Counted, StreamsOf(j))
        BY <3>1, <3>2, SumMonotone
      <3>. QED BY <3>3 DEF AccountInv, CountersExact, SentBy
    <2>. QED BY <2>1, <2>2
  <1>. QED BY <1>1, AccountsKept, PTL

(***************************************************************************)
(* A job that is Done without a fatal error lost neither a chunk nor a     *)
(* unit, however the cancellations and the goroutines interleave.          *)
(***************************************************************************)
THEOREM LossIsReported == Spec => []NoSilentLoss
  <1>1. AccountInv => NoSilentLoss
    <2>. SUFFICES ASSUME AccountInv, NEW j \in Jobs, doneCh[j], ~Fatal(j)
                  PROVE  /\ SentBy(j) = metrics[j].totalChunks
                         /\ metrics[j].finishedUnits = metrics[j].totalUnits
      BY DEF NoSilentLoss
    <2>1. jpc[j] \in {"rejected", "hookfinish", "eject", "exit"} /\ ~MayDrop(j)
      BY DEF AccountInv, IInv, DoneAfterEnd, MayDrop
    <2>2. ASSUME NEW s \in Streams, JobOf(s) = j
          PROVE  cpc[s] \in {"idle", "exit"} /\ ppc[s] \in {"idle", "done"}
      BY <2>1, <2>2 DEF AccountInv, IInv, TypeOK, TypeStreams, ConsumersInsideRun, ProducersHaveConsumers
    <2>3. SentBy(j) = metrics[j].totalChunks
      <3>1. ASSUME NEW s \in StreamsOf(j) PROVE Counted[s] = sent[s]
        <4>1. s \in Streams /\ JobOf(s) = j
          BY DEF StreamsOf
        <4>2. cpc[s] \in {"idle", "exit"} /\ ppc[s] \in {"idle", "done"}
          BY <2>2, <4>1
        <4>3. sent[s] + Held(s) = produced[s] /\ ch[s] = 0
          BY <2>1, <4>1, <4>2 DEF AccountInv, ChunksConserved
        <4>4. sent[s] \in Nat
          BY <4>1 DEF AccountInv, IInv, TypeOK, TypeOutput
        <4>. QED BY <4>1, <4>2, <4>3, <4>4 DEF Counted, Held, Sending
      <3>2. NatOn(Counted, StreamsOf(j)) /\ NatOn(sent, StreamsOf(j)) /\ IsFiniteSet(StreamsOf(j))
        BY FiniteStreams, CountedTypes DEF AccountInv
      <3>3. SumFunctionOnSet(Counted, StreamsOf(j)) = SumFunctionOnSet(sent, StreamsOf(j))
        BY <3>1, <3>2, SumSame
      <3>. QED BY <3>3 DEF AccountInv, CountersExact, SentBy
    <2>4. metrics[j].finishedUnits = metrics[j].totalUnits
      <3>1. eunit[j] = None /\ unitCh[j] = None /\ jspawn[j] = None
        BY <2>1 DEF AccountInv, OnePlace
      <3>2. UnitsFound(j) = UnitsChunked(j)
        <4>1. ASSUME NEW u \in UnitsFound(j) PROVE u \in UnitsChunked(j)
          <5>1. u \in Units /\ UnitJob[u] = j /\ u \in reported
            BY DEF UnitsFound, AccountInv, IInv, TypeOK, TypeEnum
          <5>2. ~OnTheWay(u)
            BY <3>1, <5>1, UnitTypes DEF OnTheWay
          <5>3. cpc[u] # "idle"
            BY <2>1, <5>1, <5>2 DEF AccountInv, UnitsConserved
          <5>4. cpc[u] \in {"idle", "exit"}
            BY <2>2, <5>1, UnitTypes
          <5>. QED BY <5>1, <5>3, <5>4 DEF UnitsChunked
        <4>2. UnitsChunked(j) \subseteq UnitsFound(j)
          BY DEF UnitsChunked, UnitsFound, AccountInv, UnitsConserved
        <4>. QED BY <4>1, <4>2
      <3>. QED BY <3>2 DEF AccountInv, CountersExact
    <2>. QED BY <2>3, <2>4
  <1>. QED BY <1>1, AccountsKept, PTL

(***************************************************************************)
(* RecordInv.  A step changes the goroutines, the errors or the record of   *)
(* one unit at most: UnitKept says that it leaves a unit alone.             *)
(***************************************************************************)
\* With distinct identifiers no two streams share a record, and no unit has
\* the record of a job.
LEMMA DistinctRecords ==
  ASSUME DistinctHookIDs
  PROVE  /\ \A u \in Units : UnitID[u] # None /\ HookID(u) = <<UnitJob[u], UnitID[u]>>
         /\ \A j \in Jobs : HookID(j) = <<j, None>>
         /\ \A s, t \in Streams : s # t => HookID(s) # HookID(t)
  <1>1. \A j \in Jobs : j \notin Units /\ HookID(j) = <<j, None>>
    BY ConstantsAssumption DEF HookID, JobOf
  <1>2. ASSUME NEW u \in Units PROVE UnitID[u] # None /\ HookID(u) = <<UnitJob[u], UnitID[u]>>
    <2>1. HookID(u) = <<UnitJob[u], UnitID[u]>>
      BY DEF HookID, JobOf
    <2>2. CASE UnitID[u] = None
      BY <1>1, <2>1, <2>2, UnitTypes, JobStreamTypes DEF DistinctHookIDs
    <2>. QED BY <2>1, <2>2
  <1>. QED BY <1>1, <1>2 DEF DistinctHookIDs

\* A unit whose goroutines, errors and record a step leaves alone.
UnitKept(u) ==
  /\ produced'[u] = produced[u] /\ ErrorsOf(u)' = ErrorsOf(u)
  /\ hook'[HookID(u)] = hook[HookID(u)] /\ ejecting'[u] = ejecting[u]
  /\ HasRecord(u)' <=> HasRecord(u)
  /\ ppc'[u] \in {"idle", "start"} => ppc[u] \in {"idle", "start"}
  /\ cpc'[u] = "idle" => cpc[u] = "idle" /\ ppc'[u] = ppc[u]
  /\ cpc'[u] = "eject" <=> cpc[u] = "eject"
  /\ cpc'[u] = "exit" <=> cpc[u] = "exit"

\* A unit that was left alone keeps its exact record.
LEMMA UnitKeptExact ==
  ASSUME RecordInv, NEW u \in Units, UnitKept(u)
  PROVE  /\ MapExact(u)' /\ EjectingExact(u)'
         /\ \A m : m.unit = u => (RecordComplete(m)' <=> RecordComplete(m))
         /\ finished' = finished /\ collected'[u] = collected[u] => FinishedExact(u)'
  <1>1. \A m : m.unit = u => (RecordComplete(m)' <=> RecordComplete(m))
    BY DEF RecordComplete, UnitKept
  <1>2. HookID(u)' = HookID(u)
    BY DEF HookID, JobOf
  <1>3. MapExact(u)'
    BY <1>1, <1>2 DEF MapExact, RecordInv, UnitKept
  <1>4. EjectingExact(u)'
    BY <1>1 DEF EjectingExact, RecordInv, UnitKept
  <1>5. ASSUME finished' = finished, collected'[u] = collected[u] PROVE FinishedExact(u)'
    <2>1. Records(u)' = Records(u)
      BY <1>5 DEF Records
    <2>2. \A i \in Records(u) : finished[i].unit = u
      BY DEF Records
    <2>. QED BY <1>1, <1>5, <2>1, <2>2 DEF FinishedExact, RecordInv, UnitKept
  <1>. QED BY <1>1, <1>3, <1>4, <1>5

\* A step that leaves every unit alone preserves the invariant.
LEMMA KeepsRecordsStep ==
  ASSUME RecordInv, IInv', UNCHANGED <<finished, collected>>, finClosed' => client' = "done",
         \A j \in Jobs : JobRecords(j)', \A u \in Units : UnitKept(u)
  PROVE  RecordInv'
  <1>1. ASSUME NEW u \in Units PROVE MapExact(u)' /\ EjectingExact(u)' /\ FinishedExact(u)'
    <2>1. finished' = finished /\ collected'[u] = collected[u]
      OBVIOUS
    <2>. QED BY <2>1, UnitKeptExact
  <1>. QED BY <1>1 DEF RecordInv

\* Steps that do not touch goroutines of units, errors or records.
LEMMA UntouchedUnits ==
  ASSUME UNCHANGED <<produced, hook, ejecting, ppc, cpc>>,
         \A j \in Jobs : metrics'[j].errors = metrics[j].errors
  PROVE  /\ \A u \in Units : UnitKept(u)
         /\ \A j \in Jobs : JobRecords(j) => JobRecords(j)'
  <1>1. \A u \in Units : ErrorsOf(u)' = ErrorsOf(u)
    BY UnitTypes DEF ErrorsOf
  <1>2. \A u \in Units : HasRecord(u)' <=> HasRecord(u)
    BY DEF HasRecord
  <1>. QED BY <1>1, <1>2 DEF UnitKept, JobRecords, HookID, JobOf

\* Steps of a job that touch neither errors, records nor streams.
LEMMA QuietJobRecords ==
  ASSUME RecordInv, IInv', NEW j \in Jobs,
         \/ RunRejected(j) \/ RunAcquire(j) \/ RunAcquired(j) \/ CancelRun(j)
         \/ ReceiveUnit(j) \/ UnitsExhausted(j) \/ WgDone(j) \/ ReleaseSem(j) \/ FinishDone(j)
         \/ (\E u \in Units : ReportUnit(j, u)) \/ WriteUnit(j) \/ EndEnumerating(j)
  PROVE  RecordInv'
  <1>. USE DEF RunRejected, RunAcquire, RunAcquired, CancelRun, ReceiveUnit, UnitsExhausted, WgDone,
               ReleaseSem, FinishDone, ReportUnit, WriteUnit, EndEnumerating, JobStep, EnumStep
  <1>1. UNCHANGED <<produced, hook, ejecting, ppc, cpc, finished, collected, finClosed>>
    BY DEF hookVars, streamVars
  <1>2. \A k \in Jobs : metrics'[k].errors = metrics[k].errors
    BY DEF progVars, RecordInv, IInv, TypeOK, TypeProgress, JobProgressMetrics
  <1>3. finClosed' => client' = "done"
    BY <1>1 DEF RecordInv, mgrVars
  <1>. QED BY <1>1, <1>2, <1>3, UntouchedUnits, KeepsRecordsStep DEF RecordInv

\* Steps outside the jobs: Close comes after every job.
LEMMA OtherRecords ==
  ASSUME RecordInv, IInv',
         \/ \E n \in Limits : SetMaxConcurrentSources(n)
         \/ ScanChunk \/ WaitCalled \/ Waiting \/ ParentCancelled \/ ScanWorker \/ UNCHANGED vars
  PROVE  RecordInv'
  <1>. USE DEF SetMaxConcurrentSources, ScanChunk, WaitCalled, Waiting, WaitReturned, HooksClosed,
               ParentCancelled, ScanWorker
  <1>1. UNCHANGED <<produced, hook, ejecting, ppc, cpc, finished, collected, metrics>>
    BY DEF hookVars, streamVars, progVars, vars
  <1>2. finClosed' => client' = "done"
    BY DEF RecordInv, mgrVars, hookVars, vars
  <1>. QED BY <1>1, <1>2, UntouchedUnits, KeepsRecordsStep DEF RecordInv

\* An error reaches the records of its job and of its own unit, if any.
LEMMA ErrorReachesItsUnit ==
  ASSUME RecordInv, DistinctHookIDs, NEW j \in Jobs, NEW e \in Error,
         e.unit # None => UnitJob[e.unit] = j,
         hook' = HookError(hook, j, e),
         \A k \in Jobs : k # j => metrics'[k].errors = metrics[k].errors,
         metrics'[j].errors = metrics[j].errors \cup {e},
         UNCHANGED ejecting
  PROVE  /\ \A u \in Units \ {e.unit} : ErrorsOf(u)' = ErrorsOf(u) /\ hook'[HookID(u)] = hook[HookID(u)]
         /\ \A k \in Jobs : JobRecords(k)'
         /\ e.unit # None => /\ ErrorsOf(e.unit)' = ErrorsOf(e.unit) \cup {e}
                             /\ hook'[HookID(e.unit)] =
                                  IF hook[HookID(e.unit)] = None THEN None
                                  ELSE [hook[HookID(e.unit)] EXCEPT !.errors = @ \cup {e}]
  <1>1. \A u \in Units \ {e.unit} : ErrorsOf(u)' = ErrorsOf(u)
    BY UnitTypes DEF ErrorsOf
  <1>2. ASSUME NEW u \in Units \ {e.unit} PROVE hook'[HookID(u)] = hook[HookID(u)]
    <2>1. HookID(u) \in HookIDs /\ HookID(u)[2] # None
      BY DistinctRecords, StreamTypes, UnitTypes
    <2>2. e.unit # None => HookID(e.unit) # HookID(u)
      BY DistinctRecords, UnitTypes DEF Error
    <2>. QED BY <2>1, <2>2 DEF HookError
  <1>3. ASSUME NEW k \in Jobs PROVE JobRecords(k)'
    <2>1. HookID(k) \in HookIDs /\ HookID(k)' = HookID(k)
      BY StreamTypes, JobStreamTypes DEF HookID, JobOf
    <2>2. hook \in [HookIDs -> UnitMetrics \cup {None}] /\ JobRecords(k)
      BY DEF RecordInv, IInv, TypeOK, TypeHook
    <2> DEFINE id == HookID(k)
    <2>3. hook'[id] = IF hook[id] # None /\ id[1] = j
                         /\ (id[2] = None \/ (e.unit # None /\ id = HookID(e.unit)))
                      THEN [hook[id] EXCEPT !.errors = @ \cup {e}] ELSE hook[id]
      BY <2>1 DEF HookError
    <2>4. hook[id] \in UnitMetrics \cup {None} /\ (hook[id] # None => hook[id].unit = k)
      BY <2>1, <2>2 DEF JobRecords
    <2>5. hook'[id] # None => hook'[id].unit = k
      <3> HIDE DEF id
      <3>. QED BY <2>3, <2>4 DEF UnitMetrics
    <2>. QED BY <2>1, <2>2, <2>5 DEF JobRecords
  <1>4. ASSUME e.unit # None
        PROVE  /\ ErrorsOf(e.unit)' = ErrorsOf(e.unit) \cup {e}
               /\ hook'[HookID(e.unit)] =
                    IF hook[HookID(e.unit)] = None THEN None
                    ELSE [hook[HookID(e.unit)] EXCEPT !.errors = @ \cup {e}]
    <2>1. e.unit \in Units /\ JobOf(e.unit) = j /\ e.unit \in Streams
      BY <1>4, UnitTypes DEF Error
    <2>2. HookID(e.unit) \in HookIDs /\ HookID(e.unit)[1] = j
      <3>1. HookID(e.unit) = <<UnitJob[e.unit], UnitID[e.unit]>> /\ UnitJob[e.unit] = j
        BY <1>4, <2>1, DistinctRecords
      <3>2. HookID(e.unit)[1] = UnitJob[e.unit]
        BY <3>1
      <3>3. HookID(e.unit) \in HookIDs
        BY <2>1 DEF HookIDs
      <3>. QED BY <3>1, <3>2, <3>3
    <2>3. hook'[HookID(e.unit)] =
             IF hook[HookID(e.unit)] = None THEN None
             ELSE [hook[HookID(e.unit)] EXCEPT !.errors = @ \cup {e}]
      BY <1>4, <2>2 DEF HookError
    <2>4. ErrorsOf(e.unit)' = ErrorsOf(e.unit) \cup {e}
      BY <2>1 DEF ErrorsOf, JobOf
    <2>. QED BY <2>3, <2>4
  <1>. QED BY <1>1, <1>2, <1>3, <1>4

\* ReportError adds one error to the job's, and to the records it concerns.
LEMMA ReportErrorEffects ==
  ASSUME TypeProgress, NEW j \in Jobs, NEW e, ReportError(j, e)
  PROVE  /\ hook' = HookError(hook, j, e)
         /\ \A k \in Jobs : k # j => metrics'[k].errors = metrics[k].errors
         /\ metrics'[j].errors = metrics[j].errors \cup {e}
  BY DEF ReportError, TypeProgress, JobProgressMetrics

\* An error of a job is not one of its units.
LEMMA ErrorRecords ==
  ASSUME RecordInv, IInv', HookInstalled, DistinctHookIDs, NEW j \in Jobs,
         RunAcquireFailed(j) \/ UnitErr(j) \/ EnumerateReturned(j) \/ EndRun(j) \/ ChunksReturned(j)
  PROVE  RecordInv'
  <1>. USE DEF RunAcquireFailed, UnitErr, EnumerateReturned, EndRun, ChunksReturned, JobStep, EnumStep,
               ProducerStep
  <1>1. UNCHANGED <<produced, ejecting, cpc, finished, collected, finClosed>>
    BY DEF hookVars, streamVars
  <1>2. finClosed' => client' = "done"
    BY <1>1 DEF RecordInv, mgrVars
  <1>3. \A u \in Units : ppc'[u] = ppc[u]
    <2>1. \/ ppc' = ppc \/ ppc' = [ppc EXCEPT ![j] = "done"]
      BY DEF streamVars
    <2>. QED BY <2>1, UnitTypes, ConstantsAssumption DEF RecordInv, IInv, TypeOK, TypeStreams
  <1>4. /\ \A u \in Units : ErrorsOf(u)' = ErrorsOf(u) /\ hook'[HookID(u)] = hook[HookID(u)]
        /\ \A k \in Jobs : JobRecords(k)'
    <2>1. ASSUME hook' = hook, \A k \in Jobs : metrics'[k].errors = metrics[k].errors
          PROVE  /\ \A u \in Units : ErrorsOf(u)' = ErrorsOf(u) /\ hook'[HookID(u)] = hook[HookID(u)]
                 /\ \A k \in Jobs : JobRecords(k)'
      BY <1>1, <2>1, UnitTypes DEF ErrorsOf, JobRecords, HookID, JobOf, RecordInv
    <2>2. CASE hook' = hook /\ \A k \in Jobs : metrics'[k].errors = metrics[k].errors
      BY <2>1, <2>2
    <2>3. ASSUME NEW e \in Error, e.unit = None, hook' = HookError(hook, j, e),
                 \A k \in Jobs : k # j => metrics'[k].errors = metrics[k].errors,
                 metrics'[j].errors = metrics[j].errors \cup {e}
          PROVE  /\ \A u \in Units : ErrorsOf(u)' = ErrorsOf(u) /\ hook'[HookID(u)] = hook[HookID(u)]
                 /\ \A k \in Jobs : JobRecords(k)'
      <3>1. \A u \in Units : u \in Units \ {e.unit}
        BY <2>3, UnitTypes
      <3>2. UNCHANGED ejecting /\ (e.unit # None => UnitJob[e.unit] = j)
        BY <1>1, <2>3
      <3>3. /\ \A u \in Units \ {e.unit} : ErrorsOf(u)' = ErrorsOf(u) /\ hook'[HookID(u)] = hook[HookID(u)]
            /\ \A k \in Jobs : JobRecords(k)'
        BY <2>3, <3>2, ErrorReachesItsUnit
      <3>. QED BY <3>1, <3>3
    <2>4. \/ hook' = hook /\ \A k \in Jobs : metrics'[k].errors = metrics[k].errors
          \/ \E e \in Error : /\ e.unit = None /\ hook' = HookError(hook, j, e)
                              /\ \A k \in Jobs : k # j => metrics'[k].errors = metrics[k].errors
                              /\ metrics'[j].errors = metrics[j].errors \cup {e}
      <3>1. CASE EndRun(j)
        <4>1. CtxDone(j) \/ ~CtxDone(j)
          OBVIOUS
        <4>2. CASE CtxDone(j)
          <5>1. hook' = HookError(hook, j, [fatal |-> TRUE, unit |-> None])
            BY <3>1, <4>2
          <5>2. /\ \A k \in Jobs : k # j => metrics'[k].errors = metrics[k].errors
                /\ metrics'[j].errors = metrics[j].errors \cup {[fatal |-> TRUE, unit |-> None]}
            BY <3>1, <4>2 DEF RecordInv, IInv, TypeOK, TypeProgress, JobProgressMetrics
          <5>. QED BY <5>1, <5>2, ErrorTypes
        <4>3. CASE ~CtxDone(j)
          BY <3>1, <4>3 DEF RecordInv, IInv, TypeOK, TypeProgress, JobProgressMetrics
        <4>. QED BY <4>2, <4>3
      <3>2. CASE ~EndRun(j)
        <4>1. \/ UNCHANGED <<metrics, hook>>
              \/ ReportError(j, [fatal |-> TRUE, unit |-> None])
              \/ ReportError(j, [fatal |-> FALSE, unit |-> None])
          BY <3>2
        <4>2. CASE UNCHANGED <<metrics, hook>>
          BY <4>2
        <4>. QED BY <4>1, <4>2, ErrorTypes, ReportErrorEffects DEF RecordInv, IInv, TypeOK
      <3>. QED BY <3>1, <3>2
    <2>. QED BY <2>2, <2>3, <2>4
  <1>5. \A u \in Units : UnitKept(u)
    BY <1>1, <1>3, <1>4 DEF UnitKept, HasRecord
  <1>. QED BY <1>1, <1>2, <1>4, <1>5, KeepsRecordsStep

\* Counting a chunk of a job touches the record of that job alone.
LEMMA ReportJobChunk ==
  ASSUME RecordInv, DistinctHookIDs, NEW j \in Jobs, ReportChunk(j), UNCHANGED ejecting
  PROVE  /\ \A u \in Units : hook'[HookID(u)] = hook[HookID(u)]
         /\ \A k \in Jobs : JobRecords(k)' /\ metrics'[k].errors = metrics[k].errors
  <1> DEFINE id == HookID(j)
             m == IF hook[id] = None /\ j \in Jobs THEN NewMetrics(j) ELSE hook[id]
             counted == [m EXCEPT !.chunks = @ + 1]
  <1>1. j \in Streams /\ JobOf(j) = j /\ j # None
    BY JobStreamTypes, ConstantsAssumption
  <1>2. hook' = IF ~HookInstalled \/ m = None THEN hook
                ELSE [hook EXCEPT ![id] = counted]
    BY DEF ReportChunk
  <1>3. /\ \A u \in Units : HookID(u) # id /\ HookID(u) \in HookIDs
        /\ \A k \in Jobs \ {j} : HookID(k) # id
        /\ \A k \in Jobs : HookID(k) \in HookIDs /\ HookID(k)' = HookID(k)
        /\ id \in HookIDs
    <2>1. \A u \in Units : u # j
      BY ConstantsAssumption
    <2>2. \A k \in Jobs : k \in Streams /\ HookID(k)' = HookID(k)
      BY JobStreamTypes DEF HookID, JobOf
    <2>. QED BY <1>1, <2>1, <2>2, DistinctRecords, UnitTypes, StreamTypes
  <1>4. hook \in [HookIDs -> UnitMetrics \cup {None}] /\ \A k \in Jobs : JobRecords(k)
    BY DEF RecordInv, IInv, TypeOK, TypeHook
  <1>5. m # None => m \in UnitMetrics /\ counted.unit = j
    BY <1>1, <1>3, <1>4 DEF JobRecords, NewMetrics, UnitMetrics
  <1>6. \A k \in Jobs : metrics'[k].errors = metrics[k].errors
    BY <1>1, ReportChunkAccounts DEF RecordInv, IInv, TypeOK
  <1>7. \A u \in Units : hook'[HookID(u)] = hook[HookID(u)]
    <2> HIDE DEF counted, m, id
    <2>. QED BY <1>2, <1>3, <1>4
  <1>8. ASSUME NEW k \in Jobs PROVE JobRecords(k)'
    <2>1. hook'[HookID(k)] # None => hook'[HookID(k)].unit = k
      <3>1. CASE k = j
        <4>1. hook[id] # None => hook[id].unit = j
          BY <1>4 DEF JobRecords
        <4>2. hook'[id] = hook[id] \/ (m # None /\ hook'[id] = counted)
          <5> HIDE DEF counted, m, id
          <5>. QED BY <1>2, <1>3, <1>4
        <4>3. hook'[id] # None => hook'[id].unit = j
          <5> HIDE DEF counted, m, id
          <5>. QED BY <1>5, <4>1, <4>2
        <4>. QED BY <3>1, <4>3
      <3>2. CASE k # j
        <4>1. hook'[HookID(k)] = hook[HookID(k)]
          <5> HIDE DEF counted, m, id
          <5>. QED BY <1>2, <1>3, <1>4, <3>2
        <4>. QED BY <1>4, <4>1 DEF JobRecords
      <3>. QED BY <3>1, <3>2
    <2>. QED BY <1>3, <1>4, <2>1 DEF JobRecords
  <1>. QED BY <1>6, <1>7, <1>8

\* Steps of a stream that neither start, count nor end a unit.
LEMMA QuietStreamRecords ==
  ASSUME RecordInv, AccountInv, IInv', DistinctHookIDs, NEW s \in Streams,
         \/ (StartJob(s) /\ s \in Jobs) \/ ChunksWrite(s) \/ ChunkWritten(s)
         \/ ConsumerSends(s) \/ ConsumerReceives(s)
  PROVE  RecordInv'
  <1>. USE DEF StartJob, ChunksWrite, ChunkWritten, ConsumerSends, ConsumerReceives, JobStep,
               ProducerStep, ConsumerStep
  <1>1. UNCHANGED <<ejecting, finished, collected, finClosed, client>>
    BY DEF hookVars, mgrVars
  <1>2. /\ \A u \in Units : hook'[HookID(u)] = hook[HookID(u)]
        /\ \A k \in Jobs : JobRecords(k)' /\ metrics'[k].errors = metrics[k].errors
    <2>1. CASE hook' = hook /\ \A k \in Jobs : metrics'[k].errors = metrics[k].errors
      BY <1>1, <2>1 DEF RecordInv, JobRecords, HookID, JobOf
    <2>2. CASE s \in Jobs /\ ReportChunk(s)
      BY <1>1, <2>2, ReportJobChunk
    <2>3. \/ hook' = hook /\ \A k \in Jobs : metrics'[k].errors = metrics[k].errors
          \/ s \in Jobs /\ ReportChunk(s)
      <3>1. CASE StartJob(s) /\ s \in Jobs
        BY <3>1 DEF hookVars, RecordInv, IInv, TypeOK, TypeProgress, JobProgressMetrics
      <3>2. CASE ConsumerReceives(s)
        BY <3>2
      <3>3. CASE ChunksWrite(s) \/ ChunkWritten(s) \/ ConsumerSends(s)
        BY <3>3
      <3>. QED BY <3>1, <3>2, <3>3
    <2>. QED BY <2>1, <2>2, <2>3
  <1>3. \A u \in Units : ErrorsOf(u)' = ErrorsOf(u)
    BY <1>2, UnitTypes DEF ErrorsOf
  <1>4. \A t \in Streams \ {s} : ppc'[t] = ppc[t] /\ cpc'[t] = cpc[t] /\ produced'[t] = produced[t]
    BY DEF RecordInv, IInv, TypeOK, TypeStreams, streamVars
  <1>5. \/ s \in Jobs
        \/ /\ produced'[s] = produced[s]
           /\ \/ cpc'[s] = cpc[s] /\ ppc[s] = "write" /\ ppc'[s] = "produce"
              \/ ppc'[s] = ppc[s] /\ {cpc[s], cpc'[s]} = {"range", "send"}
    BY DEF RecordInv, IInv, TypeOK, TypeStreams, streamVars
  <1>6. \A u \in Units : UnitKept(u)
    <2>1. \A u \in Units : u \in Streams /\ u \notin Jobs
      BY UnitTypes, ConstantsAssumption
    <2>2. ASSUME NEW u \in Units PROVE UnitKept(u)
      <3>1. CASE u = s
        BY <1>1, <1>2, <1>3, <1>5, <2>1, <3>1 DEF UnitKept, HasRecord, RecordInv, MapExact
      <3>2. CASE u # s
        BY <1>1, <1>2, <1>3, <1>4, <2>1, <3>2 DEF UnitKept, HasRecord
      <3>. QED BY <3>1, <3>2
    <2>. QED BY <2>2
  <1>7. finClosed' => client' = "done"
    BY <1>1 DEF RecordInv
  <1>. QED BY <1>1, <1>2, <1>6, <1>7, KeepsRecordsStep

\* A unit is spawned once, and has no record until its producer starts.
LEMMA SpawnUnitRecords ==
  ASSUME RecordInv, AccountInv, IInv', NEW j \in Jobs, SpawnUnit(j)
  PROVE  RecordInv'
  <1>. USE DEF SpawnUnit, JobStep
  <1>1. UNCHANGED <<produced, hook, ejecting, finished, collected, finClosed, client, metrics>>
    BY DEF hookVars, mgrVars, progVars
  <1>2. PICK v \in Units : v = jspawn[j]
    BY DEF AccountInv, OnePlace, IInv, TypeOK, TypeJobs
  <1>3. UnitJob[v] = j /\ v \in Streams
    BY <1>2, UnitTypes DEF RecordInv, IInv, UnitsStayInJob
  <1>4. cpc[v] = "idle" /\ ppc[v] = "idle"
    BY <1>2, <1>3 DEF AccountInv, UnitsConserved, OnTheWay, RecordInv, MapExact
  <1>5. /\ \A s \in Streams : s # v => cpc'[s] = cpc[s] /\ ppc'[s] = ppc[s]
        /\ cpc'[v] = "range" /\ ppc'[v] = "start"
    BY <1>2, <1>3 DEF AccountInv, IInv, TypeOK, TypeStreams
  <1>6. \A u \in Units : ErrorsOf(u)' = ErrorsOf(u)
    BY <1>1 DEF ErrorsOf, JobOf
  <1>7. \A u \in Units : UnitKept(u)
    BY <1>1, <1>4, <1>5, <1>6, UnitTypes DEF UnitKept, HasRecord
  <1>8. \A k \in Jobs : JobRecords(k)'
    BY <1>1 DEF RecordInv, JobRecords, HookID, JobOf
  <1>. QED BY <1>1, <1>7, <1>8, KeepsRecordsStep DEF RecordInv

\* A step of one unit, which leaves the others alone.
LEMMA OneUnitStep ==
  ASSUME RecordInv, IInv', NEW s \in Units, UNCHANGED <<finished, collected>>,
         finClosed' => client' = "done", \A j \in Jobs : JobRecords(j)',
         \A u \in Units \ {s} : UnitKept(u),
         MapExact(s)', EjectingExact(s)', FinishedExact(s)'
  PROVE  RecordInv'
  <1>1. ASSUME NEW u \in Units PROVE MapExact(u)' /\ EjectingExact(u)' /\ FinishedExact(u)'
    <2>1. CASE u = s
      BY <2>1
    <2>2. CASE u # s
      <3>1. UnitKept(u) /\ finished' = finished /\ collected'[u] = collected[u]
        BY <2>2
      <3>. QED BY <3>1, UnitKeptExact
    <2>. QED BY <2>1, <2>2
  <1>. QED BY <1>1 DEF RecordInv

\* While its producer runs a unit has a consumer and no record to send.
LEMMA LiveUnit ==
  ASSUME RecordInv, NEW s \in Units, ppc[s] \in {"start", "produce", "write"}
  PROVE  /\ cpc[s] \in {"range", "send"} /\ ejecting[s] = None /\ Records(s) = {}
         /\ ~finClosed
  <1>1. cpc[s] \in {"range", "send"}
    BY UnitTypes DEF RecordInv, IInv, ProducersHaveConsumers
  <1>2. ejecting[s] = None /\ Records(s) = {}
    BY <1>1 DEF RecordInv, EjectingExact, FinishedExact
  <1>3. UnitJob[s] \in wg
    BY <1>1, UnitTypes DEF RecordInv, IInv, ConsumersInsideRun, CountedWhileRunning, Running
  <1>4. ~finClosed
    BY <1>3 DEF RecordInv, IInv, ClosedAfterWait
  <1>. QED BY <1>1, <1>2, <1>4

\* A step of the producer of a unit concerns the record in the map alone.
LEMMA LiveUnitStep ==
  ASSUME RecordInv, IInv', NEW s \in Units, ppc[s] \in {"start", "produce", "write"},
         UNCHANGED <<cpc, ejecting, finished, collected, finClosed>>, MapExact(s)',
         \A j \in Jobs : JobRecords(j)', \A u \in Units \ {s} : UnitKept(u)
  PROVE  RecordInv'
  <1>1. EjectingExact(s)'
    BY LiveUnit DEF EjectingExact
  <1>2. Records(s)' = Records(s)
    BY DEF Records
  <1>3. FinishedExact(s)'
    BY <1>2, LiveUnit DEF FinishedExact, RecordInv
  <1>4. finClosed' => client' = "done"
    BY LiveUnit
  <1>. QED BY <1>1, <1>3, <1>4, OneUnitStep

\* The state of the producer, the consumer and the errors of the other units.
LEMMA OtherUnitsKept ==
  ASSUME RecordInv, NEW s,
         \A u \in Units \ {s} : /\ ppc'[u] = ppc[u] /\ cpc'[u] = cpc[u]
                                /\ produced'[u] = produced[u] /\ ejecting'[u] = ejecting[u]
                                /\ ErrorsOf(u)' = ErrorsOf(u)
                                /\ hook'[HookID(u)] = hook[HookID(u)]
  PROVE  \A u \in Units \ {s} : UnitKept(u)
  BY DEF UnitKept, HasRecord

\* StartUnitChunking makes an empty record of a unit that has produced nothing.
LEMMA StartUnitChunkingRecords ==
  ASSUME RecordInv, IInv', HookInstalled, DistinctHookIDs, NEW s \in Streams, StartUnitChunking(s)
  PROVE  RecordInv'
  <1>. USE DEF StartUnitChunking, ProducerStep
  <1>1. /\ UNCHANGED <<cpc, ejecting, finished, collected, finClosed, metrics, produced, client>>
        /\ hook' = [hook EXCEPT ![HookID(s)] = NewMetrics(s)]
        /\ ppc[s] = "start" /\ ppc' = [ppc EXCEPT ![s] = "produce"]
    BY DEF mgrVars
  <1>2. hook \in [HookIDs -> UnitMetrics \cup {None}] /\ ppc \in [Streams -> {"idle", "start", "produce", "write", "done"}]
    BY DEF RecordInv, IInv, TypeOK, TypeHook, TypeStreams
  <1>3. \A t \in Streams : HookID(t) \in HookIDs /\ HookID(t)' = HookID(t)
    BY DEF HookIDs, HookID, JobOf
  <1>4. \A t \in Streams \ {s} : hook'[HookID(t)] = hook[HookID(t)] /\ ppc'[t] = ppc[t]
    BY <1>1, <1>2, <1>3, DistinctRecords
  <1>5. hook'[HookID(s)] = NewMetrics(s) /\ ppc'[s] = "produce"
    BY <1>1, <1>2, <1>3
  <1>6. \A u \in Units : ErrorsOf(u)' = ErrorsOf(u)
    BY <1>1 DEF ErrorsOf, JobOf
  <1>7. \A u \in Units \ {s} : UnitKept(u)
    BY <1>1, <1>4, <1>6, UnitTypes, OtherUnitsKept
  <1>8. ASSUME NEW j \in Jobs PROVE JobRecords(j)'
    <2>1. j \in Streams /\ JobRecords(j)
      BY JobStreamTypes DEF RecordInv
    <2>2. hook'[HookID(j)] # None => hook'[HookID(j)].unit = j
      BY <1>4, <1>5, <2>1 DEF JobRecords, NewMetrics
    <2>. QED BY <1>1, <1>3, <2>1, <2>2 DEF JobRecords
  <1>9. CASE s \in Units
    <2>1. produced[s] = 0 /\ ErrorsOf(s) = {}
      BY <1>1, <1>9 DEF RecordInv, MapExact
    <2>2. HasRecord(s)' /\ NewMetrics(s) # None
      <3>1. hook' \in [HookIDs -> UnitMetrics \cup {None}]
        BY DEF IInv, TypeOK, TypeHook
      <3>2. None \notin UnitMetrics
        BY ConstantsAssumption
      <3>3. NewMetrics(s) \in UnitMetrics
        BY DEF NewMetrics, UnitMetrics
      <3>. QED BY <1>5, <3>2, <3>3 DEF HasRecord
    <2>3. RecordComplete(hook[HookID(s)])'
      <3>1. NewMetrics(s).unit = s /\ NewMetrics(s).chunks = 0 /\ NewMetrics(s).errors = {}
        BY DEF NewMetrics
      <3>2. produced'[s] = 0 /\ ErrorsOf(s)' = {}
        BY <1>1, <1>6, <1>9, <2>1
      <3>3. hook'[HookID(s)'] = NewMetrics(s)
        BY <1>3, <1>5
      <3>. QED BY <3>1, <3>2, <3>3 DEF RecordComplete
    <2>4. cpc'[s] # "idle"
      BY <1>1, <1>9, LiveUnit
    <2>5. MapExact(s)'
      BY <1>3, <1>5, <2>2, <2>3, <2>4 DEF MapExact, NewMetrics
    <2>. QED BY <1>1, <1>7, <1>8, <1>9, <2>5, LiveUnitStep
  <1>10. CASE s \notin Units
    <2>1. \A u \in Units : UnitKept(u)
      BY <1>7, <1>10
    <2>. QED BY <1>1, <1>8, <2>1, KeepsRecordsStep DEF RecordInv
  <1>. QED BY <1>9, <1>10

\* A chunk is counted in the record of its unit, which is still in the map.
LEMMA ChunkReportedRecords ==
  ASSUME RecordInv, IInv', HookInstalled, DistinctHookIDs, NEW s \in Streams, ChunkReported(s)
  PROVE  RecordInv'
  <1> DEFINE id == HookID(s)
             counted == [hook[id] EXCEPT !.chunks = @ + 1]
  <1>. USE DEF ChunkReported, ProducerStep
  <1>1. /\ UNCHANGED <<cpc, ejecting, finished, collected, finClosed, client>>
        /\ s \in Units /\ ppc[s] = "produce" /\ ppc' = [ppc EXCEPT ![s] = "write"]
        /\ produced' = [produced EXCEPT ![s] = @ + 1]
    BY DEF mgrVars
  <1>2. /\ hook \in [HookIDs -> UnitMetrics \cup {None}] /\ produced \in [Streams -> Nat]
        /\ ppc \in [Streams -> {"idle", "start", "produce", "write", "done"}]
    BY DEF RecordInv, IInv, TypeOK, TypeHook, TypeStreams
  <1>3. \A t \in Streams : HookID(t) \in HookIDs /\ HookID(t)' = HookID(t)
    BY DEF HookIDs, HookID, JobOf
  <1>4. HasRecord(s) /\ hook[id] # None /\ hook[id].unit = s /\ RecordComplete(hook[id])
    BY <1>1 DEF HasRecord, RecordInv, MapExact
  <1>5. hook[id] \in UnitMetrics
    BY <1>1, <1>2, <1>3, <1>4
  <1>6. s \notin Jobs
    BY <1>1, ConstantsAssumption
  <1>7. hook' = [hook EXCEPT ![id] = counted]
    BY <1>4, <1>6 DEF ReportChunk
  <1>8. \A t \in Streams \ {s} : /\ hook'[HookID(t)] = hook[HookID(t)] /\ ppc'[t] = ppc[t]
                                 /\ produced'[t] = produced[t]
    <2> HIDE DEF counted
    <2>. QED BY <1>1, <1>2, <1>3, <1>7, DistinctRecords
  <1>9. hook'[id] = counted /\ ppc'[s] = "write" /\ produced'[s] = produced[s] + 1
    <2> HIDE DEF counted
    <2>. QED BY <1>1, <1>2, <1>3, <1>7
  <1>10. \A u \in Units : ErrorsOf(u)' = ErrorsOf(u)
    <2>1. \A j \in Jobs : metrics'[j].errors = metrics[j].errors
      BY ReportChunkAccounts DEF RecordInv, IInv, TypeOK
    <2>. QED BY <2>1, UnitTypes DEF ErrorsOf
  <1>11. \A u \in Units \ {s} : UnitKept(u)
    BY <1>1, <1>8, <1>10, UnitTypes, OtherUnitsKept
  <1>12. ASSUME NEW j \in Jobs PROVE JobRecords(j)'
    <2>1. j \in Streams \ {s} /\ JobRecords(j)
      BY <1>1, <1>6, JobStreamTypes DEF RecordInv
    <2>. QED BY <1>1, <1>3, <1>8, <2>1 DEF JobRecords
  <1>13. counted.unit = s /\ counted.chunks = produced[s] + 1 /\ counted.errors = ErrorsOf(s)
         /\ counted \in UnitMetrics
    BY <1>1, <1>4, <1>5 DEF RecordComplete, UnitMetrics
  <1>14. HasRecord(s)' /\ cpc'[s] # "idle"
    BY <1>1, <1>9, LiveUnit DEF HasRecord
  <1>15. MapExact(s)'
    <2>1. RecordComplete(hook[id])'
      <3> HIDE DEF counted
      <3>. QED BY <1>1, <1>3, <1>9, <1>10, <1>13 DEF RecordComplete
    <2>2. counted # None
      <3> HIDE DEF counted
      <3>. QED BY <1>13, ConstantsAssumption
    <2> HIDE DEF counted
    <2>. QED BY <1>3, <1>9, <1>13, <1>14, <2>1, <2>2 DEF MapExact
  <1>. QED BY <1>1, <1>11, <1>12, <1>15, LiveUnitStep

\* An error of a live unit is recorded for the job and in the unit's record.
LEMMA UnitErrorRecords ==
  ASSUME RecordInv, IInv', DistinctHookIDs, NEW s \in Units, NEW e \in Error, e.unit = s,
         ppc[s] = "produce", \/ ppc' = ppc
                             \/ ppc' = [ppc EXCEPT ![s] = "done"],
         UNCHANGED <<cpc, ejecting, finished, collected, finClosed, client, produced>>,
         ReportError(JobOf(s), e)
  PROVE  RecordInv'
  <1> DEFINE id == HookID(s)
             failed == [hook[id] EXCEPT !.errors = @ \cup {e}]
  <1>1. /\ hook \in [HookIDs -> UnitMetrics \cup {None}]
        /\ ppc \in [Streams -> {"idle", "start", "produce", "write", "done"}]
    BY DEF RecordInv, IInv, TypeOK, TypeHook, TypeStreams
  <1>2. \A t \in Streams : HookID(t) \in HookIDs /\ HookID(t)' = HookID(t)
    BY DEF HookIDs, HookID, JobOf
  <1>3. s \in Streams /\ s # None /\ JobOf(s) \in Jobs /\ UnitJob[s] = JobOf(s)
    BY UnitTypes
  <1>4. HasRecord(s) /\ hook[id] # None /\ hook[id].unit = s /\ RecordComplete(hook[id])
    BY DEF HasRecord, RecordInv, MapExact
  <1>5. hook[id] \in UnitMetrics
    BY <1>1, <1>2, <1>3, <1>4
  <1>6. /\ \A u \in Units \ {s} : ErrorsOf(u)' = ErrorsOf(u) /\ hook'[HookID(u)] = hook[HookID(u)]
        /\ \A k \in Jobs : JobRecords(k)'
        /\ ErrorsOf(s)' = ErrorsOf(s) \cup {e} /\ hook'[id] = failed
    <2>1. /\ hook' = HookError(hook, JobOf(s), e)
          /\ \A k \in Jobs : k # JobOf(s) => metrics'[k].errors = metrics[k].errors
          /\ metrics'[JobOf(s)].errors = metrics[JobOf(s)].errors \cup {e}
      BY <1>3, ReportErrorEffects DEF RecordInv, IInv, TypeOK
    <2>2. e.unit # None => UnitJob[e.unit] = JobOf(s)
      BY <1>3
    <2>. QED BY <1>3, <1>4, <2>1, <2>2, ErrorReachesItsUnit
  <1>7. /\ \A t \in Streams \ {s} : ppc'[t] = ppc[t]
        /\ ppc'[s] \in {"produce", "done"}
    BY <1>1, <1>3
  <1>8. \A u \in Units \ {s} : UnitKept(u)
    BY <1>6, <1>7, UnitTypes, OtherUnitsKept
  <1>9. failed.unit = s /\ failed.chunks = produced[s] /\ failed.errors = ErrorsOf(s) \cup {e}
        /\ failed \in UnitMetrics
    BY <1>3, <1>4, <1>5 DEF RecordComplete, UnitMetrics
  <1>10. HasRecord(s)' /\ cpc'[s] # "idle"
    BY <1>7, LiveUnit DEF HasRecord
  <1>11. MapExact(s)'
    <2>1. RecordComplete(hook[id])'
      <3> HIDE DEF failed
      <3>. QED BY <1>2, <1>3, <1>6, <1>9 DEF RecordComplete
    <2>2. failed # None
      <3> HIDE DEF failed
      <3>. QED BY <1>9, ConstantsAssumption
    <2> HIDE DEF failed
    <2>. QED BY <1>2, <1>3, <1>6, <1>7, <1>9, <1>10, <2>1, <2>2 DEF MapExact
  <1>. QED BY <1>6, <1>8, <1>11, LiveUnitStep

\* ChunkErr and an error ChunkUnit returns reach the record of their unit.
LEMMA ProducerErrorRecords ==
  ASSUME RecordInv, IInv', HookInstalled, DistinctHookIDs, NEW s \in Streams,
         ChunkErr(s) \/ ChunkUnitReturned(s)
  PROVE  RecordInv'
  <1>. USE DEF ChunkErr, ChunkUnitReturned, ProducerStep
  <1>1. /\ UNCHANGED <<cpc, ejecting, finished, collected, finClosed, client, produced>>
        /\ s \in Units /\ ppc[s] = "produce"
        /\ ppc' = [ppc EXCEPT ![s] = "produce"] \/ ppc' = [ppc EXCEPT ![s] = "done"]
    BY DEF mgrVars
  <1>2. ppc \in [Streams -> {"idle", "start", "produce", "write", "done"}]
    BY DEF RecordInv, IInv, TypeOK, TypeStreams
  <1>3. ppc' = ppc \/ ppc' = [ppc EXCEPT ![s] = "done"]
    BY <1>1, <1>2
  <1>4. \A b \in BOOLEAN : [fatal |-> b, unit |-> s] \in Error
    BY <1>1 DEF Error
  <1>5. CASE ReportError(JobOf(s), [fatal |-> FALSE, unit |-> s])
    BY <1>1, <1>3, <1>4, <1>5, UnitErrorRecords
  <1>6. CASE ReportError(JobOf(s), [fatal |-> TRUE, unit |-> s])
    BY <1>1, <1>3, <1>4, <1>6, UnitErrorRecords
  <1>7. CASE UNCHANGED <<metrics, hook>> /\ ppc' = [ppc EXCEPT ![s] = "done"]
    <2>1. \A t \in Streams \ {s} : ppc'[t] = ppc[t]
      BY <1>2, <1>7
    <2>2. \A u \in Units : ErrorsOf(u)' = ErrorsOf(u)
      BY <1>7 DEF ErrorsOf, JobOf
    <2>3. ppc'[s] = "done" /\ cpc[s] \in {"range", "send"} /\ HasRecord(s)
      BY <1>1, <1>2, <1>7, LiveUnit DEF HasRecord
    <2>4. UnitKept(s)
      BY <1>1, <1>7, <2>2, <2>3 DEF UnitKept, HasRecord
    <2>5. \A u \in Units \ {s} : UnitKept(u)
      BY <1>1, <1>7, <2>1, <2>2, UnitTypes, OtherUnitsKept
    <2>6. \A j \in Jobs : JobRecords(j)'
      BY <1>1, <1>7 DEF RecordInv, JobRecords, HookID, JobOf
    <2>. QED BY <1>1, <2>4, <2>5, <2>6, KeepsRecordsStep DEF RecordInv
  <1>. QED BY <1>5, <1>6, <1>7

\* EndUnitChunking takes the record out when the producer has returned.
LEMMA ConsumerEndsRecords ==
  ASSUME RecordInv, IInv', HookInstalled, DistinctHookIDs, NEW s \in Streams, ConsumerEnds(s)
  PROVE  RecordInv'
  <1>. USE DEF ConsumerEnds, ConsumerStep
  <1>1. /\ UNCHANGED <<ppc, produced, finished, collected, finClosed, client>>
        /\ ppc[s] = "done" /\ cpc[s] = "range"
        /\ cpc' = [cpc EXCEPT ![s] = IF s \in Units THEN "eject" ELSE "exit"]
    BY DEF mgrVars
  <1>2. /\ hook \in [HookIDs -> UnitMetrics \cup {None}]
        /\ ejecting \in [Streams -> UnitMetrics \cup {None}]
        /\ cpc \in [Streams -> {"idle", "range", "send", "eject", "exit"}]
    BY DEF RecordInv, IInv, TypeOK, TypeHook, TypeStreams
  <1>3. \A t \in Streams : HookID(t) \in HookIDs /\ HookID(t)' = HookID(t)
    BY DEF HookIDs, HookID, JobOf
  <1>4. \A u \in Units : ErrorsOf(u)' = ErrorsOf(u)
    <2>1. \A j \in Jobs : metrics'[j].errors = metrics[j].errors
      BY DEF RecordInv, IInv, TypeOK, TypeProgress, JobProgressMetrics
    <2>. QED BY <2>1, UnitTypes DEF ErrorsOf
  <1>5. finClosed' => client' = "done"
    BY <1>1 DEF RecordInv
  <1>6. \A t \in Streams \ {s} : cpc'[t] = cpc[t] /\ ejecting'[t] = ejecting[t]
                                 /\ hook'[HookID(t)] = hook[HookID(t)]
    <2>1. CASE s \in Units
      BY <1>1, <1>2, <1>3, <2>1, DistinctRecords DEF FinishUnit
    <2>2. CASE s \notin Units
      BY <1>1, <1>2, <2>2
    <2>. QED BY <2>1, <2>2
  <1>7. \A u \in Units \ {s} : UnitKept(u)
    BY <1>1, <1>4, <1>6, UnitTypes, OtherUnitsKept
  <1>8. CASE s \in Units
    <2>1. ASSUME NEW j \in Jobs PROVE JobRecords(j)'
      <3>1. j \in Streams \ {s} /\ JobRecords(j)
        BY <1>8, JobStreamTypes, ConstantsAssumption DEF RecordInv
      <3>. QED BY <1>3, <1>6, <3>1 DEF JobRecords
    <2>2. HasRecord(s) /\ hook[HookID(s)] # None /\ hook[HookID(s)].unit = s
          /\ RecordComplete(hook[HookID(s)])
      BY <1>1, <1>8 DEF HasRecord, RecordInv, MapExact
    <2>3. cpc'[s] = "eject" /\ hook'[HookID(s)] = None /\ ejecting'[s] = hook[HookID(s)]
      BY <1>1, <1>2, <1>3, <1>8 DEF FinishUnit
    <2>4. MapExact(s)'
      BY <1>1, <1>3, <2>3 DEF MapExact, HasRecord
    <2>5. EjectingExact(s)'
      BY <1>1, <1>4, <1>8, <2>2, <2>3 DEF EjectingExact, RecordComplete
    <2>6. FinishedExact(s)'
      <3>1. Records(s)' = Records(s)
        BY <1>1 DEF Records
      <3>2. FinishedExact(s) /\ cpc[s] # "exit"
        BY <1>1, <1>8 DEF RecordInv
      <3>3. Records(s) = {}
        BY <3>2 DEF FinishedExact
      <3>. QED BY <1>1, <2>3, <3>1, <3>2, <3>3 DEF FinishedExact
    <2>. QED BY <1>1, <1>5, <1>7, <1>8, <2>1, <2>4, <2>5, <2>6, OneUnitStep
  <1>9. CASE s \notin Units
    <2>1. UNCHANGED <<hook, ejecting>>
      BY <1>9
    <2>2. \A j \in Jobs : JobRecords(j)'
      BY <1>3, <2>1, JobStreamTypes DEF RecordInv, JobRecords
    <2>3. \A u \in Units : UnitKept(u)
      BY <1>7, <1>9
    <2>. QED BY <1>1, <1>5, <2>2, <2>3, KeepsRecordsStep
  <1>. QED BY <1>8, <1>9

\* Finish takes out the record of the job and no unit's.
LEMMA FinishHookRecords ==
  ASSUME RecordInv, IInv', DistinctHookIDs, NEW j \in Jobs, FinishHook(j)
  PROVE  RecordInv'
  <1> DEFINE last == [hook[HookID(j)] EXCEPT !.errors = metrics[j].errors]
  <1>. USE DEF FinishHook, JobStep
  <1>1. /\ UNCHANGED <<ppc, cpc, produced, finished, collected, finClosed, client, metrics>>
        /\ hook' = [hook EXCEPT ![HookID(j)] = None]
        /\ ejecting' = [ejecting EXCEPT ![j] = IF hook[HookID(j)] = None THEN None ELSE last]
    BY DEF mgrVars, progVars
  <1>2. /\ hook \in [HookIDs -> UnitMetrics \cup {None}]
        /\ ejecting \in [Streams -> UnitMetrics \cup {None}]
    BY DEF RecordInv, IInv, TypeOK, TypeHook
  <1>3. \A t \in Streams : HookID(t) \in HookIDs /\ HookID(t)' = HookID(t)
    BY DEF HookIDs, HookID, JobOf
  <1>4. j \in Streams
    BY JobStreamTypes
  <1>5. /\ \A t \in Streams \ {j} : hook'[HookID(t)] = hook[HookID(t)] /\ ejecting'[t] = ejecting[t]
        /\ hook'[HookID(j)] = None
        /\ ejecting'[j] = IF hook[HookID(j)] = None THEN None ELSE last
    <2> HIDE DEF last
    <2>. QED BY <1>1, <1>2, <1>3, <1>4, DistinctRecords
  <1>6. \A u \in Units : u # j /\ ErrorsOf(u)' = ErrorsOf(u)
    <2>1. \A u \in Units : u # j
      BY ConstantsAssumption
    <2>2. \A u \in Units : ErrorsOf(u)' = ErrorsOf(u)
      BY <1>1 DEF ErrorsOf, JobOf
    <2>. QED BY <2>1, <2>2
  <1>7. \A u \in Units : UnitKept(u)
    <2>1. ASSUME NEW u \in Units
          PROVE  /\ ppc'[u] = ppc[u] /\ cpc'[u] = cpc[u]
                 /\ produced'[u] = produced[u] /\ ejecting'[u] = ejecting[u]
                 /\ hook'[HookID(u)] = hook[HookID(u)]
      BY <1>1, <1>5, <1>6, UnitTypes
    <2>2. \A u \in Units \ {j} : UnitKept(u)
      BY <1>6, <2>1, OtherUnitsKept
    <2>. QED BY <1>6, <2>2
  <1>8. hook[HookID(j)] # None => last.unit = j
    BY <1>2, <1>3, <1>4 DEF RecordInv, JobRecords, UnitMetrics
  <1>9. ASSUME NEW k \in Jobs PROVE JobRecords(k)'
    <2>1. k \in Streams /\ JobRecords(k)
      BY JobStreamTypes DEF RecordInv
    <2> HIDE DEF last
    <2>. QED BY <1>3, <1>5, <1>8, <2>1 DEF JobRecords
  <1>. QED BY <1>1, <1>7, <1>9, KeepsRecordsStep DEF RecordInv

\* The records of one stream are the positions of a set of records.
RecordsOf(s) == {m \in UnitMetrics : m.unit = s}
\* The positions of the records of one stream.
LEMMA RecordsPositions ==
  ASSUME TypeHook, NEW s
  PROVE  Records(s) = Positions(finished, RecordsOf(s))
  <1>1. \A i \in DOMAIN finished : finished[i] \in UnitMetrics
    BY DEF TypeHook
  <1>. QED BY <1>1 DEF Records, Positions, RecordsOf

\* A send adds a record of its own stream, or fails on a closed channel.
LEMMA EjectedRecords ==
  ASSUME RecordInv, IInv', NEW s \in Streams, Eject(s), ejecting[s] # None => ejecting[s].unit = s
  PROVE  /\ \A t \in Streams : /\ Cardinality(Records(t)') \in Nat /\ Cardinality(Records(t)) \in Nat
                               /\ Cardinality(Records(t)') =
                                    Cardinality(Records(t)) +
                                    (IF t = s /\ ejecting[s] # None /\ ~finClosed THEN 1 ELSE 0)
         /\ \A i \in DOMAIN finished' : \/ i \in DOMAIN finished /\ finished'[i] = finished[i]
                                        \/ ejecting[s] # None /\ ~finClosed /\ finished'[i] = ejecting[s]
  <1>1. TypeHook /\ TypeHook' /\ finished \in Seq(UnitMetrics) /\ finished' \in Seq(UnitMetrics)
        /\ ejecting \in [Streams -> UnitMetrics \cup {None}]
    BY DEF RecordInv, IInv, TypeOK, TypeHook
  <1>2. CASE finished' = finished /\ (ejecting[s] = None \/ finClosed)
    <2>1. \A t \in Streams : Records(t)' = Records(t)
      BY <1>2 DEF Records
    <2>2. \A t \in Streams : Cardinality(Records(t)) \in Nat
      BY <1>1, RecordsPositions, PositionsFinite
    <2>. QED BY <1>2, <2>1, <2>2
  <1>3. CASE ejecting[s] # None /\ ~finClosed /\ finished' = Append(finished, ejecting[s])
    <2>1. ejecting[s] \in UnitMetrics /\ ejecting[s].unit = s
      BY <1>1, <1>3
    <2>2. ASSUME NEW t \in Streams
          PROVE  /\ Cardinality(Records(t)') \in Nat /\ Cardinality(Records(t)) \in Nat
                 /\ Cardinality(Records(t)') = Cardinality(Records(t)) + (IF t = s THEN 1 ELSE 0)
      <3> DEFINE V == RecordsOf(t)
      <3>1. Records(t) = Positions(finished, V)
        BY <1>1, RecordsPositions
      <3>2. Records(t)' = Positions(finished', V)
        <4>1. \A i \in DOMAIN finished' : finished'[i] \in UnitMetrics
          BY <1>1
        <4>. QED BY <4>1 DEF Records, Positions, RecordsOf
      <3>3. ejecting[s] \in V <=> t = s
        BY <2>1 DEF RecordsOf
      <3> HIDE DEF V
      <3>4. Cardinality(Positions(finished, V)) \in Nat /\ Cardinality(Positions(finished', V)) \in Nat
        BY <1>1, PositionsFinite
      <3>5. Cardinality(Positions(finished', V)) = Cardinality(Positions(finished, V))
                                                    + (IF ejecting[s] \in V THEN 1 ELSE 0)
        BY <1>1, <1>3, <2>1, PositionsAppend
      <3>. QED BY <3>1, <3>2, <3>3, <3>4, <3>5
    <2>3. \A i \in DOMAIN finished' : \/ i \in DOMAIN finished /\ finished'[i] = finished[i]
                                      \/ finished'[i] = ejecting[s]
      BY <1>1, <1>3, <2>1
    <2>. QED BY <1>3, <2>2, <2>3
  <1>. QED BY <1>2, <1>3 DEF Eject

\* Records of units stay complete when others join them in the channel.
LEMMA EjectRecords ==
  ASSUME RecordInv, IInv', DistinctHookIDs, NEW s \in Streams,
         \/ FinishEject(s) /\ s \in Jobs
         \/ ConsumerEjects(s)
  PROVE  RecordInv'
  <1>. USE DEF FinishEject, ConsumerEjects, JobStep, ConsumerStep
  <1>1. /\ UNCHANGED <<ppc, produced, hook, collected, finClosed, client, metrics>>
        /\ Eject(s) /\ ejecting' = [ejecting EXCEPT ![s] = None]
    BY DEF Eject, mgrVars, progVars
  <1>2. /\ ejecting \in [Streams -> UnitMetrics \cup {None}] /\ finished \in Seq(UnitMetrics)
        /\ cpc \in [Streams -> {"idle", "range", "send", "eject", "exit"}]
        /\ collected \in [Streams -> Nat]
    BY DEF RecordInv, IInv, TypeOK, TypeHook, TypeStreams
  <1>3. \A u \in Units : ErrorsOf(u)' = ErrorsOf(u)
    BY <1>1 DEF ErrorsOf, JobOf
  <1>4. /\ \A t \in Streams \ {s} : ejecting'[t] = ejecting[t] /\ cpc'[t] = cpc[t]
        /\ ejecting'[s] = None
        /\ s \in Units => cpc[s] = "eject" /\ cpc'[s] = "exit"
    <2>1. CASE cpc' = cpc /\ s \in Jobs
      BY <1>1, <1>2, <2>1, ConstantsAssumption
    <2>2. CASE cpc[s] = "eject" /\ cpc' = [cpc EXCEPT ![s] = "exit"]
      BY <1>1, <1>2, <2>2
    <2>. QED BY <2>1, <2>2
  <1>5. ejecting[s] # None => ejecting[s].unit = s
    BY DEF RecordInv, EjectingExact, JobRecords, Streams
  <1>6. s \in Units => ejecting[s] # None /\ RecordComplete(ejecting[s]) /\ ~finClosed
    <2>1. ASSUME s \in Units PROVE ~finClosed
      <3>1. UnitJob[s] \in wg
        BY <1>4, <2>1, UnitTypes DEF RecordInv, IInv, ConsumersInsideRun, CountedWhileRunning, Running
      <3>. QED BY <3>1 DEF RecordInv, IInv, ClosedAfterWait
    <2>. QED BY <1>4, <2>1 DEF RecordInv, EjectingExact
  <1>7. \A m : RecordComplete(m)' <=> RecordComplete(m)
    BY <1>1, <1>3 DEF RecordComplete
  <1>8. \A j \in Jobs : JobRecords(j)'
    BY <1>1, <1>4, JobStreamTypes DEF RecordInv, JobRecords, HookID, JobOf
  <1>9. \A u \in Units \ {s} : UnitKept(u)
    BY <1>1, <1>3, <1>4, UnitTypes, OtherUnitsKept
  <1>10. /\ \A t \in Streams : /\ Cardinality(Records(t)') \in Nat /\ Cardinality(Records(t)) \in Nat
                               /\ Cardinality(Records(t)') =
                                    Cardinality(Records(t)) +
                                    (IF t = s /\ ejecting[s] # None /\ ~finClosed THEN 1 ELSE 0)
         /\ \A i \in DOMAIN finished' : \/ i \in DOMAIN finished /\ finished'[i] = finished[i]
                                        \/ ejecting[s] # None /\ ~finClosed /\ finished'[i] = ejecting[s]
    BY <1>1, <1>5, EjectedRecords
  <1>11. ASSUME NEW u \in Units PROVE FinishedExact(u)'
    <2>1. FinishedExact(u) /\ u \in Streams /\ collected[u] \in Nat
      BY <1>2, UnitTypes DEF RecordInv
    <2>2. cpc[u] = "exit" => cpc'[u] = "exit"
      BY <1>4, <2>1
    <2>3. \A i \in Records(u)' : RecordComplete(finished[i])' /\ cpc'[u] = "exit"
      <3>1. ASSUME NEW i \in Records(u)' PROVE RecordComplete(finished'[i]) /\ cpc'[u] = "exit"
        <4>1. i \in DOMAIN finished' /\ finished'[i].unit = u
          BY <3>1 DEF Records
        <4>2. CASE i \in DOMAIN finished /\ finished'[i] = finished[i]
          <5>1. i \in Records(u)
            BY <4>1, <4>2 DEF Records
          <5>. QED BY <2>1, <2>2, <4>2, <5>1 DEF FinishedExact
        <4>3. CASE ejecting[s] # None /\ finished'[i] = ejecting[s]
          BY <1>4, <1>5, <1>6, <4>1, <4>3
        <4>. QED BY <1>10, <4>1, <4>2, <4>3
      <3>. QED BY <1>7, <3>1 DEF RecordComplete, ErrorsOf
    <2>4. collected'[u] + Cardinality(Records(u)') = IF cpc'[u] = "exit" THEN 1 ELSE 0
      <3>1. collected[u] + Cardinality(Records(u)) = IF cpc[u] = "exit" THEN 1 ELSE 0
        BY <2>1 DEF FinishedExact
      <3>2. collected'[u] = collected[u]
        BY <1>1
      <3>3. CASE u = s
        BY <1>4, <1>6, <1>10, <2>1, <3>1, <3>2, <3>3
      <3>4. CASE u # s
        BY <1>4, <1>10, <2>1, <3>1, <3>2, <3>4
      <3>. QED BY <3>3, <3>4
    <2>. QED BY <2>3, <2>4 DEF FinishedExact
  <1>12. ASSUME NEW u \in Units PROVE MapExact(u)' /\ EjectingExact(u)'
    <2>1. CASE u # s
      BY <1>9, <2>1, UnitKeptExact
    <2>2. CASE u = s
      <3>1. HookID(u)' = HookID(u) /\ hook' = hook
        BY <1>1 DEF HookID, JobOf
      <3>2. HasRecord(u)' <=> HasRecord(u)
        BY <1>1, <1>4, <2>2 DEF HasRecord
      <3>3. MapExact(u)'
        BY <1>1, <1>3, <1>4, <1>7, <2>2, <3>1, <3>2 DEF MapExact, RecordInv
      <3>. QED BY <1>4, <2>2, <3>3 DEF EjectingExact
    <2>. QED BY <2>1, <2>2
  <1>. QED BY <1>1, <1>8, <1>11, <1>12 DEF RecordInv

\* The report goroutine collects a record from the channel.
LEMMA ReportWriterRecords ==
  ASSUME RecordInv, IInv', ReportWriter
  PROVE  RecordInv'
  <1> DEFINE h == Head(finished)
  <1>1. /\ UNCHANGED <<ppc, cpc, produced, hook, ejecting, finClosed, client, metrics>>
        /\ finished # <<>> /\ finished' = Tail(finished)
        /\ collected' = [collected EXCEPT ![h.unit] = @ + 1]
    BY DEF ReportWriter, mgrVars, streamVars, progVars
  <1>2. TypeHook /\ TypeHook' /\ finished \in Seq(UnitMetrics) /\ collected \in [Streams -> Nat]
    BY DEF RecordInv, IInv, TypeOK, TypeHook
  <1>3. /\ h \in UnitMetrics /\ finished' \in Seq(UnitMetrics)
        /\ \A i \in DOMAIN finished' : i + 1 \in DOMAIN finished /\ finished'[i] = finished[i + 1]
    BY <1>1, <1>2
  <1>4. h.unit \in Streams
    BY <1>3 DEF UnitMetrics
  <1>5. \A m : RecordComplete(m)' <=> RecordComplete(m)
    BY <1>1 DEF RecordComplete, ErrorsOf, JobOf
  <1>6. \A u \in Units : ErrorsOf(u)' = ErrorsOf(u)
    BY <1>1 DEF ErrorsOf, JobOf
  <1>7. \A u \in Units : UnitKept(u)
    BY <1>1, <1>6, UnitTypes, OtherUnitsKept DEF UnitKept, HasRecord
  <1>8. \A j \in Jobs : JobRecords(j)'
    BY <1>1 DEF RecordInv, JobRecords, HookID, JobOf
  <1>9. ASSUME NEW u \in Units PROVE FinishedExact(u)'
    <2> DEFINE V == RecordsOf(u)
    <2>1. FinishedExact(u) /\ u \in Streams /\ collected[u] \in Nat
      BY <1>2, UnitTypes DEF RecordInv
    <2>2. ASSUME NEW i \in Records(u)' PROVE RecordComplete(finished'[i]) /\ cpc'[u] = "exit"
      <3>1. i \in DOMAIN finished' /\ finished'[i].unit = u
        BY DEF Records
      <3>2. i + 1 \in Records(u) /\ finished'[i] = finished[i + 1]
        BY <1>3, <3>1 DEF Records
      <3>. QED BY <1>1, <2>1, <3>2 DEF FinishedExact
    <2>3. \A i \in Records(u)' : RecordComplete(finished[i])' /\ cpc'[u] = "exit"
      BY <1>5, <2>2 DEF RecordComplete, ErrorsOf
    <2>4. Records(u) = Positions(finished, V)
      BY <1>2, RecordsPositions
    <2>5. Records(u)' = Positions(finished', V)
      <3>1. \A i \in DOMAIN finished' : finished'[i] \in UnitMetrics
        BY <1>3
      <3>. QED BY <3>1 DEF Records, Positions, RecordsOf
    <2>6. h \in V <=> h.unit = u
      BY <1>3 DEF RecordsOf
    <2>7. collected'[u] = collected[u] + (IF h.unit = u THEN 1 ELSE 0)
      <3> HIDE DEF h
      <3>. QED BY <1>1, <1>2, <1>4, <2>1
    <2>8. Cardinality(Positions(finished, V))
            = Cardinality(Positions(finished', V)) + (IF h \in V THEN 1 ELSE 0)
      <3> HIDE DEF V
      <3>. QED BY <1>1, <1>2, PositionsTail
    <2>9. Cardinality(Positions(finished, V)) \in Nat /\ Cardinality(Positions(finished', V)) \in Nat
      <3> HIDE DEF V
      <3>. QED BY <1>2, <1>3, PositionsFinite
    <2>10. collected[u] + Cardinality(Records(u)) = IF cpc[u] = "exit" THEN 1 ELSE 0
      BY <2>1 DEF FinishedExact
    <2>11. collected'[u] + Cardinality(Records(u)') = IF cpc'[u] = "exit" THEN 1 ELSE 0
      <3> DEFINE before == Cardinality(Positions(finished, V))
                 after == Cardinality(Positions(finished', V))
      <3>1. before \in Nat /\ after \in Nat /\ before = after + (IF h.unit = u THEN 1 ELSE 0)
        BY <2>6, <2>8, <2>9
      <3>2. collected[u] + before = IF cpc[u] = "exit" THEN 1 ELSE 0
        BY <2>4, <2>10
      <3>3. Cardinality(Records(u)') = after
        BY <2>5
      <3>4. collected[u] \in Nat /\ cpc'[u] = cpc[u]
        BY <1>1, <2>1
      <3> HIDE DEF V, h, before, after
      <3>. QED BY <2>7, <3>1, <3>2, <3>3, <3>4
    <2> HIDE DEF V, h
    <2>12. /\ \A i \in Records(u)' : RecordComplete(finished[i])' /\ cpc'[u] = "exit"
           /\ collected'[u] + Cardinality(Records(u)') = IF cpc'[u] = "exit" THEN 1 ELSE 0
           => FinishedExact(u)'
      BY DEF FinishedExact
    <2>. QED BY <2>3, <2>11, <2>12
  <1>10. \A u \in Units : MapExact(u)' /\ EjectingExact(u)'
    BY <1>7, UnitKeptExact
  <1>11. finClosed' => client' = "done"
    BY <1>1 DEF RecordInv
  <1>. QED BY <1>8, <1>9, <1>10, <1>11 DEF RecordInv

\* There are no records at first.
LEMMA InitRecords == Init => RecordInv
  <1>. SUFFICES ASSUME Init PROVE RecordInv
    OBVIOUS
  <1>1. IInv
    BY InitIInv
  <1>2. \A t \in Streams : HookID(t) \in HookIDs
    BY DEF HookIDs
  <1>3. ASSUME NEW j \in Jobs PROVE JobRecords(j)
    BY <1>2, JobStreamTypes DEF Init, JobRecords
  <1>4. ASSUME NEW u \in Units PROVE MapExact(u) /\ EjectingExact(u) /\ FinishedExact(u)
    <2>1. u \in Streams /\ HookID(u) \in HookIDs /\ UnitJob[u] \in Jobs /\ JobOf(u) = UnitJob[u]
      BY <1>2, UnitTypes
    <2>2. ppc[u] = "idle" /\ cpc[u] = "idle" /\ produced[u] = 0 /\ ejecting[u] = None
          /\ hook[HookID(u)] = None /\ collected[u] = 0 /\ metrics[UnitJob[u]] = NoProgress
      BY <2>1 DEF Init
    <2>3. Records(u) = {} /\ ErrorsOf(u) = {}
      BY <2>1, <2>2 DEF Init, Records, ErrorsOf, NoProgress
    <2>. QED BY <2>2, <2>3, FS_EmptySet DEF MapExact, EjectingExact, FinishedExact, HasRecord
  <1>. QED BY <1>1, <1>3, <1>4 DEF Init, RecordInv

\* Every step keeps the records exact.
LEMMA NextRecords ==
  ASSUME HookInstalled, DistinctHookIDs, RecordInv, AccountInv, [Next]_vars
  PROVE  RecordInv'
  <1>1. IInv'
    BY NextIInv DEF RecordInv
  <1>2. CASE UNCHANGED vars
    BY <1>1, <1>2, OtherRecords
  <1>3. CASE Next
    <2>1. CASE \E j \in Jobs : \/ ClientStep(j) \/ Acquiring(j) \/ CancelRun(j)
                               \/ JobGoroutine(j) \/ Enumerator(j) \/ UnitErr(j)
                               \/ \E u \in Units : ReportUnit(j, u)
      <3>1. PICK j \in Jobs : \/ ClientStep(j) \/ Acquiring(j) \/ CancelRun(j)
                              \/ JobGoroutine(j) \/ Enumerator(j) \/ UnitErr(j)
                              \/ \E u \in Units : ReportUnit(j, u)
        BY <2>1
      <3>2. j \in Streams
        BY JobStreamTypes
      <3>3. CASE \/ RunRejected(j) \/ RunAcquire(j) \/ RunAcquired(j) \/ CancelRun(j)
                 \/ ReceiveUnit(j) \/ UnitsExhausted(j) \/ WgDone(j) \/ ReleaseSem(j) \/ FinishDone(j)
                 \/ (\E u \in Units : ReportUnit(j, u)) \/ WriteUnit(j) \/ EndEnumerating(j)
        BY <1>1, <3>3, QuietJobRecords
      <3>4. CASE RunAcquireFailed(j) \/ UnitErr(j) \/ EnumerateReturned(j) \/ EndRun(j)
        BY <1>1, <3>4, ErrorRecords
      <3>5. CASE StartJob(j)
        BY <1>1, <3>2, <3>5, QuietStreamRecords
      <3>6. CASE SpawnUnit(j)
        BY <1>1, <3>6, SpawnUnitRecords
      <3>7. CASE FinishHook(j)
        BY <1>1, <3>7, FinishHookRecords
      <3>8. CASE FinishEject(j)
        BY <1>1, <3>2, <3>8, EjectRecords
      <3>. QED BY <3>1, <3>3, <3>4, <3>5, <3>6, <3>7, <3>8
           DEF ClientStep, Acquiring, JobGoroutine, Enumerator
    <2>2. CASE \E s \in Streams : \/ Producer(s) \/ Consumer(s)
                                  \/ ChunkReported(s) \/ ChunkErr(s) \/ ChunksWrite(s)
      <3>1. PICK s \in Streams : \/ Producer(s) \/ Consumer(s)
                                 \/ ChunkReported(s) \/ ChunkErr(s) \/ ChunksWrite(s)
        BY <2>2
      <3>2. CASE \/ ChunksWrite(s) \/ ChunkWritten(s) \/ ConsumerSends(s) \/ ConsumerReceives(s)
        BY <1>1, <3>2, QuietStreamRecords
      <3>3. CASE ChunksReturned(s)
        BY <1>1, <3>3, ErrorRecords DEF ChunksReturned
      <3>4. CASE StartUnitChunking(s)
        BY <1>1, <3>4, StartUnitChunkingRecords
      <3>5. CASE ChunkReported(s)
        BY <1>1, <3>5, ChunkReportedRecords
      <3>6. CASE ChunkErr(s) \/ ChunkUnitReturned(s)
        BY <1>1, <3>6, ProducerErrorRecords
      <3>7. CASE ConsumerEnds(s)
        BY <1>1, <3>7, ConsumerEndsRecords
      <3>8. CASE ConsumerEjects(s)
        BY <1>1, <3>8, EjectRecords
      <3>. QED BY <3>1, <3>2, <3>3, <3>4, <3>5, <3>6, <3>7, <3>8 DEF Producer, Consumer
    <2>3. CASE ReportWriter
      BY <1>1, <2>3, ReportWriterRecords
    <2>4. CASE \/ \E n \in Limits : SetMaxConcurrentSources(n)
               \/ ScanChunk \/ WaitCalled \/ Waiting \/ ParentCancelled
               \/ ScanWorker \/ UNCHANGED vars
      BY <1>1, <2>4, OtherRecords
    <2>. QED BY <1>3, <2>1, <2>2, <2>3, <2>4 DEF Next, Step, Terminated
  <1>. QED BY <1>2, <1>3

\* Where the records are and how complete gives what the hook promises.
LEMMA RecordsExact == RecordInv => UnitMetricsExact
  <1>. SUFFICES ASSUME RecordInv PROVE UnitMetricsExact
    OBVIOUS
  <1>1. ASSUME NEW u \in Units
        PROVE  collected[u] + Cardinality(Records(u)) + (IF ejecting[u] # None THEN 1 ELSE 0)
                 = (IF cpc[u] \in {"eject", "exit"} THEN 1 ELSE 0)
    <2>1. collected[u] + Cardinality(Records(u)) = IF cpc[u] = "exit" THEN 1 ELSE 0
      BY DEF RecordInv, FinishedExact
    <2>2. ejecting[u] # None <=> cpc[u] = "eject"
      BY DEF RecordInv, EjectingExact
    <2>. QED BY <2>1, <2>2
  <1>2. ASSUME NEW i \in DOMAIN finished PROVE RecordComplete(finished[i])
    <2>1. CASE finished[i].unit \in Units
      <3>1. i \in Records(finished[i].unit)
        BY DEF Records
      <3>. QED BY <2>1, <3>1 DEF RecordInv, FinishedExact
    <2>2. CASE finished[i].unit \notin Units
      BY <2>2 DEF RecordComplete
    <2>. QED BY <2>1, <2>2
  <1>3. \A u \in Units : ejecting[u] # None => ejecting[u].unit = u /\ RecordComplete(ejecting[u])
    BY DEF RecordInv, EjectingExact
  <1>. QED BY <1>1, <1>2, <1>3 DEF UnitMetricsExact

\* With a hook and distinct unit identifiers every unit's record is where the
\* goroutines of the unit say, exact, and is sent exactly once.
THEOREM RecordsKept == Spec => [](HookInstalled /\ DistinctHookIDs => RecordInv)
  <1>1. Init => (HookInstalled /\ DistinctHookIDs => RecordInv)
    BY InitRecords
  <1>2. AccountInv /\ (HookInstalled /\ DistinctHookIDs => RecordInv) /\ [Next]_vars
          => (HookInstalled /\ DistinctHookIDs => RecordInv)'
    <2>1. (HookInstalled /\ DistinctHookIDs)' <=> HookInstalled /\ DistinctHookIDs
      BY DEF DistinctHookIDs, HookID, JobOf, Streams
    <2>. QED BY <2>1, NextRecords
  <1>. QED BY <1>1, <1>2, AccountsKept, PTL DEF Spec

\* The unit hook reports each unit that was chunked exactly once, with all of
\* its chunks and errors, for any jobs, units, limits and channel capacities.
THEOREM UnitRecordsExact == Spec => []UnitMetricsExact
  <1>1. (HookInstalled /\ DistinctHookIDs => RecordInv) => UnitMetricsExact
    BY RecordsExact DEF UnitMetricsExact
  <1>. QED BY <1>1, RecordsKept, PTL
===============================================================================

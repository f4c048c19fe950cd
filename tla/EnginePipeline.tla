--------------------------- MODULE EnginePipeline ---------------------------
(***************************************************************************)
(* The engine's pipeline: scanner workers (detectorWorker) turn chunks     *)
(* into work for detector workers (detectChunks) and, when several         *)
(* detectors match, for verificationOverlap workers; results flow to the   *)
(* notifier workers; Finish closes the channels from the front to the end. *)
(*                                                                         *)
(* Every worker is a goroutine of its own and every channel is bounded.    *)
(* What a detector finds in a decoded chunk is a constant, and a detector  *)
(* may panic on it: common.Recover ends the chunk or the worker then.      *)
(***************************************************************************)
EXTENDS Naturals, Sequences, FiniteSets, Functions, OverlapAnalysis

CONSTANTS
  Chunks,       \* chunks the source manager puts on its channel
  Pieces,       \* decoded chunks: what Chunker and the decoders make of them
  PiecesOf,     \* the decoded chunks of each chunk, in order
  Matching,     \* the detectors whose keywords each of them contains, in order
  Found,        \* what FromData of a detector returns for a decoded chunk
  Ignored,      \* the secrets processResult drops (an ignore tag, a bad link)
  PanicSets,    \* for each scan to look at, the pairs <<piece, detector>> on which
                \* FromData panics
  AllowOverlap, \* e.verificationOverlap
  Scanners, Verifiers, DetectWorkers, Notifiers, \* the goroutines of each pool
  OverlapCap, DetectCap, ResultsCap,             \* capacities of the channels
  None

Owners == Scanners \cup Verifiers
Detectable == [piece : Pieces, detector : Detectors, owner : Owners]
OverlapItem == [piece : Pieces, owner : Scanners]
Result == [piece : Pieces, detector : Detectors, secret : Secrets, disabled : BOOLEAN]

ASSUME PipelineAssumption ==
  /\ PiecesOf \in [Chunks -> Seq(Pieces)]
  /\ Matching \in [Pieces -> Seq(Detectors)]
  /\ Found \in [Pieces -> [Detectors -> Seq(Secrets)]]
  /\ Ignored \subseteq Secrets
  /\ PanicSets \subseteq SUBSET (Pieces \X Detectors)
  /\ AllowOverlap \in BOOLEAN
  /\ Scanners \cap Verifiers = {}
  /\ OverlapCap \in Nat \ {0} /\ DetectCap \in Nat \ {0} /\ ResultsCap \in Nat \ {0}
  /\ None \notin OverlapItem \cup Detectable
  /\ \A S \in {Chunks, Scanners, Verifiers, DetectWorkers} : IsFiniteSet(S)
  /\ Verifiers # {} /\ DetectWorkers # {} /\ Notifiers # {}

VARIABLES
  panics,      \* which detectors panic on what, in this scan
  finish,      \* what Finish waits for: "sources", "workers", "overlap",
               \* "detect", "notify"; "done" when it has returned
  unread,      \* chunks the sources have not handed over yet
  \* ---- channels
  overlapCh, detectCh, results,
  \* ---- detectorWorker
  spc, stodo,  \* where each scanner is, and the pieces left of its chunk
  ssent,       \* detectors already sent for the piece at hand
  wgOverlap,   \* each scanner's wgVerificationOverlap
  wgDetect,    \* the wgDetect of each scanner and each verifier
  \* ---- verificationOverlapWorker
  vpc, vitem, vdirect, vkeys,
  \* ---- detectChunk
  dpc, ditem, dresults,
  \* ---- notifyResults
  npc,
  notified,    \* history: how often each result reached a notifier
  crashed      \* a send on a closed channel crashed the process

scanVars     == <<spc, stodo, ssent>>
verifierVars == <<vpc, vitem, vdirect, vkeys>>
detectVars   == <<dpc, ditem, dresults>>
notifyVars   == <<npc, notified>>
vars == <<panics, finish, unread, overlapCh, detectCh, results, scanVars, wgOverlap,
          wgDetect, verifierVars, detectVars, notifyVars, crashed>>

\* How far Finish has come says which channels are closed.
ChunksClosed  == finish # "sources"
OverlapClosed == finish \in {"overlap", "detect", "notify", "done"}
DetectClosed  == finish \in {"detect", "notify", "done"}
ResultsClosed == finish \in {"notify", "done"}

\* Whether a piece goes through a verificationOverlap worker.
Overlaps(p) == Len(Matching[p]) > 1 /\ ~AllowOverlap

\* The detectors such a worker gets through before one panics.
Survivors(p) ==
  LET first == SelectInSeq(Matching[p], LAMBDA d : <<p, d>> \in panics)
  IN  IF first = 0 THEN Matching[p] ELSE SubSeq(Matching[p], 1, first - 1)

\* A send on the channel ch: it blocks while ch is full and crashes the
\* process once ch is closed.
Send(ch, closed, capacity, item) ==
  \/ closed /\ crashed' = TRUE /\ UNCHANGED ch
  \/ ~closed /\ Len(ch) < capacity /\ ch' = Append(ch, item) /\ UNCHANGED crashed

\* processResult: the result is dropped or put on the results channel.
ProcessResult(p, d, s, disabled) ==
  \/ s \in Ignored /\ UNCHANGED <<results, crashed>>
  \/ /\ s \notin Ignored
     /\ Send(results, ResultsClosed, ResultsCap,
             [piece |-> p, detector |-> d, secret |-> s, disabled |-> disabled])

ScannerStep(w, from, to) ==
  /\ spc[w] = from /\ spc' = [spc EXCEPT ![w] = to]
  /\ UNCHANGED <<panics, finish, results, verifierVars, detectVars, notifyVars>>

VerifierStep(v, from, to) ==
  /\ vpc[v] = from /\ vpc' = [vpc EXCEPT ![v] = to]
  /\ UNCHANGED <<panics, finish, unread, scanVars, detectVars, notifyVars>>

DetectStep(d, from, to) ==
  /\ dpc[d] = from /\ dpc' = [dpc EXCEPT ![d] = to]
  /\ UNCHANGED <<panics, finish, unread, overlapCh, scanVars, wgOverlap, verifierVars,
                 notifyVars>>

FinishStep(from, to) ==
  /\ finish = from /\ finish' = to
  /\ UNCHANGED <<panics, unread, overlapCh, detectCh, results, scanVars, wgOverlap,
                 wgDetect, verifierVars, detectVars, notifyVars, crashed>>

----------------------------------------------------------------------------
(* Faulty variants of definitions below: each is a mistake this code could *)
(* contain, and each breaks the property its comment names.                *)

\* InFlightCounted: wgDetect.Add missing before the send.
SendDetectableUncounted(w, d) ==
  /\ ScannerStep(w, "scan", "scan")
  /\ stodo[w] # <<>> /\ ~Overlaps(Head(stodo[w]))
  /\ d \in ToSet(Matching[Head(stodo[w])]) \ ssent[w]
  /\ Send(detectCh, DetectClosed, DetectCap,
          [piece |-> Head(stodo[w]), detector |-> d, owner |-> w])
  /\ ssent' = [ssent EXCEPT ![w] = @ \cup {d}]
  /\ UNCHANGED <<unread, overlapCh, stodo, wgOverlap, wgDetect>>

\* NoSenderAfterClose: the channels closed in the order they are declared.
CloseDetectableEarly == FinishStep("overlap", "detect")

\* EveryFindingNotified: a notifier stops at a closed channel, empty or not.
ResultsExhaustedEarly(n) ==
  /\ npc[n] = "range" /\ ResultsClosed
  /\ npc' = [npc EXCEPT ![n] = "exit"]
  /\ UNCHANGED <<panics, finish, unread, overlapCh, detectCh, results, scanVars, wgOverlap,
                 wgDetect, verifierVars, detectVars, notified, crashed>>

\* FinishReturns: a detector that found nothing is tried again.
DetectChunkRetried(d) ==
  /\ DetectStep(d, "range", "results")
  /\ detectCh # <<>>
  /\ LET item == Head(detectCh)
     IN  /\ <<item.piece, item.detector>> \notin panics
         /\ ditem' = [ditem EXCEPT ![d] = item]
         /\ dresults' = [dresults EXCEPT ![d] = Found[item.piece][item.detector]]
         /\ detectCh' = IF Found[item.piece][item.detector] = <<>>
                        THEN Append(Tail(detectCh), item) ELSE Tail(detectCh)
         /\ wgDetect' = IF Found[item.piece][item.detector] = <<>>
                        THEN [wgDetect EXCEPT ![item.owner] = @ + 1] ELSE wgDetect
  /\ UNCHANGED <<results, crashed>>

\* NotifiedAtMostOnce: detectors whose finding was reported are run again.
AnalyseOverlapKeepsKeys(v) ==
  /\ VerifierStep(v, "range", "direct")
  /\ overlapCh # <<>>
  /\ overlapCh' = Tail(overlapCh)
  /\ vitem' = [vitem EXCEPT ![v] = Head(overlapCh)]
  /\ LET p == Head(overlapCh).piece
     IN  /\ vdirect' = [vdirect EXCEPT ![v] = Analyse(Survivors(p), Found[p]).direct]
         /\ vkeys' = [vkeys EXCEPT ![v] = {d \in ToSet(Survivors(p)) : Found[p][d] # <<>>}]
  /\ UNCHANGED <<detectCh, results, wgOverlap, wgDetect, crashed>>

\* PanicsStayLocal: detectChunk itself does not recover, its goroutine does.
DetectChunkPanicsThrough(d) ==
  /\ DetectStep(d, "range", "exit")
  /\ detectCh # <<>>
  /\ <<Head(detectCh).piece, Head(detectCh).detector>> \in panics
  /\ detectCh' = Tail(detectCh)
  /\ UNCHANGED <<results, wgDetect, ditem, dresults, crashed>>

----------------------------------------------------------------------------
(* detectorWorker: the scanner workers.                                    *)

\* A chunk is received and split; Chunker and the decoders give its pieces.
ReceiveChunk(w, c) ==
  /\ ScannerStep(w, "range", "scan")
  /\ c \in unread
  /\ unread' = unread \ {c}
  /\ stodo' = [stodo EXCEPT ![w] = PiecesOf[c]]
  /\ UNCHANGED <<overlapCh, detectCh, ssent, wgOverlap, wgDetect, crashed>>

\* Several detectors match: the piece goes to the overlap workers.
SendOverlap(w) ==
  /\ ScannerStep(w, "scan", "scan")
  /\ stodo[w] # <<>> /\ Overlaps(Head(stodo[w]))
  /\ wgOverlap' = [wgOverlap EXCEPT ![w] = @ + 1]
  /\ Send(overlapCh, OverlapClosed, OverlapCap, [piece |-> Head(stodo[w]), owner |-> w])
  /\ stodo' = [stodo EXCEPT ![w] = Tail(@)]
  /\ UNCHANGED <<unread, detectCh, ssent, wgDetect>>

\* Otherwise it goes to the detector workers, once per detector; the map of
\* detectors is ranged over in any order.
SendDetectable(w, d) ==
  /\ ScannerStep(w, "scan", "scan")
  /\ stodo[w] # <<>> /\ ~Overlaps(Head(stodo[w]))
  /\ d \in ToSet(Matching[Head(stodo[w])]) \ ssent[w]
  /\ wgDetect' = [wgDetect EXCEPT ![w] = @ + 1]
  /\ Send(detectCh, DetectClosed, DetectCap,
          [piece |-> Head(stodo[w]), detector |-> d, owner |-> w])
  /\ ssent' = [ssent EXCEPT ![w] = @ \cup {d}]
  /\ UNCHANGED <<unread, overlapCh, stodo, wgOverlap>>

NextPiece(w) ==
  /\ ScannerStep(w, "scan", "scan")
  /\ stodo[w] # <<>> /\ ~Overlaps(Head(stodo[w]))
  /\ ssent[w] = ToSet(Matching[Head(stodo[w])])
  /\ ssent' = [ssent EXCEPT ![w] = {}]
  /\ stodo' = [stodo EXCEPT ![w] = Tail(@)]
  /\ UNCHANGED <<unread, overlapCh, detectCh, wgOverlap, wgDetect, crashed>>

ChunkScanned(w) ==
  /\ ScannerStep(w, "scan", "range")
  /\ stodo[w] = <<>>
  /\ UNCHANGED <<unread, overlapCh, detectCh, stodo, ssent, wgOverlap, wgDetect, crashed>>

\* The channel of chunks is closed: wait for both groups, then return.
ChunksExhausted(w) ==
  /\ ScannerStep(w, "range", "waitOverlap")
  /\ unread = {} /\ ChunksClosed
  /\ UNCHANGED <<unread, overlapCh, detectCh, stodo, ssent, wgOverlap, wgDetect, crashed>>

OverlapWaited(w) ==
  /\ ScannerStep(w, "waitOverlap", "waitDetect")
  /\ wgOverlap[w] = 0
  /\ UNCHANGED <<unread, overlapCh, detectCh, stodo, ssent, wgOverlap, wgDetect, crashed>>

ScannerDone(w) ==
  /\ ScannerStep(w, "waitDetect", "exit")
  /\ wgDetect[w] = 0
  /\ UNCHANGED <<unread, overlapCh, detectCh, stodo, ssent, wgOverlap, wgDetect, crashed>>

----------------------------------------------------------------------------
(* verificationOverlapWorker.                                              *)

\* Every detector of the piece is run without verification.  The results to
\* report at once and the detectors to run again are local to the worker, so
\* they are settled here and sent by the steps below.
AnalyseOverlap(v) ==
  /\ VerifierStep(v, "range", "direct")
  /\ overlapCh # <<>>
  /\ overlapCh' = Tail(overlapCh)
  /\ vitem' = [vitem EXCEPT ![v] = Head(overlapCh)]
  /\ LET p       == Head(overlapCh).piece
         outcome == Analyse(Survivors(p), Found[p])
     IN  /\ vdirect' = [vdirect EXCEPT ![v] = outcome.direct]
         /\ vkeys' = [vkeys EXCEPT ![v] = outcome.keysWithResults]
  /\ UNCHANGED <<detectCh, results, wgOverlap, wgDetect, crashed>>

\* A likely duplicate is reported with verification disabled.
ReportDirect(v) ==
  /\ VerifierStep(v, "direct", "direct")
  /\ vdirect[v] # <<>>
  /\ ProcessResult(vitem[v].piece, Head(vdirect[v]).detector, Head(vdirect[v]).secret, TRUE)
  /\ vdirect' = [vdirect EXCEPT ![v] = Tail(@)]
  /\ UNCHANGED <<overlapCh, detectCh, wgOverlap, wgDetect, vitem, vkeys>>

\* A detector panicked before the loop ended: Recover ends the worker, and
\* neither the scanner nor the detector workers hear of the piece again.
VerifierPanics(v) ==
  /\ VerifierStep(v, "direct", "exit")
  /\ vdirect[v] = <<>> /\ vitem[v] # None
  /\ Survivors(vitem[v].piece) # Matching[vitem[v].piece]
  /\ vitem' = [vitem EXCEPT ![v] = None] /\ vkeys' = [vkeys EXCEPT ![v] = {}]
  /\ UNCHANGED <<overlapCh, detectCh, results, wgOverlap, wgDetect, vdirect, crashed>>

\* The chunk is sent on once per detector left.
SendReverify(v, d) ==
  /\ VerifierStep(v, "direct", "direct")
  /\ vdirect[v] = <<>> /\ d \in vkeys[v]
  /\ Survivors(vitem[v].piece) = Matching[vitem[v].piece]
  /\ wgDetect' = [wgDetect EXCEPT ![v] = @ + 1]
  /\ Send(detectCh, DetectClosed, DetectCap,
          [piece |-> vitem[v].piece, detector |-> d, owner |-> v])
  /\ vkeys' = [vkeys EXCEPT ![v] = @ \ {d}]
  /\ UNCHANGED <<overlapCh, results, wgOverlap, vitem, vdirect>>

OverlapDone(v) ==
  /\ VerifierStep(v, "direct", "range")
  /\ vdirect[v] = <<>> /\ vkeys[v] = {}
  /\ Survivors(vitem[v].piece) = Matching[vitem[v].piece]
  /\ wgOverlap' = [wgOverlap EXCEPT ![vitem[v].owner] = @ - 1]
  /\ vitem' = [vitem EXCEPT ![v] = None]
  /\ UNCHANGED <<overlapCh, detectCh, results, wgDetect, vdirect, vkeys, crashed>>

OverlapExhausted(v) ==
  /\ VerifierStep(v, "range", "wait")
  /\ overlapCh = <<>> /\ OverlapClosed
  /\ UNCHANGED <<overlapCh, detectCh, results, wgOverlap, wgDetect, vitem, vdirect,
                 vkeys, crashed>>

VerifierDone(v) ==
  /\ VerifierStep(v, "wait", "exit")
  /\ wgDetect[v] = 0
  /\ UNCHANGED <<overlapCh, detectCh, results, wgOverlap, wgDetect, vitem, vdirect,
                 vkeys, crashed>>

----------------------------------------------------------------------------
(* detectChunks and detectChunk: the detector workers.                     *)

\* FromData returns the findings ...
DetectChunk(d) ==
  /\ detectCh # <<>>
  /\ LET item == Head(detectCh)
     IN  /\ <<item.piece, item.detector>> \notin panics
         /\ DetectStep(d, "range", "results")
         /\ ditem' = [ditem EXCEPT ![d] = item]
         /\ dresults' = [dresults EXCEPT ![d] = Found[item.piece][item.detector]]
  /\ detectCh' = Tail(detectCh)
  /\ UNCHANGED <<results, wgDetect, crashed>>

\* ... or panics: detectChunk recovers, without the call of wgDoneFn.
DetectChunkPanics(d) ==
  /\ DetectStep(d, "range", "range")
  /\ detectCh # <<>>
  /\ <<Head(detectCh).piece, Head(detectCh).detector>> \in panics
  /\ detectCh' = Tail(detectCh)
  /\ UNCHANGED <<results, wgDetect, ditem, dresults, crashed>>

ReportResult(d) ==
  /\ DetectStep(d, "results", "results")
  /\ dresults[d] # <<>>
  /\ ProcessResult(ditem[d].piece, ditem[d].detector, Head(dresults[d]), FALSE)
  /\ dresults' = [dresults EXCEPT ![d] = Tail(@)]
  /\ UNCHANGED <<detectCh, wgDetect, ditem>>

DetectChunkDone(d) ==
  /\ DetectStep(d, "results", "range")
  /\ dresults[d] = <<>>
  /\ wgDetect' = [wgDetect EXCEPT ![ditem[d].owner] = @ - 1]
  /\ ditem' = [ditem EXCEPT ![d] = None]
  /\ UNCHANGED <<detectCh, results, dresults, crashed>>

DetectExhausted(d) ==
  /\ DetectStep(d, "range", "exit")
  /\ detectCh = <<>> /\ DetectClosed
  /\ UNCHANGED <<detectCh, results, wgDetect, ditem, dresults, crashed>>

----------------------------------------------------------------------------
(* notifyResults and Finish.                                               *)

\* A notifier takes a result; what it does with it is ResultNotifier's.
NotifyResult(n) ==
  /\ npc[n] = "range" /\ results # <<>>
  /\ results' = Tail(results)
  /\ notified' = [notified EXCEPT ![Head(results)] = @ + 1]
  /\ UNCHANGED <<panics, finish, unread, overlapCh, detectCh, scanVars, wgOverlap, wgDetect,
                 verifierVars, detectVars, npc, crashed>>

ResultsExhausted(n) ==
  /\ npc[n] = "range" /\ results = <<>> /\ ResultsClosed
  /\ npc' = [npc EXCEPT ![n] = "exit"]
  /\ UNCHANGED <<panics, finish, unread, overlapCh, detectCh, results, scanVars, wgOverlap,
                 wgDetect, verifierVars, detectVars, notified, crashed>>

\* sourceManager.Wait returns once every chunk has been handed over.
SourcesFinished == unread = {} /\ FinishStep("sources", "workers")
CloseOverlap    == (\A w \in Scanners : spc[w] = "exit") /\ FinishStep("workers", "overlap")
CloseDetectable == (\A v \in Verifiers : vpc[v] = "exit") /\ FinishStep("overlap", "detect")
CloseResults    == (\A d \in DetectWorkers : dpc[d] = "exit") /\ FinishStep("detect", "notify")
FinishReturned  == (\A n \in Notifiers : npc[n] = "exit") /\ FinishStep("notify", "done")

----------------------------------------------------------------------------
Init ==
  /\ panics \in PanicSets
  /\ finish = "sources" /\ unread = Chunks
  /\ overlapCh = <<>> /\ detectCh = <<>> /\ results = <<>>
  /\ spc = [w \in Scanners |-> "range"] /\ stodo = [w \in Scanners |-> <<>>]
  /\ ssent = [w \in Scanners |-> {}]
  /\ wgOverlap = [w \in Scanners |-> 0] /\ wgDetect = [o \in Owners |-> 0]
  /\ vpc = [v \in Verifiers |-> "range"] /\ vitem = [v \in Verifiers |-> None]
  /\ vdirect = [v \in Verifiers |-> <<>>] /\ vkeys = [v \in Verifiers |-> {}]
  /\ dpc = [d \in DetectWorkers |-> "range"] /\ ditem = [d \in DetectWorkers |-> None]
  /\ dresults = [d \in DetectWorkers |-> <<>>]
  /\ npc = [n \in Notifiers |-> "range"] /\ notified = [r \in Result |-> 0]
  /\ crashed = FALSE

Scanner(w) ==
  \/ \E c \in Chunks : ReceiveChunk(w, c)
  \/ SendOverlap(w) \/ \E d \in Detectors : SendDetectable(w, d)
  \/ NextPiece(w) \/ ChunkScanned(w)
  \/ ChunksExhausted(w) \/ OverlapWaited(w) \/ ScannerDone(w)
Verifier(v) ==
  \/ AnalyseOverlap(v) \/ ReportDirect(v) \/ VerifierPanics(v)
  \/ \E d \in Detectors : SendReverify(v, d)
  \/ OverlapDone(v) \/ OverlapExhausted(v) \/ VerifierDone(v)
DetectWorker(d) ==
  \/ DetectChunk(d) \/ DetectChunkPanics(d) \/ ReportResult(d)
  \/ DetectChunkDone(d) \/ DetectExhausted(d)
Notifier(n) == NotifyResult(n) \/ ResultsExhausted(n)
Finish == \/ SourcesFinished \/ CloseOverlap \/ CloseDetectable
          \/ CloseResults \/ FinishReturned

Step == \/ \E w \in Scanners : Scanner(w)
        \/ \E v \in Verifiers : Verifier(v)
        \/ \E d \in DetectWorkers : DetectWorker(d)
        \/ \E n \in Notifiers : Notifier(n)
        \/ Finish

Next == \/ ~crashed /\ Step
        \/ (crashed \/ finish = "done") /\ UNCHANGED vars

Spec == Init /\ [][Next]_vars

(***************************************************************************)
(* Every goroutine that can run is scheduled; a sender blocked on a        *)
(* channel is served in the order it came, so no sender of a pool is       *)
(* passed over for ever.                                                   *)
(***************************************************************************)
Fairness ==
  /\ \A w \in Scanners : SF_vars(Scanner(w) /\ ~crashed)
  /\ \A v \in Verifiers : SF_vars(Verifier(v) /\ ~crashed)
  /\ \A d \in DetectWorkers : SF_vars(DetectWorker(d) /\ ~crashed)
  /\ \A n \in Notifiers : WF_vars(Notifier(n) /\ ~crashed)
  /\ WF_vars(Finish /\ ~crashed)

FairSpec == Spec /\ Fairness

----------------------------------------------------------------------------
(* Properties.                                                             *)

TypeChannels ==
  /\ finish \in {"sources", "workers", "overlap", "detect", "notify", "done"}
  /\ unread \in SUBSET Chunks /\ crashed \in BOOLEAN
  /\ overlapCh \in Seq(OverlapItem) /\ detectCh \in Seq(Detectable)
  /\ results \in Seq(Result)
  /\ wgOverlap \in [Scanners -> Nat] /\ wgDetect \in [Owners -> Nat]
TypeCounters ==
  /\ spc \in [Scanners -> {"range", "scan", "waitOverlap", "waitDetect", "exit"}]
  /\ vpc \in [Verifiers -> {"range", "direct", "wait", "exit"}]
  /\ dpc \in [DetectWorkers -> {"range", "results", "exit"}]
  /\ npc \in [Notifiers -> {"range", "exit"}]
TypeWorkers ==
  /\ stodo \in [Scanners -> Seq(Pieces)] /\ ssent \in [Scanners -> SUBSET Detectors]
  /\ vitem \in [Verifiers -> OverlapItem \cup {None}]
  /\ vdirect \in [Verifiers -> Seq(SecretKey)] /\ vkeys \in [Verifiers -> SUBSET Detectors]
  /\ ditem \in [DetectWorkers -> Detectable \cup {None}]
  /\ dresults \in [DetectWorkers -> Seq(Secrets)]
  /\ notified \in [Result -> Nat]
TypeOK == TypeChannels /\ TypeCounters /\ TypeWorkers

(***************************************************************************)
(* Finish closes a channel only when no goroutine that sends on it is left *)
(* to do so, whatever panicked before.                                     *)
(***************************************************************************)
NoSenderAfterClose ==
  /\ ChunksClosed => unread = {}
  /\ OverlapClosed => \A w \in Scanners : spc[w] = "exit"
  /\ DetectClosed => \A v \in Verifiers : vpc[v] = "exit"
  /\ ResultsClosed => \A d \in DetectWorkers : dpc[d] = "exit"
  /\ ~crashed

\* With the program counters in their ranges it is inductive.
CloseInv == TypeCounters /\ NoSenderAfterClose

(***************************************************************************)
(* A WaitGroup of a worker counts what the worker sent and another one has *)
(* not dealt with: never less, and more only by what panics have cost.     *)
(***************************************************************************)
InFlight(o) == Cardinality({i \in DOMAIN detectCh : detectCh[i].owner = o})
               + Cardinality({d \in DetectWorkers : ditem[d] # None /\ ditem[d].owner = o})
InOverlap(w) == Cardinality({i \in DOMAIN overlapCh : overlapCh[i].owner = w})
                + Cardinality({v \in Verifiers : vitem[v] # None /\ vitem[v].owner = w})
InFlightCounted ==
  /\ \A o \in Owners : InFlight(o) <= wgDetect[o]
  /\ \A w \in Scanners : InOverlap(w) <= wgOverlap[w]
  /\ panics = {} => /\ \A o \in Owners : InFlight(o) = wgDetect[o]
                    /\ \A w \in Scanners : InOverlap(w) = wgOverlap[w]

(***************************************************************************)
(* What a scan must report, said without workers and channels: the direct  *)
(* results of each overlapping piece, and all the findings of the          *)
(* detectors that are run with verification, as often as they return them. *)
(***************************************************************************)
Times(s, e) == Cardinality({i \in DOMAIN s : s[i] = e})
Expected(r) ==
  IF r.secret \in Ignored \/ r.detector \notin ToSet(Matching[r.piece]) THEN 0
  ELSE LET f == Times(Found[r.piece][r.detector], r.secret)
           a == Analyse(Matching[r.piece], Found[r.piece])
           pieces == SumFunction([c \in Chunks |-> Times(PiecesOf[c], r.piece)])
       IN  pieces * IF ~Overlaps(r.piece) THEN (IF r.disabled THEN 0 ELSE f)
                    ELSE IF r.disabled
                         THEN Times(a.direct, [secret |-> r.secret, detector |-> r.detector])
                         ELSE IF r.detector \in a.keysWithResults THEN f ELSE 0

(***************************************************************************)
(* Nothing is reported twice, and when Finish returns every finding that   *)
(* should be reported has been: nothing is left in a channel or a worker.  *)
(***************************************************************************)
NotifiedAtMostOnce == \A r \in Result : notified[r] <= Expected(r)
EveryFindingNotified ==
  finish = "done" /\ panics = {} => \A r \in Result : notified[r] = Expected(r)

(***************************************************************************)
(* Unless a detector panics Finish returns: no ring of full channels and   *)
(* WaitGroups keeps the pools waiting for each other.                      *)
(***************************************************************************)
FinishReturns == panics = {} => <>(finish = "done")

(***************************************************************************)
(* A claim the code does not keep: "Finish waits for running sources to    *)
(* complete and workers to finish", whatever happens to a worker.          *)
(***************************************************************************)
FinishAlwaysReturns == <>(finish = "done")

(***************************************************************************)
(* A panic of a detector costs the results of the piece it happened on: as *)
(* long as each pool has a worker left, every other finding is notified,   *)
(* even though Finish no longer returns.                                   *)
(***************************************************************************)
PanicsStayLocal ==
  <>[](\A r \in Result : (\A d \in Detectors : <<r.piece, d>> \notin panics)
                           => notified[r] = Expected(r))
=============================================================================

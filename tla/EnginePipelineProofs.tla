------------------------ MODULE EnginePipelineProofs ------------------------
(***************************************************************************)
(* Proofs about EnginePipeline, for any number of workers, any capacities, *)
(* any chunks and detectors, and any panics of the detectors; at the end,  *)
(* about the loop of its overlap workers (VerificationOverlap).            *)
(***************************************************************************)
EXTENDS EnginePipeline, VerificationOverlap, ResultNotifier, FoldTheorems, SequenceTheorems, TLAPS

\* Each channel is closed after the ones in front of it.
LEMMA ClosedInOrder ==
  /\ ResultsClosed => DetectClosed
  /\ DetectClosed => OverlapClosed
  /\ OverlapClosed => ChunksClosed
  BY DEF ResultsClosed, DetectClosed, OverlapClosed, ChunksClosed

\* No scanner that is still scanning can meet a closed channel.
LEMMA ScannerPreserves ==
  ASSUME CloseInv, NEW w \in Scanners, Scanner(w)
  PROVE  CloseInv'
  <1>. USE ClosedInOrder DEF CloseInv, TypeCounters, NoSenderAfterClose, ScannerStep,
         ChunksClosed, OverlapClosed, DetectClosed, ResultsClosed,
         verifierVars, detectVars, notifyVars
  <1>1. CASE \E c \in Chunks : ReceiveChunk(w, c)
    BY <1>1 DEF ReceiveChunk
  <1>2. CASE SendOverlap(w)
    BY <1>2 DEF SendOverlap, Send
  <1>3. CASE \E d \in Detectors : SendDetectable(w, d)
    BY <1>3 DEF SendDetectable, Send
  <1>4. CASE NextPiece(w)
    BY <1>4 DEF NextPiece
  <1>5. CASE ChunkScanned(w)
    BY <1>5 DEF ChunkScanned
  <1>6. CASE ChunksExhausted(w)
    BY <1>6 DEF ChunksExhausted
  <1>7. CASE OverlapWaited(w)
    BY <1>7 DEF OverlapWaited
  <1>8. CASE ScannerDone(w)
    BY <1>8 DEF ScannerDone
  <1>. QED BY <1>1, <1>2, <1>3, <1>4, <1>5, <1>6, <1>7, <1>8 DEF Scanner

\* The channels a verifier sends on are open until every verifier is gone.
LEMMA VerifierPreserves ==
  ASSUME CloseInv, NEW v \in Verifiers, Verifier(v)
  PROVE  CloseInv'
  <1>. USE ClosedInOrder DEF CloseInv, TypeCounters, NoSenderAfterClose, VerifierStep,
         ChunksClosed, OverlapClosed, DetectClosed, ResultsClosed,
         scanVars, detectVars, notifyVars
  <1>1. CASE AnalyseOverlap(v)
    BY <1>1 DEF AnalyseOverlap
  <1>2. CASE ReportDirect(v)
    BY <1>2 DEF ReportDirect, Send, ProcessResult
  <1>3. CASE VerifierPanics(v)
    BY <1>3 DEF VerifierPanics
  <1>4. CASE \E d \in Detectors : SendReverify(v, d)
    BY <1>4 DEF SendReverify, Send
  <1>5. CASE OverlapDone(v)
    BY <1>5 DEF OverlapDone
  <1>6. CASE OverlapExhausted(v)
    BY <1>6 DEF OverlapExhausted
  <1>7. CASE VerifierDone(v)
    BY <1>7 DEF VerifierDone
  <1>. QED BY <1>1, <1>2, <1>3, <1>4, <1>5, <1>6, <1>7 DEF Verifier

\* The results channel is open until every detector worker is gone.
LEMMA DetectWorkerPreserves ==
  ASSUME CloseInv, NEW d \in DetectWorkers, DetectWorker(d)
  PROVE  CloseInv'
  <1>. USE ClosedInOrder DEF CloseInv, TypeCounters, NoSenderAfterClose, DetectStep,
         ChunksClosed, OverlapClosed, DetectClosed, ResultsClosed,
         scanVars, verifierVars, notifyVars
  <1>1. CASE DetectChunk(d)
    BY <1>1 DEF DetectChunk
  <1>2. CASE DetectChunkPanics(d)
    BY <1>2 DEF DetectChunkPanics
  <1>3. CASE ReportResult(d)
    BY <1>3 DEF ReportResult, Send, ProcessResult
  <1>4. CASE DetectChunkDone(d)
    BY <1>4 DEF DetectChunkDone
  <1>5. CASE DetectExhausted(d)
    BY <1>5 DEF DetectExhausted
  <1>. QED BY <1>1, <1>2, <1>3, <1>4, <1>5 DEF DetectWorker

\* Finish closes a channel behind the workers it has waited for.
LEMMA FinishPreserves ==
  ASSUME CloseInv, Finish
  PROVE  CloseInv'
  <1>. USE DEF CloseInv, TypeCounters, NoSenderAfterClose, FinishStep,
         ChunksClosed, OverlapClosed, DetectClosed, ResultsClosed,
         scanVars, verifierVars, detectVars, notifyVars
  <1>1. CASE SourcesFinished
    BY <1>1 DEF SourcesFinished
  <1>2. CASE CloseOverlap
    BY <1>2 DEF CloseOverlap
  <1>3. CASE CloseDetectable
    BY <1>3 DEF CloseDetectable
  <1>4. CASE CloseResults
    BY <1>4 DEF CloseResults
  <1>5. CASE FinishReturned
    BY <1>5 DEF FinishReturned
  <1>. QED BY <1>1, <1>2, <1>3, <1>4, <1>5 DEF Finish

\* The invariant is inductive.
LEMMA NextPreserves == CloseInv /\ [Next]_vars => CloseInv'
  <1>. SUFFICES ASSUME CloseInv, [Next]_vars PROVE CloseInv'
    OBVIOUS
  <1>1. ASSUME NEW n \in Notifiers, Notifier(n) PROVE CloseInv'
    BY <1>1 DEF Notifier, NotifyResult, ResultsExhausted, CloseInv, TypeCounters,
       NoSenderAfterClose, ChunksClosed, OverlapClosed, DetectClosed, ResultsClosed,
       scanVars, verifierVars, detectVars
  <1>2. CASE UNCHANGED vars
    BY <1>2 DEF vars, scanVars, verifierVars, detectVars, notifyVars, CloseInv,
       TypeCounters, NoSenderAfterClose, ChunksClosed, OverlapClosed, DetectClosed,
       ResultsClosed
  <1>3. CASE Step
    BY <1>1, <1>3, ScannerPreserves, VerifierPreserves, DetectWorkerPreserves,
       FinishPreserves DEF Step
  <1>. QED BY <1>2, <1>3 DEF Next

(***************************************************************************)
(* Finish never closes a channel that a scanner, an overlap worker or a    *)
(* detector worker may still send on, with any number of workers and       *)
(* whatever panics: no send meets a closed channel.                        *)
(***************************************************************************)
THEOREM NoSendOnClosedChannel == Spec => []NoSenderAfterClose
  <1>1. Init => CloseInv
    BY DEF Init, CloseInv, TypeCounters, NoSenderAfterClose, ChunksClosed,
       OverlapClosed, DetectClosed, ResultsClosed
  <1>2. CloseInv => NoSenderAfterClose
    BY DEF CloseInv
  <1>. QED BY <1>1, <1>2, NextPreserves, PTL DEF Spec

----------------------------------------------------------------------------
(***************************************************************************)
(* WaitGroups.  The load of an owner is what it has sent to a channel s    *)
(* and what the workers W hold of it, each in f[w].                        *)
(***************************************************************************)
OwnedIn(s, o) == {i \in DOMAIN s : s[i].owner = o}
OwnedBy(f, W, o) == {w \in W : f[w] # None /\ f[w].owner = o}
Load(s, f, W, o) == Cardinality(OwnedIn(s, o)) + Cardinality(OwnedBy(f, W, o))
One(e, o) == IF e.owner = o THEN 1 ELSE 0

\* What an owner has on a channel is finite, ...
LEMMA OwnedInFinite ==
  ASSUME NEW S, NEW s \in Seq(S), NEW o
  PROVE  IsFiniteSet(OwnedIn(s, o)) /\ Cardinality(OwnedIn(s, o)) \in Nat
<1>1. IsFiniteSet(1..Len(s)) /\ DOMAIN s = 1..Len(s)
  BY FS_Interval
<1>2. OwnedIn(s, o) \in SUBSET (1..Len(s))
  BY <1>1 DEF OwnedIn
<1> QED BY <1>1, <1>2, FS_Subset, FS_CardinalityType

\* ... and so is what workers hold of it.
LEMMA OwnedByFinite ==
  ASSUME NEW W, IsFiniteSet(W), NEW f, NEW o
  PROVE  IsFiniteSet(OwnedBy(f, W, o)) /\ Cardinality(OwnedBy(f, W, o)) \in Nat
<1>1. OwnedBy(f, W, o) \in SUBSET W
  BY DEF OwnedBy
<1> QED BY <1>1, FS_Subset, FS_CardinalityType

\* Sending an item adds one to what its owner has on the channel.
LEMMA OwnedInAppend ==
  ASSUME NEW S, NEW s \in Seq(S), NEW e \in S, NEW o
  PROVE  Cardinality(OwnedIn(Append(s, e), o)) = Cardinality(OwnedIn(s, o)) + One(e, o)
<1>1. /\ DOMAIN Append(s, e) = 1..(Len(s) + 1) /\ DOMAIN s = 1..Len(s) /\ Len(s) \in Nat
      /\ Append(s, e)[Len(s) + 1] = e /\ \A i \in 1..Len(s) : Append(s, e)[i] = s[i]
  OBVIOUS
<1>2. Len(s) + 1 \notin OwnedIn(s, o)
  BY <1>1 DEF OwnedIn
<1>3. CASE e.owner = o
  <2>1. OwnedIn(Append(s, e), o) = OwnedIn(s, o) \cup {Len(s) + 1}
    BY <1>1, <1>3 DEF OwnedIn
  <2> QED BY <1>2, <1>3, <2>1, OwnedInFinite, FS_AddElement DEF One
<1>4. CASE e.owner # o
  <2>1. OwnedIn(Append(s, e), o) = OwnedIn(s, o)
    BY <1>1, <1>4 DEF OwnedIn
  <2> QED BY <1>4, <2>1, OwnedInFinite DEF One
<1> QED BY <1>3, <1>4

\* Receiving the head takes one from what its owner has there.
LEMMA OwnedInTail ==
  ASSUME NEW S, NEW s \in Seq(S), s # <<>>, NEW o
  PROVE  Cardinality(OwnedIn(s, o)) = Cardinality(OwnedIn(Tail(s), o)) + One(Head(s), o)
<1> DEFINE A == OwnedIn(Tail(s), o)
           B == OwnedIn(s, o) \ {1}
           shift == [i \in A |-> i + 1]
<1>1. /\ Tail(s) \in Seq(S) /\ Len(s) \in Nat \ {0} /\ Len(Tail(s)) = Len(s) - 1
      /\ DOMAIN s = 1..Len(s) /\ DOMAIN Tail(s) = 1..(Len(s) - 1) /\ Head(s) = s[1]
      /\ \A i \in 1..(Len(s) - 1) : Tail(s)[i] = s[i + 1]
  OBVIOUS
<1>2. ExistsBijection(A, B)
  <2>1. \A i \in A : i \in 1..(Len(s) - 1) /\ i + 1 \in B
    BY <1>1 DEF OwnedIn
  <2>2. \A j \in B : j - 1 \in A /\ (j - 1) + 1 = j
    BY <1>1 DEF OwnedIn
  <2>3. shift \in [A -> B] /\ \A i \in A : shift[i] = i + 1
    BY <2>1
  <2>4. \A i, j \in A : shift[i] = shift[j] => i = j
    BY <2>1, <2>3
  <2>5. \A j \in B : \E i \in A : shift[i] = j
    BY <2>2, <2>3
  <2> HIDE DEF shift, A, B
  <2>6. shift \in Bijection(A, B)
    BY <2>3, <2>4, <2>5 DEF Bijection, Injection, Surjection, IsInjective
  <2> QED BY <2>6 DEF ExistsBijection
<1>3. Cardinality(B) = Cardinality(A)
  BY <1>1, <1>2, OwnedInFinite, FS_Bijection
<1>4. Cardinality(B) = IF 1 \in OwnedIn(s, o) THEN Cardinality(OwnedIn(s, o)) - 1
                       ELSE Cardinality(OwnedIn(s, o))
  BY OwnedInFinite, FS_RemoveElement
<1>5. 1 \in OwnedIn(s, o) <=> Head(s).owner = o
  BY <1>1 DEF OwnedIn
<1>6. Cardinality(A) \in Nat /\ Cardinality(OwnedIn(s, o)) \in Nat
  BY <1>1, OwnedInFinite
<1> HIDE DEF A, B
<1>7. Cardinality(OwnedIn(s, o)) = Cardinality(A) + One(Head(s), o)
  BY <1>3, <1>4, <1>5, <1>6 DEF One
<1> QED BY <1>7 DEF A

\* A worker that held nothing takes e.
LEMMA OwnedByTaken ==
  ASSUME NEW W, IsFiniteSet(W), NEW f, f = [v \in W |-> f[v]], NEW w \in W, f[w] = None,
         NEW e, e # None, NEW o
  PROVE  Cardinality(OwnedBy([f EXCEPT ![w] = e], W, o)) = Cardinality(OwnedBy(f, W, o)) + One(e, o)
<1>1. w \notin OwnedBy(f, W, o)
  BY DEF OwnedBy
<1>2. CASE e.owner = o
  <2>1. OwnedBy([f EXCEPT ![w] = e], W, o) = OwnedBy(f, W, o) \cup {w}
    BY <1>2 DEF OwnedBy
  <2> QED BY <1>1, <1>2, <2>1, OwnedByFinite, FS_AddElement DEF One
<1>3. CASE e.owner # o
  <2>1. OwnedBy([f EXCEPT ![w] = e], W, o) = OwnedBy(f, W, o)
    BY <1>3 DEF OwnedBy
  <2> QED BY <1>3, <2>1, OwnedByFinite DEF One
<1> QED BY <1>2, <1>3

\* A worker lets go of what it held.
LEMMA OwnedByDropped ==
  ASSUME NEW W, IsFiniteSet(W), NEW f, f = [v \in W |-> f[v]], NEW w \in W, f[w] # None, NEW o
  PROVE  Cardinality(OwnedBy(f, W, o))
           = Cardinality(OwnedBy([f EXCEPT ![w] = None], W, o)) + One(f[w], o)
<1> DEFINE g == [f EXCEPT ![w] = None]
<1>1. g = [v \in W |-> g[v]] /\ g[w] = None /\ f = [g EXCEPT ![w] = f[w]]
  OBVIOUS
<1> HIDE DEF g
<1>2. Cardinality(OwnedBy([g EXCEPT ![w] = f[w]], W, o)) = Cardinality(OwnedBy(g, W, o)) + One(f[w], o)
  BY <1>1, OwnedByTaken
<1> QED BY <1>1, <1>2 DEF g

\* A load is a natural number.
LEMMA LoadType ==
  ASSUME NEW S, NEW s \in Seq(S), NEW W, IsFiniteSet(W), NEW f, NEW o
  PROVE  Load(s, f, W, o) \in Nat
  BY OwnedInFinite, OwnedByFinite DEF Load

\* An item that is sent adds to the load of its owner.
LEMMA LoadSent ==
  ASSUME NEW S, NEW s \in Seq(S), NEW e \in S, NEW W, IsFiniteSet(W), NEW f, NEW o
  PROVE  Load(Append(s, e), f, W, o) = Load(s, f, W, o) + One(e, o)
<1>1. Cardinality(OwnedIn(Append(s, e), o)) = Cardinality(OwnedIn(s, o)) + One(e, o)
  BY OwnedInAppend
<1>2. /\ Cardinality(OwnedIn(s, o)) \in Nat /\ Cardinality(OwnedBy(f, W, o)) \in Nat
      /\ One(e, o) \in Nat
  BY OwnedInFinite, OwnedByFinite DEF One
<1> QED BY <1>1, <1>2 DEF Load

\* The head of the channel is received by a worker, ...
LEMMA LoadMoved ==
  ASSUME NEW S, NEW s \in Seq(S), s # <<>>, Head(s) # None, NEW W, IsFiniteSet(W),
         NEW f, f = [v \in W |-> f[v]], NEW w \in W, f[w] = None, NEW o
  PROVE  Load(Tail(s), [f EXCEPT ![w] = Head(s)], W, o) = Load(s, f, W, o)
<1>1. Cardinality(OwnedIn(s, o)) = Cardinality(OwnedIn(Tail(s), o)) + One(Head(s), o)
  BY OwnedInTail
<1>2. Cardinality(OwnedBy([f EXCEPT ![w] = Head(s)], W, o))
        = Cardinality(OwnedBy(f, W, o)) + One(Head(s), o)
  BY OwnedByTaken
<1>3. Tail(s) \in Seq(S)
  OBVIOUS
<1>4. /\ Cardinality(OwnedIn(Tail(s), o)) \in Nat /\ Cardinality(OwnedBy(f, W, o)) \in Nat
      /\ One(Head(s), o) \in Nat
  BY <1>3, OwnedInFinite, OwnedByFinite DEF One
<1> QED BY <1>1, <1>2, <1>4 DEF Load

\* ... or lost.
LEMMA LoadLost ==
  ASSUME NEW S, NEW s \in Seq(S), s # <<>>, NEW W, IsFiniteSet(W), NEW f, NEW o
  PROVE  Load(Tail(s), f, W, o) <= Load(s, f, W, o)
<1>1. Cardinality(OwnedIn(s, o)) = Cardinality(OwnedIn(Tail(s), o)) + One(Head(s), o)
  BY OwnedInTail
<1>2. Tail(s) \in Seq(S)
  OBVIOUS
<1>3. /\ Cardinality(OwnedIn(Tail(s), o)) \in Nat /\ Cardinality(OwnedBy(f, W, o)) \in Nat
      /\ One(Head(s), o) \in Nat
  BY <1>2, OwnedInFinite, OwnedByFinite DEF One
<1> QED BY <1>1, <1>3 DEF Load

\* A worker that lets go of an item takes it off the load of its owner.
LEMMA LoadDropped ==
  ASSUME NEW S, NEW s \in Seq(S), NEW W, IsFiniteSet(W),
         NEW f, f = [v \in W |-> f[v]], NEW w \in W, f[w] # None, NEW o
  PROVE  Load(s, f, W, o) = Load(s, [f EXCEPT ![w] = None], W, o) + One(f[w], o)
<1>1. Cardinality(OwnedBy(f, W, o))
        = Cardinality(OwnedBy([f EXCEPT ![w] = None], W, o)) + One(f[w], o)
  BY OwnedByDropped
<1>2. /\ Cardinality(OwnedIn(s, o)) \in Nat /\ One(f[w], o) \in Nat
      /\ Cardinality(OwnedBy([f EXCEPT ![w] = None], W, o)) \in Nat
  BY OwnedInFinite, OwnedByFinite DEF One
<1> QED BY <1>1, <1>2 DEF Load

(***************************************************************************)
(* What the WaitGroups of the owners O in wg count of a channel and the    *)
(* workers that receive from it, exactly if exact holds.                   *)
(***************************************************************************)
Counts(wg, s, f, W, O, exact) ==
  /\ \A o \in O : Load(s, f, W, o) <= wg[o]
  /\ exact => \A o \in O : Load(s, f, W, o) = wg[o]

\* The count follows an item that is sent and added to the WaitGroup, ...
LEMMA CountsSent ==
  ASSUME NEW O, NEW S, NEW s \in Seq(S), NEW e \in S, e.owner \in O, NEW W, IsFiniteSet(W),
         NEW f, NEW wg \in [O -> Nat], NEW exact \in BOOLEAN, Counts(wg, s, f, W, O, exact)
  PROVE  LET wg2 == [wg EXCEPT ![e.owner] = @ + 1]
         IN  Counts(wg2, Append(s, e), f, W, O, exact) /\ wg2 \in [O -> Nat]
<1> DEFINE wg2 == [wg EXCEPT ![e.owner] = @ + 1]
<1>1. ASSUME NEW o \in O
      PROVE  /\ Load(Append(s, e), f, W, o) = Load(s, f, W, o) + One(e, o)
             /\ Load(s, f, W, o) \in Nat /\ wg[o] \in Nat /\ wg2[o] = wg[o] + One(e, o)
             /\ One(e, o) \in Nat
  <2>1. Load(Append(s, e), f, W, o) = Load(s, f, W, o) + One(e, o) /\ Load(s, f, W, o) \in Nat
    BY LoadSent, LoadType
  <2>2. wg2[o] = wg[o] + One(e, o) /\ wg[o] \in Nat /\ One(e, o) \in Nat
    BY DEF One
  <2> QED BY <2>1, <2>2
<1>2. wg2 \in [O -> Nat]
  OBVIOUS
<1> HIDE DEF wg2
<1>3. Counts(wg2, Append(s, e), f, W, O, exact)
  <2>1. ASSUME NEW o \in O PROVE Load(Append(s, e), f, W, o) <= wg2[o]
    BY <1>1 DEF Counts
  <2>2. ASSUME exact, NEW o \in O PROVE Load(Append(s, e), f, W, o) = wg2[o]
    BY <1>1, <2>2 DEF Counts
  <2> QED BY <2>1, <2>2 DEF Counts
<1> QED BY <1>2, <1>3 DEF wg2

\* ... stays as it is when a worker receives the item, ...
LEMMA CountsMoved ==
  ASSUME NEW O, NEW S, NEW s \in Seq(S), s # <<>>, Head(s) # None, NEW W, IsFiniteSet(W),
         NEW f, f = [v \in W |-> f[v]], NEW w \in W, f[w] = None,
         NEW wg, NEW exact \in BOOLEAN, Counts(wg, s, f, W, O, exact)
  PROVE  Counts(wg, Tail(s), [f EXCEPT ![w] = Head(s)], W, O, exact)
<1>1. ASSUME NEW o \in O
      PROVE  Load(Tail(s), [f EXCEPT ![w] = Head(s)], W, o) = Load(s, f, W, o)
  BY LoadMoved
<1> QED BY <1>1 DEF Counts

\* ... and only stays an upper bound when the item is lost.
LEMMA CountsLost ==
  ASSUME NEW O, NEW S, NEW s \in Seq(S), s # <<>>, NEW W, IsFiniteSet(W), NEW f,
         NEW wg \in [O -> Nat], NEW exact \in BOOLEAN, ~exact, Counts(wg, s, f, W, O, exact)
  PROVE  Counts(wg, Tail(s), f, W, O, exact)
<1>1. Tail(s) \in Seq(S)
  OBVIOUS
<1>2. ASSUME NEW o \in O PROVE Load(Tail(s), f, W, o) <= wg[o]
  <2>1. Load(Tail(s), f, W, o) <= Load(s, f, W, o) /\ Load(s, f, W, o) \in Nat
    BY LoadLost, LoadType
  <2>2. Load(Tail(s), f, W, o) \in Nat /\ wg[o] \in Nat /\ Load(s, f, W, o) <= wg[o]
    BY <1>1, LoadType DEF Counts
  <2> QED BY <2>1, <2>2
<1> QED BY <1>2 DEF Counts

\* The worker is done with what it held, and the WaitGroup told so ...
LEMMA CountsDone ==
  ASSUME NEW O, NEW S, NEW s \in Seq(S), NEW W, IsFiniteSet(W),
         NEW f, f = [v \in W |-> f[v]], NEW w \in W, f[w] # None, f[w].owner \in O,
         NEW wg \in [O -> Nat], NEW exact \in BOOLEAN, Counts(wg, s, f, W, O, exact)
  PROVE  LET wg2 == [wg EXCEPT ![f[w].owner] = @ - 1]
         IN  Counts(wg2, s, [f EXCEPT ![w] = None], W, O, exact) /\ wg2 \in [O -> Nat]
<1> DEFINE wg2 == [wg EXCEPT ![f[w].owner] = @ - 1]
           g == [f EXCEPT ![w] = None]
<1>1. ASSUME NEW o \in O
      PROVE  /\ Load(s, f, W, o) = Load(s, g, W, o) + One(f[w], o)
             /\ Load(s, g, W, o) \in Nat /\ wg[o] \in Nat /\ wg2[o] = wg[o] - One(f[w], o)
             /\ One(f[w], o) \in Nat /\ Load(s, f, W, o) <= wg[o]
  <2>1. Load(s, f, W, o) = Load(s, g, W, o) + One(f[w], o) /\ Load(s, g, W, o) \in Nat
    BY LoadDropped, LoadType
  <2>2. wg2[o] = wg[o] - One(f[w], o) /\ wg[o] \in Nat /\ One(f[w], o) \in Nat
    BY DEF One
  <2> QED BY <2>1, <2>2 DEF Counts
<1>2. DOMAIN wg2 = O /\ wg2 = [o \in O |-> wg2[o]]
  OBVIOUS
<1> HIDE DEF wg2, g
<1>3. ASSUME NEW o \in O PROVE wg2[o] \in Nat /\ Load(s, g, W, o) <= wg2[o]
  <2>1. \A l, k, n \in Nat : l + k <= n => n - k \in Nat /\ l <= n - k
    OBVIOUS
  <2>2. Load(s, g, W, o) + One(f[w], o) <= wg[o]
    BY <1>1
  <2>3. wg[o] - One(f[w], o) \in Nat /\ Load(s, g, W, o) <= wg[o] - One(f[w], o)
    BY <1>1, <2>1, <2>2, Zenon
  <2>4. wg2[o] = wg[o] - One(f[w], o)
    BY <1>1
  <2> QED BY <2>3, <2>4, Zenon
<1>4. ASSUME exact, NEW o \in O PROVE Load(s, g, W, o) = wg2[o]
  BY <1>1, <1>4 DEF Counts
<1>5. Counts(wg2, s, g, W, O, exact)
  BY <1>3, <1>4 DEF Counts
<1>6. wg2 \in [O -> Nat]
  BY <1>2, <1>3
<1> QED BY <1>5, <1>6 DEF wg2, g

\* ... or dies of a panic with the WaitGroup as it was.
LEMMA CountsAbandoned ==
  ASSUME NEW O, NEW S, NEW s \in Seq(S), NEW W, IsFiniteSet(W),
         NEW f, f = [v \in W |-> f[v]], NEW w \in W, f[w] # None,
         NEW wg \in [O -> Nat], NEW exact \in BOOLEAN, ~exact, Counts(wg, s, f, W, O, exact)
  PROVE  Counts(wg, s, [f EXCEPT ![w] = None], W, O, exact)
<1> DEFINE g == [f EXCEPT ![w] = None]
<1>1. ASSUME NEW o \in O PROVE Load(s, g, W, o) <= wg[o]
  <2>1. Load(s, f, W, o) = Load(s, g, W, o) + One(f[w], o) /\ Load(s, g, W, o) \in Nat
    BY LoadDropped, LoadType
  <2>2. wg[o] \in Nat /\ One(f[w], o) \in Nat /\ Load(s, f, W, o) <= wg[o]
    BY DEF One, Counts
  <2> HIDE DEF g
  <2> QED BY <2>1, <2>2
<1> QED BY <1>1 DEF Counts

(***************************************************************************)
(* The invariant: both kinds of WaitGroups count, and a worker holds an    *)
(* item exactly while it works on it.                                      *)
(***************************************************************************)
FlightTypes ==
  /\ detectCh \in Seq(Detectable) /\ overlapCh \in Seq(OverlapItem)
  /\ stodo \in [Scanners -> Seq(Pieces)]
  /\ vitem \in [Verifiers -> OverlapItem \cup {None}]
  /\ ditem \in [DetectWorkers -> Detectable \cup {None}]
  /\ wgOverlap \in [Scanners -> Nat] /\ wgDetect \in [Owners -> Nat]
Busy ==
  /\ \A v \in Verifiers : vpc[v] = "direct" <=> vitem[v] # None
  /\ \A d \in DetectWorkers : dpc[d] = "results" <=> ditem[d] # None
DetectCounts == Counts(wgDetect, detectCh, ditem, DetectWorkers, Owners, panics = {})
OverlapCounts == Counts(wgOverlap, overlapCh, vitem, Verifiers, Scanners, panics = {})
FlightInv == CloseInv /\ FlightTypes /\ Busy /\ DetectCounts /\ OverlapCounts

\* The invariant says what the run checks.
LEMMA FlightCounted == FlightInv => InFlightCounted
<1>1. /\ \A o : InFlight(o) = Load(detectCh, ditem, DetectWorkers, o)
      /\ \A w : InOverlap(w) = Load(overlapCh, vitem, Verifiers, w)
  BY DEF InFlight, InOverlap, Load, OwnedIn, OwnedBy
<1> QED BY <1>1 DEF FlightInv, DetectCounts, OverlapCounts, Counts, InFlightCounted

\* What the counts are about may stay as it is.
LEMMA CountsStay ==
  /\ DetectCounts /\ UNCHANGED <<detectCh, ditem, wgDetect, panics>> => DetectCounts'
  /\ OverlapCounts /\ UNCHANGED <<overlapCh, vitem, wgOverlap, panics>> => OverlapCounts'
  BY DEF DetectCounts, OverlapCounts, Counts, Load, OwnedIn, OwnedBy

\* A channel that a scanner or an overlap worker sends on is open.
LEMMA OpenToSenders ==
  ASSUME FlightInv
  PROVE  /\ \A w \in Scanners : spc[w] = "scan" => ~OverlapClosed /\ ~DetectClosed
         /\ \A v \in Verifiers : vpc[v] = "direct" => ~DetectClosed
  BY ClosedInOrder DEF FlightInv, CloseInv, NoSenderAfterClose

\* A piece is sent to the detector workers, and its sender's WaitGroup told.
LEMMA DetectSent ==
  ASSUME FlightInv, NEW e \in Detectable, ~DetectClosed, Send(detectCh, DetectClosed, DetectCap, e),
         wgDetect' = [wgDetect EXCEPT ![e.owner] = @ + 1], UNCHANGED <<ditem, panics>>
  PROVE  DetectCounts' /\ detectCh' \in Seq(Detectable) /\ wgDetect' \in [Owners -> Nat]
<1>1. detectCh' = Append(detectCh, e) /\ e.owner \in Owners
  BY DEF Send, Detectable
<1>2. /\ detectCh \in Seq(Detectable) /\ wgDetect \in [Owners -> Nat] /\ IsFiniteSet(DetectWorkers)
      /\ Counts(wgDetect, detectCh, ditem, DetectWorkers, Owners, panics = {})
  BY PipelineAssumption DEF FlightInv, FlightTypes, DetectCounts
<1>3. Counts(wgDetect', detectCh', ditem, DetectWorkers, Owners, panics = {}) /\ wgDetect' \in [Owners -> Nat]
  BY <1>1, <1>2, CountsSent
<1>4. detectCh' \in Seq(Detectable)
  BY <1>1, <1>2
<1> QED BY <1>3, <1>4 DEF DetectCounts, Counts, Load, OwnedIn, OwnedBy

\* A scanner adds to a WaitGroup what it sends, and waits for it.
LEMMA ScannerFlight ==
  ASSUME FlightInv, NEW w \in Scanners, Scanner(w)
  PROVE  FlightInv'
<1>1. CloseInv' /\ CloseInv /\ FlightTypes /\ Busy /\ DetectCounts /\ OverlapCounts
  BY ScannerPreserves DEF FlightInv
<1>2. UNCHANGED <<panics, vpc, vitem, dpc, ditem>>
  BY DEF Scanner, ReceiveChunk, SendOverlap, SendDetectable, NextPiece, ChunkScanned,
     ChunksExhausted, OverlapWaited, ScannerDone, ScannerStep, verifierVars, detectVars
<1>3. stodo' \in [Scanners -> Seq(Pieces)]
  <2>1. CASE \E c \in Chunks : ReceiveChunk(w, c)
    BY <1>1, <2>1, PipelineAssumption DEF ReceiveChunk, FlightTypes
  <2>2. CASE SendOverlap(w) \/ NextPiece(w)
    <3>1. stodo' = [stodo EXCEPT ![w] = Tail(@)] /\ stodo[w] # <<>>
      BY <2>2 DEF SendOverlap, NextPiece
    <3>2. stodo[w] \in Seq(Pieces) /\ stodo \in [Scanners -> Seq(Pieces)]
      BY <1>1 DEF FlightTypes
    <3>3. Tail(stodo[w]) \in Seq(Pieces)
      BY <3>1, <3>2
    <3> QED BY <3>1, <3>2, <3>3
  <2>3. CASE UNCHANGED stodo
    BY <1>1, <2>3 DEF FlightTypes
  <2> QED BY <2>1, <2>2, <2>3 DEF Scanner, SendDetectable, ChunkScanned, ChunksExhausted,
             OverlapWaited, ScannerDone
<1>4. CASE SendOverlap(w)
  <2> DEFINE e == [piece |-> Head(stodo[w]), owner |-> w]
  <2>1. /\ ~OverlapClosed /\ spc[w] = "scan"
        /\ stodo[w] \in Seq(Pieces) /\ stodo[w] # <<>>
    BY <1>1, <1>4, OpenToSenders DEF SendOverlap, ScannerStep, FlightTypes
  <2>2. e \in OverlapItem /\ e.owner = w
    BY <2>1 DEF OverlapItem
  <2> HIDE DEF e
  <2>3. overlapCh' = Append(overlapCh, e) /\ wgOverlap' = [wgOverlap EXCEPT ![e.owner] = @ + 1]
    BY <1>4, <2>1, <2>2 DEF SendOverlap, Send, e
  <2>4. /\ overlapCh \in Seq(OverlapItem) /\ wgOverlap \in [Scanners -> Nat] /\ IsFiniteSet(Verifiers)
        /\ Counts(wgOverlap, overlapCh, vitem, Verifiers, Scanners, panics = {})
    BY <1>1, PipelineAssumption DEF FlightTypes, OverlapCounts
  <2>5. /\ Counts(wgOverlap', overlapCh', vitem, Verifiers, Scanners, panics = {})
        /\ wgOverlap' \in [Scanners -> Nat]
    BY <2>2, <2>3, <2>4, CountsSent
  <2>6. OverlapCounts' /\ overlapCh' \in Seq(OverlapItem)
    BY <1>2, <2>2, <2>3, <2>4, <2>5 DEF OverlapCounts, Counts, Load, OwnedIn, OwnedBy
  <2>7. UNCHANGED <<detectCh, wgDetect>>
    BY <1>4 DEF SendOverlap
  <2> QED BY <1>1, <1>2, <1>3, <2>5, <2>6, <2>7, CountsStay DEF FlightInv, FlightTypes, Busy
<1>5. ASSUME NEW d \in Detectors, SendDetectable(w, d) PROVE FlightInv'
  <2> DEFINE e == [piece |-> Head(stodo[w]), detector |-> d, owner |-> w]
  <2>1. /\ ~DetectClosed /\ stodo[w] \in Seq(Pieces) /\ stodo[w] # <<>>
    BY <1>1, <1>5, OpenToSenders DEF SendDetectable, ScannerStep, FlightTypes
  <2>2. e \in Detectable /\ e.owner = w
    BY <2>1 DEF Detectable, Owners
  <2> HIDE DEF e
  <2>3. /\ Send(detectCh, DetectClosed, DetectCap, e)
        /\ wgDetect' = [wgDetect EXCEPT ![e.owner] = @ + 1] /\ UNCHANGED <<overlapCh, wgOverlap>>
    BY <1>5, <2>2 DEF SendDetectable, e
  <2>4. DetectCounts' /\ detectCh' \in Seq(Detectable) /\ wgDetect' \in [Owners -> Nat]
    BY <1>2, <2>1, <2>2, <2>3, DetectSent
  <2> QED BY <1>1, <1>2, <1>3, <2>3, <2>4, CountsStay DEF FlightInv, FlightTypes, Busy
<1>6. CASE UNCHANGED <<overlapCh, detectCh, wgOverlap, wgDetect>>
  BY <1>1, <1>2, <1>3, <1>6, CountsStay DEF FlightInv, FlightTypes, Busy
<1> QED BY <1>4, <1>5, <1>6 DEF Scanner, ReceiveChunk, NextPiece, ChunkScanned, ChunksExhausted,
           OverlapWaited, ScannerDone

\* Without panics every detector of a piece survives.
LEMMA NoPanicNoLoss ==
  ASSUME panics = {}, NEW p
  PROVE  Survivors(p) = Matching[p]
<1> DEFINE first == SelectInSeq(Matching[p], LAMBDA d : <<p, d>> \in panics)
<1>1. first = 0
  BY DEF SelectInSeq
<1> QED BY <1>1 DEF Survivors

\* An overlap worker answers for an item when every detector has been dealt with.
LEMMA VerifierFlight ==
  ASSUME FlightInv, NEW v \in Verifiers, Verifier(v)
  PROVE  FlightInv'
<1>1. CloseInv' /\ CloseInv /\ FlightTypes /\ Busy /\ DetectCounts /\ OverlapCounts
  BY VerifierPreserves DEF FlightInv
<1>2. UNCHANGED <<panics, stodo, dpc, ditem>> /\ IsFiniteSet(Verifiers)
  BY PipelineAssumption DEF Verifier, AnalyseOverlap, ReportDirect, VerifierPanics, SendReverify,
     OverlapDone, OverlapExhausted, VerifierDone, VerifierStep, scanVars, detectVars
<1>3. /\ overlapCh \in Seq(OverlapItem) /\ vitem = [u \in Verifiers |-> vitem[u]]
      /\ wgOverlap \in [Scanners -> Nat]
      /\ Counts(wgOverlap, overlapCh, vitem, Verifiers, Scanners, panics = {})
  BY <1>1 DEF FlightTypes, OverlapCounts
<1>4. vpc \in [Verifiers -> {"range", "direct", "wait", "exit"}]
  BY <1>1 DEF CloseInv, TypeCounters
<1>5. CASE AnalyseOverlap(v)
  <2>1. /\ vpc[v] = "range" /\ vpc' = [vpc EXCEPT ![v] = "direct"] /\ overlapCh # <<>>
        /\ overlapCh' = Tail(overlapCh) /\ vitem' = [vitem EXCEPT ![v] = Head(overlapCh)]
        /\ UNCHANGED <<detectCh, wgOverlap, wgDetect>>
    BY <1>5 DEF AnalyseOverlap, VerifierStep
  <2>2. /\ Head(overlapCh) \in OverlapItem /\ Head(overlapCh) # None /\ vitem[v] = None
        /\ Tail(overlapCh) \in Seq(OverlapItem)
    BY <1>1, <1>3, <2>1, PipelineAssumption DEF Busy
  <2>3. Counts(wgOverlap, Tail(overlapCh), [vitem EXCEPT ![v] = Head(overlapCh)],
               Verifiers, Scanners, panics = {})
    BY <1>2, <1>3, <2>1, <2>2, CountsMoved
  <2>4. OverlapCounts'
    BY <1>2, <2>1, <2>3 DEF OverlapCounts, Counts, Load, OwnedIn, OwnedBy
  <2>5. FlightTypes'
    BY <1>1, <1>2, <2>1, <2>2 DEF FlightTypes
  <2>6. Busy'
    BY <1>1, <1>2, <1>4, <2>1, <2>2 DEF Busy, FlightTypes
  <2> QED BY <1>1, <1>2, <2>1, <2>4, <2>5, <2>6, CountsStay DEF FlightInv
<1>6. CASE VerifierPanics(v)
  <2>1. /\ vpc' = [vpc EXCEPT ![v] = "exit"] /\ vitem[v] # None
        /\ vitem' = [vitem EXCEPT ![v] = None]
        /\ UNCHANGED <<overlapCh, detectCh, wgOverlap, wgDetect>> /\ panics # {}
    BY <1>6, NoPanicNoLoss DEF VerifierPanics, VerifierStep
  <2>2. Counts(wgOverlap, overlapCh, [vitem EXCEPT ![v] = None], Verifiers, Scanners, panics = {})
    BY <1>2, <1>3, <2>1, CountsAbandoned
  <2>3. OverlapCounts'
    BY <1>2, <2>1, <2>2 DEF OverlapCounts, Counts, Load, OwnedIn, OwnedBy
  <2>4. FlightTypes'
    BY <1>1, <1>2, <2>1 DEF FlightTypes
  <2>5. Busy'
    BY <1>1, <1>2, <1>4, <2>1 DEF Busy, FlightTypes
  <2> QED BY <1>1, <1>2, <2>1, <2>3, <2>4, <2>5, CountsStay DEF FlightInv
<1>7. CASE OverlapDone(v)
  <2>1. /\ vpc[v] = "direct" /\ vpc' = [vpc EXCEPT ![v] = "range"]
        /\ vitem' = [vitem EXCEPT ![v] = None]
        /\ wgOverlap' = [wgOverlap EXCEPT ![vitem[v].owner] = @ - 1]
        /\ UNCHANGED <<overlapCh, detectCh, wgDetect>>
    BY <1>7 DEF OverlapDone, VerifierStep
  <2>2. vitem[v] # None /\ vitem[v].owner \in Scanners
    BY <1>1, <2>1 DEF Busy, FlightTypes, OverlapItem
  <2>3. /\ Counts(wgOverlap', overlapCh, [vitem EXCEPT ![v] = None], Verifiers, Scanners, panics = {})
        /\ wgOverlap' \in [Scanners -> Nat]
    BY <1>2, <1>3, <2>1, <2>2, CountsDone
  <2>4. OverlapCounts'
    BY <1>2, <2>1, <2>3 DEF OverlapCounts, Counts, Load, OwnedIn, OwnedBy
  <2>5. FlightTypes'
    BY <1>1, <1>2, <2>1, <2>3 DEF FlightTypes
  <2>6. Busy'
    BY <1>1, <1>2, <1>4, <2>1 DEF Busy, FlightTypes
  <2> QED BY <1>1, <1>2, <2>1, <2>4, <2>5, <2>6, CountsStay DEF FlightInv
<1>8. ASSUME NEW d \in Detectors, SendReverify(v, d) PROVE FlightInv'
  <2> DEFINE e == [piece |-> vitem[v].piece, detector |-> d, owner |-> v]
  <2>1. vpc[v] = "direct" /\ vpc' = [vpc EXCEPT ![v] = "direct"]
    BY <1>8 DEF SendReverify, VerifierStep
  <2>2. vitem[v] \in OverlapItem /\ ~DetectClosed
    BY <1>1, <2>1, OpenToSenders DEF Busy, FlightTypes
  <2>3. e \in Detectable /\ e.owner = v
    BY <2>2 DEF Detectable, Owners, OverlapItem
  <2> HIDE DEF e
  <2>4. /\ Send(detectCh, DetectClosed, DetectCap, e)
        /\ wgDetect' = [wgDetect EXCEPT ![e.owner] = @ + 1]
        /\ UNCHANGED <<overlapCh, wgOverlap, vitem>>
    BY <1>8, <2>3 DEF SendReverify, e
  <2>5. DetectCounts' /\ detectCh' \in Seq(Detectable) /\ wgDetect' \in [Owners -> Nat]
    BY <1>2, <2>2, <2>3, <2>4, DetectSent
  <2>6. Busy'
    BY <1>1, <1>2, <1>4, <2>1, <2>4 DEF Busy
  <2> QED BY <1>1, <1>2, <2>4, <2>5, <2>6, CountsStay DEF FlightInv, FlightTypes
<1>9. CASE ReportDirect(v) \/ OverlapExhausted(v) \/ VerifierDone(v)
  <2>1. /\ UNCHANGED <<overlapCh, detectCh, wgOverlap, wgDetect, vitem>>
        /\ \/ vpc[v] = "direct" /\ vpc' = [vpc EXCEPT ![v] = "direct"]
           \/ vpc[v] # "direct" /\ vpc' = [vpc EXCEPT ![v] = "wait"]
           \/ vpc[v] # "direct" /\ vpc' = [vpc EXCEPT ![v] = "exit"]
    BY <1>9 DEF ReportDirect, OverlapExhausted, VerifierDone, VerifierStep
  <2>2. Busy'
    BY <1>1, <1>2, <1>4, <2>1 DEF Busy
  <2> QED BY <1>1, <1>2, <2>1, <2>2, CountsStay DEF FlightInv, FlightTypes
<1> QED BY <1>5, <1>6, <1>7, <1>8, <1>9 DEF Verifier

\* A detector worker answers for an item when its results are sent.
LEMMA DetectWorkerFlight ==
  ASSUME FlightInv, NEW d \in DetectWorkers, DetectWorker(d)
  PROVE  FlightInv'
<1>1. CloseInv' /\ CloseInv /\ FlightTypes /\ Busy /\ DetectCounts /\ OverlapCounts
  BY DetectWorkerPreserves DEF FlightInv
<1>2. UNCHANGED <<panics, stodo, vpc, vitem, overlapCh, wgOverlap>> /\ IsFiniteSet(DetectWorkers)
  BY PipelineAssumption DEF DetectWorker, DetectChunk, DetectChunkPanics, ReportResult,
     DetectChunkDone, DetectExhausted, DetectStep, scanVars, verifierVars
<1>3. /\ detectCh \in Seq(Detectable) /\ ditem = [u \in DetectWorkers |-> ditem[u]]
      /\ wgDetect \in [Owners -> Nat]
      /\ Counts(wgDetect, detectCh, ditem, DetectWorkers, Owners, panics = {})
  BY <1>1 DEF FlightTypes, DetectCounts
<1>4. dpc \in [DetectWorkers -> {"range", "results", "exit"}]
  BY <1>1 DEF CloseInv, TypeCounters
<1>5. CASE DetectChunk(d)
  <2>1. /\ dpc[d] = "range" /\ dpc' = [dpc EXCEPT ![d] = "results"] /\ detectCh # <<>>
        /\ detectCh' = Tail(detectCh) /\ ditem' = [ditem EXCEPT ![d] = Head(detectCh)]
        /\ UNCHANGED wgDetect
    BY <1>5 DEF DetectChunk, DetectStep
  <2>2. /\ Head(detectCh) \in Detectable /\ Head(detectCh) # None /\ ditem[d] = None
        /\ Tail(detectCh) \in Seq(Detectable)
    BY <1>1, <1>3, <2>1, PipelineAssumption DEF Busy
  <2>3. Counts(wgDetect, Tail(detectCh), [ditem EXCEPT ![d] = Head(detectCh)],
               DetectWorkers, Owners, panics = {})
    BY <1>2, <1>3, <2>1, <2>2, CountsMoved
  <2>4. DetectCounts'
    BY <1>2, <2>1, <2>3 DEF DetectCounts, Counts, Load, OwnedIn, OwnedBy
  <2>5. FlightTypes'
    BY <1>1, <1>2, <2>1, <2>2 DEF FlightTypes
  <2>6. Busy'
    BY <1>1, <1>2, <1>4, <2>1, <2>2 DEF Busy, FlightTypes
  <2> QED BY <1>1, <1>2, <2>4, <2>5, <2>6, CountsStay DEF FlightInv
<1>6. CASE DetectChunkPanics(d)
  <2>1. /\ dpc[d] = "range" /\ dpc' = [dpc EXCEPT ![d] = "range"] /\ detectCh # <<>>
        /\ detectCh' = Tail(detectCh) /\ UNCHANGED <<wgDetect, ditem>> /\ panics # {}
    BY <1>6 DEF DetectChunkPanics, DetectStep
  <2>2. Counts(wgDetect, Tail(detectCh), ditem, DetectWorkers, Owners, panics = {})
    BY <1>2, <1>3, <2>1, CountsLost
  <2>3. DetectCounts'
    BY <1>2, <2>1, <2>2 DEF DetectCounts, Counts, Load, OwnedIn, OwnedBy
  <2>4. Tail(detectCh) \in Seq(Detectable)
    BY <1>3, <2>1
  <2>5. FlightTypes' /\ Busy'
    BY <1>1, <1>2, <1>4, <2>1, <2>4 DEF FlightTypes, Busy
  <2> QED BY <1>1, <1>2, <2>3, <2>5, CountsStay DEF FlightInv
<1>7. CASE DetectChunkDone(d)
  <2>1. /\ dpc[d] = "results" /\ dpc' = [dpc EXCEPT ![d] = "range"]
        /\ ditem' = [ditem EXCEPT ![d] = None]
        /\ wgDetect' = [wgDetect EXCEPT ![ditem[d].owner] = @ - 1] /\ UNCHANGED detectCh
    BY <1>7 DEF DetectChunkDone, DetectStep
  <2>2. ditem[d] # None /\ ditem[d].owner \in Owners
    BY <1>1, <2>1 DEF Busy, FlightTypes, Detectable
  <2>3. /\ Counts(wgDetect', detectCh, [ditem EXCEPT ![d] = None], DetectWorkers, Owners, panics = {})
        /\ wgDetect' \in [Owners -> Nat]
    BY <1>2, <1>3, <2>1, <2>2, CountsDone
  <2>4. DetectCounts'
    BY <1>2, <2>1, <2>3 DEF DetectCounts, Counts, Load, OwnedIn, OwnedBy
  <2>5. FlightTypes'
    BY <1>1, <1>2, <2>1, <2>3 DEF FlightTypes
  <2>6. Busy'
    BY <1>1, <1>2, <1>4, <2>1 DEF Busy, FlightTypes
  <2> QED BY <1>1, <1>2, <2>4, <2>5, <2>6, CountsStay DEF FlightInv
<1>8. CASE ReportResult(d) \/ DetectExhausted(d)
  <2>1. /\ UNCHANGED <<detectCh, wgDetect, ditem>>
        /\ \/ dpc[d] = "results" /\ dpc' = [dpc EXCEPT ![d] = "results"]
           \/ dpc[d] = "range" /\ dpc' = [dpc EXCEPT ![d] = "exit"]
    BY <1>8 DEF ReportResult, DetectExhausted, DetectStep
  <2>2. Busy'
    BY <1>1, <1>2, <1>4, <2>1 DEF Busy
  <2> QED BY <1>1, <1>2, <2>1, <2>2, CountsStay DEF FlightInv, FlightTypes
<1> QED BY <1>5, <1>6, <1>7, <1>8 DEF DetectWorker

\* Notifiers and Finish hold no item.
LEMMA OthersFlight ==
  ASSUME FlightInv, [Next]_vars,
         ~\E w \in Scanners : Scanner(w), ~\E v \in Verifiers : Verifier(v),
         ~\E d \in DetectWorkers : DetectWorker(d)
  PROVE  FlightInv'
<1>1. UNCHANGED <<panics, overlapCh, detectCh, stodo, wgOverlap, wgDetect, vpc, vitem, dpc, ditem>>
  BY DEF Next, Step, Notifier, NotifyResult, ResultsExhausted, Finish, SourcesFinished, CloseOverlap,
     CloseDetectable, CloseResults, FinishReturned, FinishStep, scanVars, verifierVars, detectVars, vars
<1> QED BY <1>1, NextPreserves, CountsStay DEF FlightInv, FlightTypes, Busy

\* NoOutcome is under way at first.
LEMMA InitFlight == Init => FlightInv
<1> SUFFICES ASSUME Init PROVE FlightInv
  OBVIOUS
<1>1. CloseInv /\ FlightTypes /\ Busy
  BY DEF Init, CloseInv, TypeCounters, NoSenderAfterClose, ChunksClosed, OverlapClosed,
     DetectClosed, ResultsClosed, FlightTypes, Busy
<1>2. ASSUME NEW o
      PROVE  Load(detectCh, ditem, DetectWorkers, o) = 0 /\ Load(overlapCh, vitem, Verifiers, o) = 0
  <2>1. /\ OwnedIn(detectCh, o) = {} /\ OwnedBy(ditem, DetectWorkers, o) = {}
        /\ OwnedIn(overlapCh, o) = {} /\ OwnedBy(vitem, Verifiers, o) = {}
    BY DEF Init, OwnedIn, OwnedBy
  <2> QED BY <2>1, FS_EmptySet DEF Load
<1>3. (\A o \in Owners : wgDetect[o] = 0) /\ \A w \in Scanners : wgOverlap[w] = 0
  BY DEF Init
<1> QED BY <1>1, <1>2, <1>3 DEF FlightInv, DetectCounts, OverlapCounts, Counts

(***************************************************************************)
(* No WaitGroup of the pipeline is ever below the work it stands for, so   *)
(* none is counted below zero and no scanner or overlap worker leaves      *)
(* while its work is under way; without panics each is exact, whatever the *)
(* capacities and the numbers of workers.                                  *)
(***************************************************************************)
THEOREM WaitGroupsCount == Spec => []InFlightCounted
<1>1. FlightInv /\ [Next]_vars => FlightInv'
  BY ScannerFlight, VerifierFlight, DetectWorkerFlight, OthersFlight
<1> QED BY <1>1, InitFlight, FlightCounted, PTL DEF Spec
----------------------------------------------------------------------------
KeysOf(K) == [secret : Secrets, detector : K]
Outcomes(K) == [chunkSecrets : SUBSET KeysOf(K), direct : Seq(KeysOf(K)),
                keysWithResults : SUBSET K]
ResultsFrom(acc, d, q) ==
  FoldLeft(LAMBDA a, s : NextResult(a, [secret |-> s, detector |-> d]), acc, q)

\* Appending e makes one more of e, ...
LEMMA TimesAppend ==
  ASSUME NEW D, NEW s \in Seq(D), NEW x \in D, NEW e
  PROVE  Times(Append(s, x), e) = Times(s, e) + (IF x = e THEN 1 ELSE 0)
  <1>1. Cardinality(Positions(Append(s, x), {e}))
          = Cardinality(Positions(s, {e})) + (IF x \in {e} THEN 1 ELSE 0)
    BY PositionsAppend
  <1>2. Times(s, e) = Cardinality(Positions(s, {e})) /\ Times(Append(s, x), e) = Cardinality(Positions(Append(s, x), {e}))
    BY DEF Times, Positions
  <1> QED BY <1>1, <1>2

\* ... dropping it one less.
LEMMA TimesTail ==
  ASSUME NEW D, NEW s \in Seq(D), s # <<>>, NEW e
  PROVE  Times(s, e) = Times(Tail(s), e) + (IF Head(s) = e THEN 1 ELSE 0)
  <1>1. Cardinality(Positions(s, {e}))
          = Cardinality(Positions(Tail(s), {e})) + (IF Head(s) \in {e} THEN 1 ELSE 0)
    BY PositionsTail
  <1>2. Times(s, e) = Cardinality(Positions(s, {e})) /\ Times(Tail(s), e) = Cardinality(Positions(Tail(s), {e}))
    BY DEF Times, Positions
  <1> QED BY <1>1, <1>2

\* How often an element occurs is a natural number.
LEMMA TimesNat ==
  ASSUME NEW D, NEW s \in Seq(D), NEW e
  PROVE  Times(s, e) \in Nat
  <1>1. Times(s, e) = Cardinality(Positions(s, {e}))
    BY DEF Times, Positions
  <1> QED BY <1>1, PositionsFinite

\* An element that is not there is there no time.
LEMMA TimesNone ==
  ASSUME NEW s, NEW e, \A i \in DOMAIN s : s[i] # e
  PROVE  Times(s, e) = 0
  <1>1. {i \in DOMAIN s : s[i] = e} = {}
    OBVIOUS
  <1> QED BY <1>1, FS_EmptySet DEF Times

\* One result is reported at once or not, and is about a detector that was run.
LEMMA NextResultType ==
  ASSUME NEW K, NEW acc \in Outcomes(K), NEW key \in KeysOf(K)
  PROVE  /\ NextResult(acc, key) \in Outcomes(K)
         /\ NextResult(acc, key).direct = acc.direct \/ NextResult(acc, key).direct = Append(acc.direct, key)
  <1>1. /\ acc.chunkSecrets \in SUBSET KeysOf(K) /\ acc.direct \in Seq(KeysOf(K))
        /\ acc.keysWithResults \in SUBSET K
    BY DEF Outcomes
  <1>2. Append(acc.direct, key) \in Seq(KeysOf(K))
    BY <1>1
  <1> QED BY <1>1, <1>2 DEF NextResult, Outcomes

\* The results of a detector are dealt with one after the other: h[i] is what the first i have led to.
LEMMA ResultsSteps ==
  ASSUME NEW K, NEW acc \in Outcomes(K), NEW d \in K, NEW q \in Seq(Secrets)
  PROVE  \E h \in [0..Len(q) -> Outcomes(K)] :
            /\ h[0] = acc /\ h[Len(q)] = ResultsFrom(acc, d, q)
            /\ \A i \in 1..Len(q) : h[i] = NextResult(h[i - 1], [secret |-> q[i], detector |-> d])
  <1> DEFINE A == Outcomes(K)
             n == Len(q)
             F == [p \in A \X Secrets |-> NextResult(p[1], [secret |-> p[2], detector |-> d])]
             Made(g) == g = [s \in SUBSET (1..n) |->
                               IF s = {} THEN acc
                               ELSE NextResult(g[s \ {Max(s)}], [secret |-> q[Max(s)], detector |-> d])]
  <1>1. n \in Nat /\ q \in [1..n -> Secrets] /\ DOMAIN q = 1..n
    OBVIOUS
  <1>2. \A a \in A, s \in Secrets :
          /\ NextResult(a, [secret |-> s, detector |-> d]) \in A
          /\ F[<<a, s>>] = NextResult(a, [secret |-> s, detector |-> d])
    <2>1. ASSUME NEW a \in A, NEW s \in Secrets
          PROVE  NextResult(a, [secret |-> s, detector |-> d]) \in A
      BY NextResultType DEF KeysOf
    <2> QED BY <2>1
  <1>3. F \in [A \X Secrets -> A]
    BY <1>2
  <1> HIDE DEF A, n, F
  <1>4. PICK g \in [SUBSET (1..n) -> A] : Folds(g, F, acc, q, 1..n)
    BY <1>1, <1>3, FoldExists DEF A
  <1>5. ASSUME NEW s \in SUBSET (1..n), s # {}
        PROVE  g[s] = NextResult(g[s \ {Max(s)}], [secret |-> q[Max(s)], detector |-> d])
    <2>1. Max(s) \in 1..n /\ s \ {Max(s)} \in SUBSET (1..n)
      BY <1>1, <1>5, MaxOf
    <2>2. g[s] = F[<<g[s \ {Max(s)}], q[Max(s)]>>]
      BY <1>4, <1>5 DEF Folds
    <2>3. g[s \ {Max(s)}] \in A /\ q[Max(s)] \in Secrets
      BY <1>1, <1>4, <2>1
    <2> QED BY <1>2, <2>2, <2>3
  <1>6. g[{}] = acc
    BY <1>4 DEF Folds
  <1>7. Made(g)
    BY <1>4, <1>5, <1>6
  <1> DEFINE made == CHOOSE k : Made(k)
  <1>8. ResultsFrom(acc, d, q) = made[1..n]
    BY <1>1 DEF ResultsFrom, FoldLeft, MapThenFoldSet
  <1>9. Made(made)
    BY <1>7
  <1>10. made[1..n] = g[1..n]
    <2>1. made[{}] = acc
      BY <1>9
    <2>2. \A s \in SUBSET (1..n) : s # {} =>
            made[s] = NextResult(made[s \ {Max(s)}], [secret |-> q[Max(s)], detector |-> d])
      BY <1>9
    <2> HIDE DEF made, Made
    <2> DEFINE G == {s \in SUBSET (1..n) : made[s] = g[s]}
    <2>3. {} \in G
      BY <1>6, <2>1
    <2>4. ASSUME NEW s \in SUBSET (1..n), s # {}, s \ {Max(s)} \in G PROVE s \in G
      BY <1>5, <2>2, <2>4
    <2>5. 1..n \in SUBSET (1..n) /\ (1..n \in G => made[1..n] = g[1..n])
      OBVIOUS
    <2> HIDE DEF G
    <2> QED BY <1>1, <2>3, <2>4, <2>5, FoldReaches
  <1> HIDE DEF Made, made
  <1> DEFINE h == [i \in 0..n |-> g[1..i]]
  <1>11. \A i \in 0..n : 1..i \in SUBSET (1..n) /\ h[i] = g[1..i]
    BY <1>1
  <1>12. h \in [0..n -> A]
    BY <1>4, <1>11
  <1>13. h[0] = acc /\ h[n] = ResultsFrom(acc, d, q)
    <2>1. 1..0 = {} /\ 0 \in 0..n /\ n \in 0..n
      BY <1>1
    <2> QED BY <1>6, <1>8, <1>10, <1>11, <2>1
  <1>14. ASSUME NEW i \in 1..n
         PROVE  h[i] = NextResult(h[i - 1], [secret |-> q[i], detector |-> d])
    <2>1. i \in 0..n /\ i - 1 \in 0..n
      BY <1>1
    <2>2. 1..i # {} /\ 1..i \in SUBSET (1..n) /\ Max(1..i) = i /\ (1..i) \ {Max(1..i)} = 1..(i - 1)
      BY <1>1, FoldPrefix
    <2>3. g[1..i] = NextResult(g[1..(i - 1)], [secret |-> q[i], detector |-> d])
      BY <1>5, <2>2
    <2> QED BY <1>11, <2>1, <2>3
  <1> HIDE DEF h
  <1> QED BY <1>12, <1>13, <1>14 DEF n, A
\* One detector adds to what is reported at once, and takes nothing back.
LEMMA NextDetectorType ==
  ASSUME NEW K, NEW acc \in Outcomes(K), NEW d \in K, NEW found, found[d] \in Seq(Secrets)
  PROVE  /\ NextDetector(acc, d, found) \in Outcomes(K)
         /\ \A k : Times(acc.direct, k) <= Times(NextDetector(acc, d, found).direct, k)
  <1> DEFINE q == found[d]
             start == [acc EXCEPT !.keysWithResults = @ \cup {d}]
  <1>1. /\ start \in Outcomes(K) /\ start.direct = acc.direct
        /\ \A k : Times(acc.direct, k) \in Nat
    <2>1. acc.direct \in Seq(KeysOf(K))
      BY DEF Outcomes
    <2>2. start \in Outcomes(K) /\ start.direct = acc.direct
      BY DEF Outcomes
    <2> QED BY <2>1, <2>2, TimesNat
  <1>2. CASE q = <<>>
    <2>1. NextDetector(acc, d, found) = acc
      BY <1>2 DEF NextDetector
    <2> QED BY <1>1, <2>1
  <1>3. CASE q # <<>>
    <2>1. NextDetector(acc, d, found) = ResultsFrom(start, d, q)
      BY <1>3 DEF NextDetector, ResultsFrom, FoldLeft, MapThenFoldSet
    <2>2. PICK h \in [0..Len(q) -> Outcomes(K)] :
             /\ h[0] = start /\ h[Len(q)] = ResultsFrom(start, d, q)
             /\ \A i \in 1..Len(q) : h[i] = NextResult(h[i - 1], [secret |-> q[i], detector |-> d])
      <3> HIDE DEF start
      <3> QED BY <1>1, ResultsSteps
    <2> HIDE DEF start, q
    <2>3. q \in Seq(Secrets) /\ Len(q) \in Nat
      BY DEF q
    <2>4. ASSUME NEW k PROVE Times(acc.direct, k) <= Times(h[Len(q)].direct, k)
      <3> DEFINE G == {i \in 0..Len(q) : Times(acc.direct, k) <= Times(h[i].direct, k)}
      <3>1. 0 \in G
        BY <1>1, <2>2, <2>3
      <3>2. ASSUME NEW i \in 1..Len(q), i - 1 \in G PROVE i \in G
        <4> DEFINE key == [secret |-> q[i], detector |-> d]
                   before == h[i - 1]
        <4>1. i - 1 \in 0..Len(q) /\ q[i] \in Secrets /\ i \in 0..Len(q)
          BY <2>3
        <4>2. before \in Outcomes(K) /\ key \in KeysOf(K) /\ h[i] = NextResult(before, key)
          BY <2>2, <4>1 DEF KeysOf
        <4>3. Times(acc.direct, k) <= Times(before.direct, k) /\ before.direct \in Seq(KeysOf(K))
          BY <3>2, <4>2 DEF Outcomes
        <4> HIDE DEF key, before
        <4>4. h[i].direct = before.direct \/ h[i].direct = Append(before.direct, key)
          BY <4>2, NextResultType
        <4>5. /\ Times(before.direct, k) \in Nat
              /\ Times(Append(before.direct, key), k) = Times(before.direct, k) + (IF key = k THEN 1 ELSE 0)
          BY <4>2, <4>3, TimesNat, TimesAppend
        <4>6. Times(acc.direct, k) <= Times(h[i].direct, k)
          <5>1. Times(acc.direct, k) \in Nat
            BY <1>1
          <5>2. CASE h[i].direct = before.direct
            BY <4>3, <5>2
          <5>3. CASE h[i].direct = Append(before.direct, key)
            <6>1. Times(h[i].direct, k) \in {Times(before.direct, k), Times(before.direct, k) + 1}
              BY <4>5, <5>3
            <6>2. \A l, m \in Nat : \A o \in {m, m + 1} : l <= m => l <= o
              OBVIOUS
            <6> QED BY <4>3, <4>5, <5>1, <6>1, <6>2
          <5> QED BY <4>4, <5>2, <5>3
        <4> QED BY <4>1, <4>6
      <3> HIDE DEF G
      <3>3. Len(q) \in 0..Len(q)
        BY <2>3
      <3>4. \A i \in 1..Len(q) : i - 1 \in G => i \in G
        BY <3>2
      <3>5. Len(q) \in G
        BY <2>3, <3>1, <3>3, <3>4, UpTo
      <3> QED BY <3>5 DEF G
    <2>5. h[Len(q)] \in Outcomes(K)
      BY <2>2, <2>3
    <2> QED BY <2>1, <2>2, <2>4, <2>5 DEF q, start
  <1> QED BY <1>2, <1>3

Trace(h, order, found) ==
  /\ h[0] = NoOutcome /\ h[Len(order)] = Analyse(order, found)
  /\ \A i \in 1..Len(order) : h[i] = NextDetector(h[i - 1], order[i], found)

\* The detectors are run one after the other.
LEMMA AnalyseSteps ==
  ASSUME NEW K, NEW order \in Seq(K), NEW found, \A d \in K : found[d] \in Seq(Secrets)
  PROVE  \E h \in [0..Len(order) -> Outcomes(K)] : Trace(h, order, found)
  <1> DEFINE A == Outcomes(K)
             n == Len(order)
             F == [p \in A \X K |-> NextDetector(p[1], p[2], found)]
             Made(g) == g = [s \in SUBSET (1..n) |->
                               IF s = {} THEN NoOutcome
                               ELSE NextDetector(g[s \ {Max(s)}], order[Max(s)], found)]
  <1>1. n \in Nat /\ order \in [1..n -> K] /\ DOMAIN order = 1..n /\ NoOutcome \in A
    BY DEF NoOutcome, Outcomes
  <1>2. \A a \in A, d \in K : NextDetector(a, d, found) \in A /\ F[<<a, d>>] = NextDetector(a, d, found)
    <2>1. ASSUME NEW a \in A, NEW d \in K PROVE NextDetector(a, d, found) \in A
      BY NextDetectorType
    <2> QED BY <2>1
  <1>3. F \in [A \X K -> A]
    BY <1>2
  <1> HIDE DEF A, n, F
  <1>4. PICK g \in [SUBSET (1..n) -> A] : Folds(g, F, NoOutcome, order, 1..n)
    BY <1>1, <1>3, FoldExists
  <1>5. ASSUME NEW s \in SUBSET (1..n), s # {}
        PROVE  g[s] = NextDetector(g[s \ {Max(s)}], order[Max(s)], found)
    <2>1. Max(s) \in 1..n /\ s \ {Max(s)} \in SUBSET (1..n)
      BY <1>1, <1>5, MaxOf
    <2>2. g[s] = F[<<g[s \ {Max(s)}], order[Max(s)]>>]
      BY <1>4, <1>5 DEF Folds
    <2>3. g[s \ {Max(s)}] \in A /\ order[Max(s)] \in K
      BY <1>1, <1>4, <2>1
    <2> QED BY <1>2, <2>2, <2>3
  <1>6. g[{}] = NoOutcome
    BY <1>4 DEF Folds
  <1>7. Made(g)
    BY <1>4, <1>5, <1>6
  <1> DEFINE made == CHOOSE k : Made(k)
  <1>8. Analyse(order, found) = made[1..n]
    BY <1>1 DEF Analyse, NoOutcome, FoldLeft, MapThenFoldSet
  <1>9. Made(made)
    BY <1>7
  <1>10. made[1..n] = g[1..n]
    <2>1. made[{}] = NoOutcome
      BY <1>9
    <2>2. \A s \in SUBSET (1..n) : s # {} =>
            made[s] = NextDetector(made[s \ {Max(s)}], order[Max(s)], found)
      BY <1>9
    <2> HIDE DEF made, Made
    <2> DEFINE G == {s \in SUBSET (1..n) : made[s] = g[s]}
    <2>3. {} \in G
      BY <1>6, <2>1
    <2>4. ASSUME NEW s \in SUBSET (1..n), s # {}, s \ {Max(s)} \in G PROVE s \in G
      BY <1>5, <2>2, <2>4
    <2>5. 1..n \in SUBSET (1..n) /\ (1..n \in G => made[1..n] = g[1..n])
      OBVIOUS
    <2> HIDE DEF G
    <2> QED BY <1>1, <2>3, <2>4, <2>5, FoldReaches
  <1> HIDE DEF Made, made
  <1> DEFINE h == [i \in 0..n |-> g[1..i]]
  <1>11. \A i \in 0..n : 1..i \in SUBSET (1..n) /\ h[i] = g[1..i]
    BY <1>1
  <1>12. h \in [0..n -> A]
    BY <1>4, <1>11
  <1>13. h[0] = NoOutcome /\ h[n] = Analyse(order, found)
    <2>1. 1..0 = {} /\ 0 \in 0..n /\ n \in 0..n
      BY <1>1
    <2> QED BY <1>6, <1>8, <1>10, <1>11, <2>1
  <1>14. ASSUME NEW i \in 1..n
         PROVE  h[i] = NextDetector(h[i - 1], order[i], found)
    <2>1. i \in 0..n /\ i - 1 \in 0..n
      BY <1>1
    <2>2. 1..i # {} /\ 1..i \in SUBSET (1..n) /\ Max(1..i) = i /\ (1..i) \ {Max(1..i)} = 1..(i - 1)
      BY <1>1, FoldPrefix
    <2>3. g[1..i] = NextDetector(g[1..(i - 1)], order[i], found)
      BY <1>5, <2>2
    <2> QED BY <1>11, <2>1, <2>3
  <1> HIDE DEF h
  <1> QED BY <1>12, <1>13, <1>14 DEF n, A, Trace

\* Whatever is found, the outcome is about the detectors that were run.
LEMMA AnalyseType ==
  ASSUME NEW K, NEW order \in Seq(K), NEW found, \A d \in K : found[d] \in Seq(Secrets)
  PROVE  Analyse(order, found) \in Outcomes(K)
  <1>1. PICK h \in [0..Len(order) -> Outcomes(K)] : Trace(h, order, found)
    BY AnalyseSteps
  <1>2. Len(order) \in 0..Len(order)
    OBVIOUS
  <1> QED BY <1>1, <1>2 DEF Trace

\* Running more detectors takes nothing back that was to be reported at once.
LEMMA AnalysePrefix ==
  ASSUME NEW K, NEW order \in Seq(K), NEW found, \A d \in K : found[d] \in Seq(Secrets),
         NEW part \in Seq(K), Len(part) <= Len(order), \A i \in 1..Len(part) : part[i] = order[i],
         NEW k
  PROVE  Times(Analyse(part, found).direct, k) <= Times(Analyse(order, found).direct, k)
  <1>1. PICK h \in [0..Len(order) -> Outcomes(K)] : Trace(h, order, found)
    BY AnalyseSteps
  <1>2. PICK l \in [0..Len(part) -> Outcomes(K)] : Trace(l, part, found)
    BY AnalyseSteps
  <1> DEFINE n == Len(order)
             m == Len(part)
  <1>3. /\ n \in Nat /\ m \in Nat /\ m <= n
        /\ h \in [0..n -> Outcomes(K)] /\ l \in [0..m -> Outcomes(K)]
    OBVIOUS
  <1>8. h[0] = NoOutcome /\ h[n] = Analyse(order, found) /\ l[0] = NoOutcome /\ l[m] = Analyse(part, found)
    BY <1>1, <1>2 DEF Trace
  <1>9. /\ \A i \in 1..n : h[i] = NextDetector(h[i - 1], order[i], found)
        /\ \A i \in 1..m : l[i] = NextDetector(l[i - 1], part[i], found)
    BY <1>1, <1>2 DEF Trace
  <1>4. \A i \in 1..n : order[i] \in K
    OBVIOUS
  <1>5. \A i \in 1..m : part[i] = order[i]
    OBVIOUS
  <1> HIDE DEF n, m
  <1>6. l[m] = h[m]
    <2> DEFINE G == {i \in 0..m : l[i] = h[i]}
    <2>1. 0 \in G
      BY <1>3, <1>8
    <2>2. ASSUME NEW i \in 1..m, i - 1 \in G PROVE i \in G
      <3>1. i \in 1..n /\ i \in 0..m
        BY <1>3
      <3> QED BY <1>3, <1>5, <1>9, <2>2, <3>1
    <2>3. \A i \in 1..m : i - 1 \in G => i \in G
      BY <2>2
    <2>4. m \in 0..m
      BY <1>3
    <2> HIDE DEF G
    <2>5. m \in G
      BY <1>3, <2>1, <2>3, <2>4, UpTo
    <2> QED BY <2>5 DEF G
  <1>7. Times(h[m].direct, k) <= Times(h[n].direct, k)
    <2> DEFINE G == {j \in 0..n : m <= j => Times(h[m].direct, k) <= Times(h[j].direct, k)}
    <2>1. ASSUME NEW j \in 0..n PROVE Times(h[j].direct, k) \in Nat
      <3>1. h[j].direct \in Seq(KeysOf(K))
        BY <1>3 DEF Outcomes
      <3> QED BY <3>1, TimesNat
    <2>2. m \in 0..n /\ n \in 0..n
      BY <1>3
    <2>3. Times(h[m].direct, k) <= Times(h[m].direct, k)
      BY <2>1, <2>2
    <2>4. 0 \in G
      <3>1. m <= 0 => m = 0
        BY <1>3
      <3> QED BY <1>3, <2>3, <3>1
    <2>5. ASSUME NEW j \in 1..n, j - 1 \in G PROVE j \in G
      <3>1. j \in 0..n /\ j - 1 \in 0..n
        BY <1>3
      <3>2. Times(h[j - 1].direct, k) <= Times(h[j].direct, k)
        <4>1. h[j - 1] \in Outcomes(K) /\ order[j] \in K /\ found[order[j]] \in Seq(Secrets)
          BY <1>3, <1>4, <3>1
        <4>2. Times(h[j - 1].direct, k) <= Times(NextDetector(h[j - 1], order[j], found).direct, k)
          BY <4>1, NextDetectorType
        <4>3. h[j] = NextDetector(h[j - 1], order[j], found)
          BY <1>9
        <4> QED BY <4>2, <4>3
      <3>3. m <= j => m = j \/ m <= j - 1
        <4>1. j \in Nat /\ m \in Nat
          BY <1>3, <3>1
        <4> QED BY <4>1
      <3>4. ASSUME m <= j - 1 PROVE Times(h[m].direct, k) <= Times(h[j].direct, k)
        <4>1. Times(h[m].direct, k) <= Times(h[j - 1].direct, k)
          BY <2>5, <3>4
        <4>2. /\ Times(h[m].direct, k) \in Nat /\ Times(h[j - 1].direct, k) \in Nat
              /\ Times(h[j].direct, k) \in Nat
          BY <2>1, <2>2, <3>1
        <4>3. \A x, y, z \in Nat : x <= y /\ y <= z => x <= z
          OBVIOUS
        <4> QED BY <3>2, <4>1, <4>2, <4>3
      <3> QED BY <2>3, <3>1, <3>3, <3>4
    <2>6. \A j \in 1..n : j - 1 \in G => j \in G
      BY <2>5
    <2> HIDE DEF G
    <2>7. n \in G
      BY <1>3, <2>2, <2>4, <2>6, UpTo
    <2> QED BY <1>3, <2>7 DEF G
  <1> QED BY <1>6, <1>7, <1>8

----------------------------------------------------------------------------
(***************************************************************************)
(* What the parts of the pipeline still owe of a result r: how often it    *)
(* will be notified for the chunks not read, the pieces each scanner has   *)
(* left, the items of the channels, and what the workers hold.             *)
(***************************************************************************)
KeyOf(r) == [secret |-> r.secret, detector |-> r.detector]

\* How often r is notified for each of its pieces, and for each time its
\* detector is run with verification on one.
PerPiece(r) ==
  IF r.secret \in Ignored \/ r.detector \notin ToSet(Matching[r.piece]) THEN 0
  ELSE LET f == Times(Found[r.piece][r.detector], r.secret)
           a == Analyse(Matching[r.piece], Found[r.piece])
       IN  IF ~Overlaps(r.piece) THEN (IF r.disabled THEN 0 ELSE f)
           ELSE IF r.disabled THEN Times(a.direct, KeyOf(r))
           ELSE IF r.detector \in a.keysWithResults THEN f ELSE 0
PerItem(r) ==
  IF r.disabled \/ r.secret \in Ignored THEN 0 ELSE Times(Found[r.piece][r.detector], r.secret)

\* What a scanner owes that has the pieces todo left and the first one sent
\* to some detectors, an overlap worker for its item, and a detector worker
\* that has the findings rest left.
Backlog(r, todo, sent) ==
  IF todo = <<>> THEN 0
  ELSE Times(Tail(todo), r.piece) * PerPiece(r)
       + IF Head(todo) = r.piece /\ r.detector \notin sent THEN PerPiece(r) ELSE 0
Pending(r, item, direct, keys, complete) ==
  IF item = None THEN 0
  ELSE IF item.piece # r.piece \/ r.secret \in Ignored THEN 0
  ELSE IF r.disabled THEN Times(direct, KeyOf(r))
  ELSE IF r.detector \in keys /\ complete THEN PerItem(r) ELSE 0
Remaining(r, item, rest) ==
  IF item = None THEN 0
  ELSE IF \/ item.piece # r.piece \/ item.detector # r.detector
          \/ r.disabled \/ r.secret \in Ignored THEN 0
  ELSE Times(rest, r.secret)
Queued(q, V, n) == Cardinality(Positions(q, V)) * n

PiecesIn(r) == [c \in Chunks |-> Times(PiecesOf[c], r.piece)]
OverlapItems(r) == {e \in OverlapItem : e.piece = r.piece}
DetectItems(r) == {e \in Detectable : e.piece = r.piece /\ e.detector = r.detector}

UnreadOwe(r) == SumFunctionOnSet(PiecesIn(r), unread) * PerPiece(r)
ScannerOwes(r) == [w \in Scanners |-> Backlog(r, stodo[w], ssent[w])]
VerifierOwes(r) ==
  [v \in Verifiers |->
     Pending(r, vitem[v], vdirect[v], vkeys[v], Survivors(r.piece) = Matching[r.piece])]
WorkerOwes(r) == [d \in DetectWorkers |-> Remaining(r, ditem[d], dresults[d])]

ScannersOwe(r)  == SumFunctionOnSet(ScannerOwes(r), Scanners)
OverlapOwes(r)  == Queued(overlapCh, OverlapItems(r), PerPiece(r))
VerifiersOwe(r) == SumFunctionOnSet(VerifierOwes(r), Verifiers)
DetectOwes(r)   == Queued(detectCh, DetectItems(r), PerItem(r))
WorkersOwe(r)   == SumFunctionOnSet(WorkerOwes(r), DetectWorkers)

Balance(r) ==
  notified[r] + Times(results, r) + UnreadOwe(r) + ScannersOwe(r) + OverlapOwes(r)
    + VerifiersOwe(r) + DetectOwes(r) + WorkersOwe(r)
Conserved ==
  \A r \in Result : /\ Balance(r) <= Expected(r)
                    /\ panics = {} => Balance(r) = Expected(r)

\* A scanner has pieces left only while it scans, and has sent something of
\* the first one only if that does not go to the overlap workers.
Scanning ==
  /\ \A w \in Scanners : spc[w] # "scan" => stodo[w] = <<>>
  /\ \A w \in Scanners : ssent[w] # {} => stodo[w] # <<>> /\ ~Overlaps(Head(stodo[w]))
Overlapping == \A i \in DOMAIN overlapCh : Overlaps(overlapCh[i].piece)

\* A worker that has stopped has left its channel closed and empty.
Drained ==
  /\ panics = {} => \A v \in Verifiers : vpc[v] \in {"wait", "exit"} => OverlapClosed /\ overlapCh = <<>>
  /\ \A d \in DetectWorkers : dpc[d] = "exit" => DetectClosed /\ detectCh = <<>>
  /\ \A n \in Notifiers : npc[n] = "exit" => ResultsClosed /\ results = <<>>

\* The detectors run before the first panic are the first ones of the piece.
LEMMA SurvivorsFirst ==
  ASSUME NEW p \in Pieces
  PROVE  /\ Matching[p] \in Seq(ToSet(Matching[p])) /\ Survivors(p) \in Seq(ToSet(Matching[p]))
         /\ Len(Survivors(p)) <= Len(Matching[p])
         /\ \A i \in 1..Len(Survivors(p)) : Survivors(p)[i] = Matching[p][i]
  <1> DEFINE order == Matching[p]
             n == Len(order)
             I == {i \in 1..n : <<p, order[i]>> \in panics}
             first == IF I # {} THEN Min(I) ELSE 0
  <1>1. order \in Seq(Detectors) /\ n \in Nat
    BY PipelineAssumption
  <1>2. order \in Seq(ToSet(order))
    <2>1. order \in Seq(Range(order)) /\ Range(order) = ToSet(order)
      BY <1>1, SeqOfRange DEF ToSet, Range
    <2> QED BY <2>1
  <1>3. Survivors(p) = IF first = 0 THEN order ELSE SubSeq(order, 1, first - 1)
    BY DEF Survivors, SelectInSeq
  <1>4. first \in 0..n
    <2>1. I # {} => Min(I) \in I
      BY <1>1, MinOf
    <2> QED BY <1>1, <2>1
  <1> HIDE DEF first, I, n
  <1>5. CASE first = 0
    BY <1>1, <1>2, <1>3, <1>5 DEF n
  <1>6. CASE first # 0
    <2> DEFINE k == first - 1
    <2>1. k \in 0..n /\ k \in Int /\ k <= n
      BY <1>1, <1>4, <1>6
    <2>2. /\ SubSeq(order, 1, k) \in Seq(ToSet(order)) /\ Len(SubSeq(order, 1, k)) = k
          /\ \A i \in 1..k : SubSeq(order, 1, k)[i] = order[i]
      <3>1. \A i \in 1..k : order[i] \in ToSet(order)
        BY <1>1, <2>1 DEF ToSet, n
      <3> HIDE DEF k, order
      <3> QED BY <2>1, <3>1, SubSeqProperties
    <2> QED BY <1>2, <1>3, <1>6, <2>1, <2>2 DEF n
  <1> QED BY <1>5, <1>6

\* The worker's results and detectors to run are among those of the piece.
LEMMA OutcomeTypes ==
  ASSUME NEW p \in Pieces
  PROVE  /\ Analyse(Matching[p], Found[p]) \in Outcomes(ToSet(Matching[p]))
         /\ Analyse(Survivors(p), Found[p]) \in Outcomes(ToSet(Matching[p]))
         /\ Analyse(Survivors(p), Found[p]).direct \in Seq(SecretKey)
         /\ Analyse(Survivors(p), Found[p]).keysWithResults \in SUBSET Detectors
         /\ \A k : Times(Analyse(Survivors(p), Found[p]).direct, k)
                     <= Times(Analyse(Matching[p], Found[p]).direct, k)
  <1> DEFINE K == ToSet(Matching[p])
             found == Found[p]
  <1>1. /\ K \in SUBSET Detectors /\ \A d \in K : found[d] \in Seq(Secrets)
    <2>1. Matching[p] \in Seq(Detectors) /\ found \in [Detectors -> Seq(Secrets)]
      BY PipelineAssumption
    <2>2. K \in SUBSET Detectors
      BY <2>1 DEF ToSet
    <2> QED BY <2>1, <2>2
  <1>2. /\ Matching[p] \in Seq(K) /\ Survivors(p) \in Seq(K)
        /\ Len(Survivors(p)) <= Len(Matching[p])
        /\ \A i \in 1..Len(Survivors(p)) : Survivors(p)[i] = Matching[p][i]
    BY SurvivorsFirst
  <1> HIDE DEF K, found
  <1>3. Analyse(Matching[p], found) \in Outcomes(K) /\ Analyse(Survivors(p), found) \in Outcomes(K)
    BY <1>1, <1>2, AnalyseType
  <1>4. \A k : Times(Analyse(Survivors(p), found).direct, k) <= Times(Analyse(Matching[p], found).direct, k)
    BY <1>1, <1>2, AnalysePrefix
  <1>5. Seq(KeysOf(K)) \subseteq Seq(SecretKey)
    <2>1. KeysOf(K) \subseteq SecretKey
      BY <1>1 DEF KeysOf, SecretKey
    <2> QED BY <2>1, SeqMonotonic
  <1>6. /\ Analyse(Survivors(p), found).direct \in Seq(KeysOf(K))
        /\ Analyse(Survivors(p), found).keysWithResults \in SUBSET K
    BY <1>3 DEF Outcomes
  <1> QED BY <1>1, <1>3, <1>4, <1>5, <1>6 DEF K, found

(***************************************************************************)
(* The rest of the types, and what the workers and the channels keep to.   *)
(***************************************************************************)
RestTypes ==
  /\ finish \in {"sources", "workers", "overlap", "detect", "notify", "done"}
  /\ unread \in SUBSET Chunks /\ crashed \in BOOLEAN /\ results \in Seq(Result)
  /\ ssent \in [Scanners -> SUBSET Detectors]
  /\ vdirect \in [Verifiers -> Seq(SecretKey)] /\ vkeys \in [Verifiers -> SUBSET Detectors]
  /\ dresults \in [DetectWorkers -> Seq(Secrets)]
  /\ notified \in [Result -> Nat]
FlowInv == RestTypes /\ Scanning /\ Overlapping /\ Drained

\* Together the two invariants give every type.
LEMMA FlowTypes == FlightInv /\ FlowInv => TypeOK
  BY DEF FlightInv, FlightTypes, CloseInv, FlowInv, RestTypes, TypeOK, TypeChannels, TypeCounters,
     TypeWorkers

\* A worker that has not stopped keeps the channel behind it open.
LEMMA OpenChannels ==
  ASSUME FlightInv
  PROVE  /\ \A w \in Scanners : spc[w] # "exit" => ~OverlapClosed /\ ~DetectClosed /\ ~ResultsClosed
         /\ \A v \in Verifiers : vpc[v] # "exit" => ~DetectClosed /\ ~ResultsClosed
         /\ \A d \in DetectWorkers : dpc[d] # "exit" => ~ResultsClosed
  BY ClosedInOrder DEF FlightInv, CloseInv, NoSenderAfterClose

\* What is closed stays closed.
ClosedStays == /\ OverlapClosed => OverlapClosed'
               /\ DetectClosed => DetectClosed'
               /\ ResultsClosed => ResultsClosed'

\* The last part when no worker stops and no closed channel is filled.
LEMMA DrainedStays ==
  ASSUME Drained, UNCHANGED <<panics, vpc, dpc, npc>>, ClosedStays,
         \/ overlapCh' = overlapCh \/ ~OverlapClosed,
         \/ detectCh' = detectCh \/ ~DetectClosed,
         \/ results' = results \/ ~ResultsClosed
  PROVE  Drained'
  BY DEF Drained, ClosedStays

\* A scanner keeps its own rules and fills open channels only.
LEMMA ScannerFlow ==
  ASSUME FlightInv, FlowInv, NEW w \in Scanners, Scanner(w)
  PROVE  FlowInv'
  <1>1. /\ UNCHANGED <<panics, finish, results, vpc, vdirect, vkeys, dpc, dresults, npc, notified>>
        /\ ClosedStays
    BY DEF Scanner, ReceiveChunk, SendOverlap, SendDetectable, NextPiece, ChunkScanned,
       ChunksExhausted, OverlapWaited, ScannerDone, ScannerStep, verifierVars, detectVars, notifyVars,
       ClosedStays, OverlapClosed, DetectClosed, ResultsClosed
  <1>2. RestTypes /\ Scanning /\ Overlapping /\ Drained
    BY DEF FlowInv
  <1>3. /\ spc \in [Scanners -> {"range", "scan", "waitOverlap", "waitDetect", "exit"}]
        /\ stodo \in [Scanners -> Seq(Pieces)] /\ ssent \in [Scanners -> SUBSET Detectors]
        /\ overlapCh \in Seq(OverlapItem)
    BY <1>2 DEF FlightInv, FlightTypes, CloseInv, TypeCounters, RestTypes
  <1>4. ASSUME spc[w] # "exit" PROVE Drained'
    <2>1. ~OverlapClosed /\ ~DetectClosed /\ ~ResultsClosed
      BY <1>4, OpenChannels
    <2> QED BY <1>1, <1>2, <2>1, DrainedStays
  <1>5. ASSUME NEW c \in Chunks, ReceiveChunk(w, c) PROVE FlowInv'
    <2>1. /\ spc[w] = "range" /\ spc' = [spc EXCEPT ![w] = "scan"] /\ unread' = unread \ {c}
          /\ stodo' = [stodo EXCEPT ![w] = PiecesOf[c]] /\ UNCHANGED <<overlapCh, ssent, crashed>>
      BY <1>5 DEF ReceiveChunk, ScannerStep
    <2>2. ssent[w] = {}
      BY <1>2, <2>1 DEF Scanning
    <2>3. Scanning'
      BY <1>2, <1>3, <2>1, <2>2 DEF Scanning
    <2>4. RestTypes' /\ Overlapping'
      BY <1>1, <1>2, <2>1 DEF RestTypes, Overlapping, Overlaps
    <2> QED BY <1>4, <2>1, <2>3, <2>4 DEF FlowInv
  <1>6. CASE SendOverlap(w)
    <2> DEFINE e == [piece |-> Head(stodo[w]), owner |-> w]
    <2>1. /\ spc[w] = "scan" /\ spc' = [spc EXCEPT ![w] = "scan"] /\ stodo[w] # <<>>
          /\ Overlaps(Head(stodo[w])) /\ Send(overlapCh, OverlapClosed, OverlapCap, e)
          /\ stodo' = [stodo EXCEPT ![w] = Tail(@)] /\ UNCHANGED <<unread, ssent>>
      BY <1>6 DEF SendOverlap, ScannerStep
    <2>2. overlapCh' = Append(overlapCh, e) /\ UNCHANGED crashed
      BY <2>1, OpenChannels DEF Send
    <2>3. e \in OverlapItem /\ Overlaps(e.piece)
      <3>1. Head(stodo[w]) \in Pieces
        BY <1>3, <2>1
      <3> QED BY <2>1, <3>1 DEF OverlapItem
    <2>4. ssent[w] = {}
      BY <1>2, <2>1 DEF Scanning
    <2> HIDE DEF e
    <2>5. Scanning'
      BY <1>2, <1>3, <2>1, <2>4 DEF Scanning, Overlaps
    <2>6. RestTypes'
      BY <1>1, <1>2, <2>1, <2>2 DEF RestTypes
    <2>7. Overlapping'
      <3>1. /\ DOMAIN overlapCh' = 1..(Len(overlapCh) + 1) /\ DOMAIN overlapCh = 1..Len(overlapCh)
            /\ overlapCh'[Len(overlapCh) + 1] = e /\ Len(overlapCh) \in Nat
            /\ \A i \in 1..Len(overlapCh) : overlapCh'[i] = overlapCh[i]
        BY <1>3, <2>2, <2>3
      <3>2. \A i \in DOMAIN overlapCh' : Overlaps(overlapCh'[i].piece)
        BY <1>2, <2>3, <3>1 DEF Overlapping
      <3> QED BY <3>2 DEF Overlapping, Overlaps
    <2> QED BY <1>4, <2>1, <2>5, <2>6, <2>7 DEF FlowInv
  <1>7. ASSUME NEW d \in Detectors, SendDetectable(w, d) PROVE FlowInv'
    <2>1. /\ spc[w] = "scan" /\ spc' = [spc EXCEPT ![w] = "scan"] /\ stodo[w] # <<>>
          /\ ~Overlaps(Head(stodo[w]))
          /\ Send(detectCh, DetectClosed, DetectCap, [piece |-> Head(stodo[w]), detector |-> d, owner |-> w])
          /\ ssent' = [ssent EXCEPT ![w] = @ \cup {d}] /\ UNCHANGED <<unread, stodo, overlapCh>>
      BY <1>7 DEF SendDetectable, ScannerStep
    <2>2. UNCHANGED crashed
      BY <2>1, OpenChannels DEF Send
    <2>3. Scanning'
      BY <1>2, <1>3, <2>1 DEF Scanning, Overlaps
    <2>4. RestTypes' /\ Overlapping'
      BY <1>1, <1>2, <2>1, <2>2 DEF RestTypes, Overlapping, Overlaps
    <2> QED BY <1>4, <2>1, <2>3, <2>4 DEF FlowInv
  <1>8. CASE NextPiece(w)
    <2>1. /\ spc[w] = "scan" /\ spc' = [spc EXCEPT ![w] = "scan"]
          /\ ssent' = [ssent EXCEPT ![w] = {}] /\ stodo' = [stodo EXCEPT ![w] = Tail(@)]
          /\ UNCHANGED <<unread, overlapCh, crashed>>
      BY <1>8 DEF NextPiece, ScannerStep
    <2>2. Scanning'
      BY <1>2, <1>3, <2>1 DEF Scanning, Overlaps
    <2>3. RestTypes' /\ Overlapping'
      BY <1>1, <1>2, <2>1 DEF RestTypes, Overlapping, Overlaps
    <2> QED BY <1>4, <2>1, <2>2, <2>3 DEF FlowInv
  <1>9. CASE ChunkScanned(w) \/ ChunksExhausted(w) \/ OverlapWaited(w) \/ ScannerDone(w)
    <2>1. /\ spc[w] # "exit" /\ UNCHANGED <<unread, overlapCh, crashed, stodo, ssent>>
          /\ \E to \in {"range", "waitOverlap", "waitDetect", "exit"} : spc' = [spc EXCEPT ![w] = to]
          /\ stodo[w] = <<>>
      BY <1>2, <1>9 DEF ChunkScanned, ChunksExhausted, OverlapWaited, ScannerDone, ScannerStep, Scanning
    <2>2. Scanning'
      BY <1>2, <1>3, <2>1 DEF Scanning, Overlaps
    <2>3. RestTypes' /\ Overlapping'
      BY <1>1, <1>2, <2>1 DEF RestTypes, Overlapping, Overlaps
    <2> QED BY <1>4, <2>1, <2>2, <2>3 DEF FlowInv
  <1> QED BY <1>5, <1>6, <1>7, <1>8, <1>9 DEF Scanner

\* An overlap worker stops behind a closed and empty channel, or at a panic.
LEMMA VerifierFlow ==
  ASSUME FlightInv, FlowInv, NEW v \in Verifiers, Verifier(v)
  PROVE  FlowInv'
  <1>1. /\ UNCHANGED <<panics, finish, unread, spc, stodo, ssent, dpc, dresults, npc, notified>>
        /\ ClosedStays
    BY DEF Verifier, AnalyseOverlap, ReportDirect, VerifierPanics, SendReverify, OverlapDone,
       OverlapExhausted, VerifierDone, VerifierStep, scanVars, detectVars, notifyVars,
       ClosedStays, OverlapClosed, DetectClosed, ResultsClosed
  <1>2. RestTypes /\ Scanning /\ Overlapping /\ Drained /\ Scanning'
    BY <1>1 DEF FlowInv, Scanning, Overlaps
  <1>3. /\ vpc \in [Verifiers -> {"range", "direct", "wait", "exit"}] /\ overlapCh \in Seq(OverlapItem)
        /\ vitem \in [Verifiers -> OverlapItem \cup {None}] /\ Busy
        /\ vdirect \in [Verifiers -> Seq(SecretKey)] /\ vkeys \in [Verifiers -> SUBSET Detectors]
        /\ results \in Seq(Result)
    BY <1>2 DEF FlightInv, FlightTypes, CloseInv, TypeCounters, RestTypes
  <1>4. vpc[v] # "exit" /\ ~DetectClosed /\ ~ResultsClosed
    <2>1. vpc[v] # "exit"
      BY DEF Verifier, AnalyseOverlap, ReportDirect, VerifierPanics, SendReverify, OverlapDone,
         OverlapExhausted, VerifierDone, VerifierStep
    <2> QED BY <2>1, OpenChannels
  \* A verifier that goes on, or dies of a panic, leaves the last part to the others.
  <1>5. ASSUME NEW to, vpc' = [vpc EXCEPT ![v] = to], to \notin {"wait", "exit"} \/ panics # {},
               \/ overlapCh' = overlapCh \/ overlapCh # <<>>
        PROVE  Drained'
    <2>1. \A d \in DetectWorkers : dpc'[d] = "exit" => DetectClosed' /\ detectCh' = <<>>
      BY <1>1, <1>2, <1>4 DEF Drained
    <2>2. \A n \in Notifiers : npc'[n] = "exit" => ResultsClosed' /\ results' = <<>>
      BY <1>1, <1>2, <1>4 DEF Drained
    <2>3. ASSUME panics' = {}, NEW u \in Verifiers, vpc'[u] \in {"wait", "exit"}
          PROVE  OverlapClosed' /\ overlapCh' = <<>>
      <3>1. u # v /\ vpc[u] \in {"wait", "exit"} /\ panics = {}
        BY <1>1, <1>3, <1>5, <2>3
      <3>2. OverlapClosed /\ overlapCh = <<>>
        BY <1>2, <3>1 DEF Drained
      <3> QED BY <1>1, <1>5, <3>2 DEF ClosedStays
    <2> QED BY <2>1, <2>2, <2>3 DEF Drained
  <1>6. CASE AnalyseOverlap(v)
    <2> DEFINE p == Head(overlapCh).piece
               outcome == Analyse(Survivors(p), Found[p])
    <2>1. /\ vpc' = [vpc EXCEPT ![v] = "direct"] /\ overlapCh # <<>> /\ overlapCh' = Tail(overlapCh)
          /\ vdirect' = [vdirect EXCEPT ![v] = outcome.direct]
          /\ vkeys' = [vkeys EXCEPT ![v] = outcome.keysWithResults] /\ UNCHANGED <<results, crashed>>
      BY <1>6 DEF AnalyseOverlap, VerifierStep
    <2>2. p \in Pieces
      <3>1. Head(overlapCh) \in OverlapItem
        BY <1>3, <2>1
      <3> QED BY <3>1 DEF OverlapItem
    <2>3. outcome.direct \in Seq(SecretKey) /\ outcome.keysWithResults \in SUBSET Detectors
      <3> HIDE DEF p
      <3> QED BY <2>2, OutcomeTypes
    <2> HIDE DEF outcome
    <2>4. RestTypes'
      BY <1>1, <1>2, <2>1, <2>3 DEF RestTypes
    <2>5. Overlapping'
      <3>1. /\ DOMAIN overlapCh' = 1..(Len(overlapCh) - 1) /\ DOMAIN overlapCh = 1..Len(overlapCh)
            /\ Len(overlapCh) \in Nat
            /\ \A i \in 1..(Len(overlapCh) - 1) : overlapCh'[i] = overlapCh[i + 1]
        BY <1>3, <2>1
      <3>2. ASSUME NEW i \in DOMAIN overlapCh' PROVE Overlaps(overlapCh'[i].piece)
        <4>1. i \in 1..(Len(overlapCh) - 1) /\ i + 1 \in DOMAIN overlapCh
          BY <3>1
        <4> QED BY <1>2, <3>1, <4>1 DEF Overlapping
      <3> QED BY <3>2 DEF Overlapping, Overlaps
    <2>6. Drained'
      BY <1>5, <2>1
    <2> QED BY <1>2, <2>4, <2>5, <2>6 DEF FlowInv
  <1>7. CASE ReportDirect(v)
    <2> DEFINE key == Head(vdirect[v])
               r == [piece |-> vitem[v].piece, detector |-> key.detector, secret |-> key.secret,
                     disabled |-> TRUE]
    <2>1. /\ vpc[v] = "direct" /\ vpc' = [vpc EXCEPT ![v] = "direct"] /\ vdirect[v] # <<>>
          /\ ProcessResult(vitem[v].piece, key.detector, key.secret, TRUE)
          /\ vdirect' = [vdirect EXCEPT ![v] = Tail(@)] /\ UNCHANGED <<overlapCh, vkeys>>
      BY <1>7 DEF ReportDirect, VerifierStep
    <2>2. UNCHANGED crashed /\ (results' = results \/ results' = Append(results, r))
      BY <1>4, <2>1 DEF ProcessResult, Send
    <2>3. key \in SecretKey /\ Tail(vdirect[v]) \in Seq(SecretKey)
      BY <1>3, <2>1
    <2>4. vitem[v] \in OverlapItem
      BY <1>3, <2>1 DEF Busy
    <2>5. r \in Result
      BY <2>3, <2>4 DEF Result, SecretKey, OverlapItem
    <2> HIDE DEF r, key
    <2>6. RestTypes'
      <3>1. results' \in Seq(Result)
        <4>1. results \in Seq(Result) /\ Append(results, r) \in Seq(Result)
          BY <1>3, <2>5
        <4> QED BY <2>2, <4>1
      <3> QED BY <1>1, <1>2, <2>1, <2>2, <2>3, <3>1 DEF RestTypes
    <2>7. Overlapping' /\ Drained'
      BY <1>1, <1>2, <1>5, <2>1 DEF Overlapping, Overlaps
    <2> QED BY <1>2, <2>6, <2>7 DEF FlowInv
  <1>8. CASE VerifierPanics(v)
    <2>1. /\ vpc' = [vpc EXCEPT ![v] = "exit"] /\ vkeys' = [vkeys EXCEPT ![v] = {}]
          /\ UNCHANGED <<overlapCh, results, vdirect, crashed>> /\ panics # {}
      BY <1>8, NoPanicNoLoss DEF VerifierPanics, VerifierStep
    <2>2. RestTypes' /\ Overlapping' /\ Drained'
      BY <1>1, <1>2, <1>5, <2>1 DEF RestTypes, Overlapping, Overlaps
    <2> QED BY <1>2, <2>2 DEF FlowInv
  <1>9. ASSUME NEW d \in Detectors, SendReverify(v, d) PROVE FlowInv'
    <2>1. /\ vpc' = [vpc EXCEPT ![v] = "direct"] /\ vkeys' = [vkeys EXCEPT ![v] = @ \ {d}]
          /\ UNCHANGED <<overlapCh, results, vdirect, crashed>>
      BY <1>4, <1>9 DEF SendReverify, VerifierStep, Send
    <2>2. RestTypes' /\ Overlapping' /\ Drained'
      BY <1>1, <1>2, <1>5, <2>1 DEF RestTypes, Overlapping, Overlaps
    <2> QED BY <1>2, <2>2 DEF FlowInv
  <1>10. CASE OverlapDone(v)
    <2>1. /\ vpc' = [vpc EXCEPT ![v] = "range"]
          /\ UNCHANGED <<overlapCh, results, vdirect, vkeys, crashed>>
      BY <1>10 DEF OverlapDone, VerifierStep
    <2>2. RestTypes' /\ Overlapping' /\ Drained'
      BY <1>1, <1>2, <1>5, <2>1 DEF RestTypes, Overlapping, Overlaps
    <2> QED BY <1>2, <2>2 DEF FlowInv
  <1>11. CASE OverlapExhausted(v) \/ VerifierDone(v)
    <2>1. /\ vpc[v] \in {"range", "wait"} /\ vpc' \in {[vpc EXCEPT ![v] = "wait"], [vpc EXCEPT ![v] = "exit"]}
          /\ vpc[v] = "range" => OverlapClosed /\ overlapCh = <<>>
          /\ UNCHANGED <<overlapCh, detectCh, results, vdirect, vkeys, crashed>>
      BY <1>11 DEF OverlapExhausted, VerifierDone, VerifierStep
    <2>2. panics = {} => OverlapClosed /\ overlapCh = <<>>
      BY <1>2, <2>1 DEF Drained
    <2>3. Drained'
      BY <1>1, <1>2, <2>1, <2>2 DEF Drained, ClosedStays
    <2>4. RestTypes' /\ Overlapping'
      BY <1>1, <1>2, <2>1 DEF RestTypes, Overlapping, Overlaps
    <2> QED BY <1>2, <2>3, <2>4 DEF FlowInv
  <1> QED BY <1>6, <1>7, <1>8, <1>9, <1>10, <1>11 DEF Verifier

\* A detector worker stops behind a closed and empty channel.
LEMMA DetectWorkerFlow ==
  ASSUME FlightInv, FlowInv, NEW d \in DetectWorkers, DetectWorker(d)
  PROVE  FlowInv'
  <1>1. /\ UNCHANGED <<panics, finish, unread, overlapCh, spc, stodo, ssent, vpc, vdirect, vkeys,
                       npc, notified>>
        /\ ClosedStays
    BY DEF DetectWorker, DetectChunk, DetectChunkPanics, ReportResult, DetectChunkDone,
       DetectExhausted, DetectStep, scanVars, verifierVars, notifyVars,
       ClosedStays, OverlapClosed, DetectClosed, ResultsClosed
  <1>2. RestTypes /\ Scanning /\ Overlapping /\ Drained /\ Scanning' /\ Overlapping'
    BY <1>1 DEF FlowInv, Scanning, Overlapping, Overlaps
  <1>3. /\ dpc \in [DetectWorkers -> {"range", "results", "exit"}] /\ detectCh \in Seq(Detectable)
        /\ ditem \in [DetectWorkers -> Detectable \cup {None}] /\ Busy
        /\ dresults \in [DetectWorkers -> Seq(Secrets)] /\ results \in Seq(Result)
    BY <1>2 DEF FlightInv, FlightTypes, CloseInv, TypeCounters, RestTypes
  <1>4. dpc[d] # "exit" /\ ~ResultsClosed
    <2>1. dpc[d] # "exit"
      BY DEF DetectWorker, DetectChunk, DetectChunkPanics, ReportResult, DetectChunkDone,
         DetectExhausted, DetectStep
    <2> QED BY <2>1, OpenChannels
  <1>5. ASSUME NEW to, dpc' = [dpc EXCEPT ![d] = to],
               detectCh' = detectCh \/ detectCh # <<>>,
               to # "exit" \/ (DetectClosed /\ detectCh' = <<>>)
        PROVE  Drained'
    <2>1. panics' = {} => \A v \in Verifiers : vpc'[v] \in {"wait", "exit"} => OverlapClosed' /\ overlapCh' = <<>>
      BY <1>1, <1>2 DEF Drained, ClosedStays
    <2>2. \A n \in Notifiers : npc'[n] = "exit" => ResultsClosed' /\ results' = <<>>
      BY <1>1, <1>2, <1>4 DEF Drained
    <2>3. ASSUME NEW u \in DetectWorkers, dpc'[u] = "exit"
          PROVE  DetectClosed' /\ detectCh' = <<>>
      <3>1. CASE u = d
        BY <1>1, <1>3, <1>5, <2>3, <3>1 DEF ClosedStays
      <3>2. CASE u # d
        <4>1. dpc[u] = "exit"
          BY <1>3, <1>5, <2>3, <3>2
        <4>2. DetectClosed /\ detectCh = <<>>
          BY <1>2, <4>1 DEF Drained
        <4> QED BY <1>1, <1>5, <4>2 DEF ClosedStays
      <3> QED BY <3>1, <3>2
    <2> QED BY <2>1, <2>2, <2>3 DEF Drained
  <1>6. CASE DetectChunk(d)
    <2> DEFINE item == Head(detectCh)
    <2>1. /\ dpc' = [dpc EXCEPT ![d] = "results"] /\ detectCh # <<>>
          /\ dresults' = [dresults EXCEPT ![d] = Found[item.piece][item.detector]]
          /\ UNCHANGED <<results, crashed>>
      BY <1>6 DEF DetectChunk, DetectStep
    <2>2. item.piece \in Pieces /\ item.detector \in Detectors
      <3>1. item \in Detectable
        BY <1>3, <2>1
      <3> QED BY <3>1 DEF Detectable
    <2>3. Found[item.piece][item.detector] \in Seq(Secrets)
      BY <2>2, PipelineAssumption
    <2> HIDE DEF item
    <2>4. RestTypes' /\ Drained'
      BY <1>1, <1>2, <1>5, <2>1, <2>3 DEF RestTypes
    <2> QED BY <1>2, <2>4 DEF FlowInv
  <1>7. CASE DetectChunkPanics(d) \/ DetectChunkDone(d)
    <2>1. /\ dpc' = [dpc EXCEPT ![d] = "range"] /\ (detectCh' = detectCh \/ detectCh # <<>>)
          /\ UNCHANGED <<results, dresults, crashed>>
      BY <1>7 DEF DetectChunkPanics, DetectChunkDone, DetectStep
    <2>2. RestTypes' /\ Drained'
      BY <1>1, <1>2, <1>5, <2>1 DEF RestTypes
    <2> QED BY <1>2, <2>2 DEF FlowInv
  <1>8. CASE ReportResult(d)
    <2> DEFINE r == [piece |-> ditem[d].piece, detector |-> ditem[d].detector,
                     secret |-> Head(dresults[d]), disabled |-> FALSE]
    <2>1. /\ dpc[d] = "results" /\ dpc' = [dpc EXCEPT ![d] = "results"] /\ dresults[d] # <<>>
          /\ ProcessResult(ditem[d].piece, ditem[d].detector, Head(dresults[d]), FALSE)
          /\ dresults' = [dresults EXCEPT ![d] = Tail(@)] /\ UNCHANGED detectCh
      BY <1>8 DEF ReportResult, DetectStep
    <2>2. UNCHANGED crashed /\ (results' = results \/ results' = Append(results, r))
      BY <1>4, <2>1 DEF ProcessResult, Send
    <2>3. Head(dresults[d]) \in Secrets /\ Tail(dresults[d]) \in Seq(Secrets)
      BY <1>3, <2>1
    <2>4. ditem[d] \in Detectable
      BY <1>3, <2>1 DEF Busy
    <2>5. r \in Result
      BY <2>3, <2>4 DEF Result, Detectable
    <2> HIDE DEF r
    <2>6. RestTypes'
      <3>1. results' \in Seq(Result)
        <4>1. results \in Seq(Result) /\ Append(results, r) \in Seq(Result)
          BY <1>3, <2>5
        <4> QED BY <2>2, <4>1
      <3> QED BY <1>1, <1>2, <2>1, <2>2, <2>3, <3>1 DEF RestTypes
    <2>7. Drained'
      BY <1>5, <2>1
    <2> QED BY <1>2, <2>6, <2>7 DEF FlowInv
  <1>9. CASE DetectExhausted(d)
    <2>1. /\ dpc' = [dpc EXCEPT ![d] = "exit"] /\ detectCh = <<>> /\ DetectClosed
          /\ UNCHANGED <<detectCh, results, dresults, crashed>>
      BY <1>9 DEF DetectExhausted, DetectStep
    <2>2. RestTypes' /\ Drained'
      BY <1>1, <1>2, <1>5, <2>1 DEF RestTypes
    <2> QED BY <1>2, <2>2 DEF FlowInv
  <1> QED BY <1>6, <1>7, <1>8, <1>9 DEF DetectWorker

\* So does a notifier; Finish only closes.
LEMMA OthersFlow ==
  ASSUME FlightInv, FlowInv, [Next]_vars,
         ~\E w \in Scanners : Scanner(w), ~\E v \in Verifiers : Verifier(v),
         ~\E d \in DetectWorkers : DetectWorker(d)
  PROVE  FlowInv'
  <1>1. /\ UNCHANGED <<panics, unread, overlapCh, detectCh, spc, stodo, ssent, vpc, vdirect, vkeys,
                       dpc, dresults, crashed>>
        /\ ClosedStays
    <2>1. CASE \E n \in Notifiers : Notifier(n)
      BY <2>1 DEF Notifier, NotifyResult, ResultsExhausted, scanVars, verifierVars, detectVars,
         ClosedStays, OverlapClosed, DetectClosed, ResultsClosed
    <2>2. CASE Finish
      BY <2>2 DEF Finish, SourcesFinished, CloseOverlap, CloseDetectable, CloseResults, FinishReturned,
         FinishStep, scanVars, verifierVars, detectVars, ClosedStays, OverlapClosed, DetectClosed,
         ResultsClosed
    <2>3. CASE UNCHANGED vars
      BY <2>3 DEF vars, scanVars, verifierVars, detectVars, ClosedStays, OverlapClosed, DetectClosed,
         ResultsClosed
    <2> QED BY <2>1, <2>2, <2>3 DEF Next, Step
  <1>2. RestTypes /\ Scanning /\ Overlapping /\ Drained /\ Scanning' /\ Overlapping'
    BY <1>1 DEF FlowInv, Scanning, Overlapping, Overlaps
  <1>3. ASSUME UNCHANGED <<npc, results, notified>>,
               finish' \in {finish, "workers", "overlap", "detect", "notify", "done"}
        PROVE  FlowInv'
    <2>1. RestTypes' /\ Drained'
      BY <1>1, <1>2, <1>3 DEF RestTypes, Drained, ClosedStays
    <2> QED BY <1>2, <2>1 DEF FlowInv
  <1>4. ASSUME NEW n \in Notifiers, NotifyResult(n) PROVE FlowInv'
    <2>1. /\ results # <<>> /\ results' = Tail(results) /\ UNCHANGED <<finish, npc>>
          /\ notified' = [notified EXCEPT ![Head(results)] = @ + 1]
      BY <1>4 DEF NotifyResult
    <2>2. results \in Seq(Result) /\ Head(results) \in Result /\ Tail(results) \in Seq(Result)
      BY <1>2, <2>1 DEF RestTypes
    <2>3. RestTypes'
      BY <1>1, <1>2, <2>1, <2>2 DEF RestTypes
    <2>4. Drained'
      BY <1>1, <1>2, <2>1 DEF Drained, ClosedStays
    <2> QED BY <1>2, <2>3, <2>4 DEF FlowInv
  <1>5. ASSUME NEW n \in Notifiers, ResultsExhausted(n) PROVE FlowInv'
    <2>1. /\ results = <<>> /\ ResultsClosed /\ npc' = [npc EXCEPT ![n] = "exit"]
          /\ UNCHANGED <<finish, results, notified>>
      BY <1>5 DEF ResultsExhausted
    <2>2. RestTypes' /\ Drained'
      BY <1>1, <1>2, <2>1 DEF RestTypes, Drained, ClosedStays
    <2> QED BY <1>2, <2>2 DEF FlowInv
  <1>6. CASE Finish
    BY <1>3, <1>6 DEF Finish, SourcesFinished, CloseOverlap, CloseDetectable, CloseResults,
       FinishReturned, FinishStep, notifyVars
  <1>7. CASE UNCHANGED vars
    BY <1>3, <1>7 DEF vars, notifyVars
  <1> QED BY <1>4, <1>5, <1>6, <1>7 DEF Next, Step, Notifier

\* The rules hold at first.
LEMMA InitFlow == Init => FlowInv
  <1> SUFFICES ASSUME Init PROVE FlowInv
    OBVIOUS
  <1>1. RestTypes
    <2>1. finish = "sources" /\ unread = Chunks /\ crashed = FALSE /\ results = <<>>
      BY DEF Init
    <2>2. /\ ssent \in [Scanners -> SUBSET Detectors] /\ vkeys \in [Verifiers -> SUBSET Detectors]
          /\ notified \in [Result -> Nat]
      BY DEF Init
    <2>3. vdirect \in [Verifiers -> Seq(SecretKey)] /\ dresults \in [DetectWorkers -> Seq(Secrets)]
      BY DEF Init
    <2>4. results \in Seq(Result)
      BY <2>1
    <2> QED BY <2>1, <2>2, <2>3, <2>4 DEF RestTypes
  <1>2. Scanning /\ Overlapping
    BY DEF Init, Scanning, Overlapping
  <1>3. Drained
    BY DEF Init, Drained
  <1> QED BY <1>1, <1>2, <1>3 DEF FlowInv

----------------------------------------------------------------------------
(* How the parts of the balance move.                                      *)

\* One more times n is n more.
LEMMA Scaled ==
  ASSUME NEW c \in Nat, NEW n \in Nat
  PROVE  c * n \in Nat /\ (c + 1) * n = c * n + n
  OBVIOUS

\* An item is put on a channel, ...
LEMMA QueuedSent ==
  ASSUME NEW D, NEW q \in Seq(D), NEW x \in D, NEW V, NEW n \in Nat
  PROVE  /\ Queued(q, V, n) \in Nat
         /\ Queued(Append(q, x), V, n) = Queued(q, V, n) + (IF x \in V THEN n ELSE 0)
  <1>1. /\ Cardinality(Positions(q, V)) \in Nat
        /\ Cardinality(Positions(Append(q, x), V)) = Cardinality(Positions(q, V)) + (IF x \in V THEN 1 ELSE 0)
    BY PositionsFinite, PositionsAppend
  <1> DEFINE c == Cardinality(Positions(q, V))
  <1>2. c \in Nat /\ c * n \in Nat /\ (c + 1) * n = c * n + n /\ (c + 0) = c
    <2> HIDE DEF c
    <2>1. c \in Nat
      BY <1>1 DEF c
    <2> QED BY <2>1, Scaled
  <1>3. CASE x \in V
    BY <1>1, <1>2, <1>3 DEF Queued
  <1>4. CASE x \notin V
    BY <1>1, <1>2, <1>4 DEF Queued
  <1> QED BY <1>3, <1>4

\* ... or taken from it.
LEMMA QueuedReceived ==
  ASSUME NEW D, NEW q \in Seq(D), q # <<>>, NEW V, NEW n \in Nat
  PROVE  /\ Queued(Tail(q), V, n) \in Nat
         /\ Queued(q, V, n) = Queued(Tail(q), V, n) + (IF Head(q) \in V THEN n ELSE 0)
  <1>1. /\ Cardinality(Positions(Tail(q), V)) \in Nat
        /\ Cardinality(Positions(q, V)) = Cardinality(Positions(Tail(q), V)) + (IF Head(q) \in V THEN 1 ELSE 0)
    <2>1. Tail(q) \in Seq(D)
      OBVIOUS
    <2> QED BY <2>1, PositionsFinite, PositionsTail
  <1> DEFINE c == Cardinality(Positions(Tail(q), V))
  <1>2. c \in Nat /\ c * n \in Nat /\ (c + 1) * n = c * n + n /\ (c + 0) = c
    <2> HIDE DEF c
    <2>1. c \in Nat
      BY <1>1 DEF c
    <2> QED BY <2>1, Scaled
  <1>3. CASE Head(q) \in V
    BY <1>1, <1>2, <1>3 DEF Queued
  <1>4. CASE Head(q) \notin V
    BY <1>1, <1>2, <1>4 DEF Queued
  <1> QED BY <1>3, <1>4

\* An empty channel owes nothing.
LEMMA QueuedEmpty ==
  ASSUME NEW V, NEW n \in Nat
  PROVE  Queued(<<>>, V, n) = 0
  <1>1. Positions(<<>>, V) = {}
    BY DEF Positions
  <1> QED BY <1>1, FS_EmptySet DEF Queued

\* What one piece and one item are worth.
LEMMA Worth ==
  ASSUME NEW r \in Result
  PROVE  /\ r.piece \in Pieces /\ r.detector \in Detectors /\ r.secret \in Secrets
         /\ r.disabled \in BOOLEAN /\ KeyOf(r) \in SecretKey
         /\ PerPiece(r) \in Nat /\ PerItem(r) \in Nat
         /\ r.detector \notin ToSet(Matching[r.piece]) => PerPiece(r) = 0
         /\ ~Overlaps(r.piece) /\ r.detector \in ToSet(Matching[r.piece]) => PerPiece(r) = PerItem(r)
         /\ NatOn(PiecesIn(r), Chunks)
  <1>1. /\ r.piece \in Pieces /\ r.detector \in Detectors /\ r.secret \in Secrets
        /\ r.disabled \in BOOLEAN /\ KeyOf(r) \in SecretKey
    BY DEF Result, KeyOf, SecretKey
  <1>2. Found[r.piece][r.detector] \in Seq(Secrets)
    BY <1>1, PipelineAssumption
  <1>3. Times(Found[r.piece][r.detector], r.secret) \in Nat
    BY <1>2, TimesNat
  <1>4. Times(Analyse(Matching[r.piece], Found[r.piece]).direct, KeyOf(r)) \in Nat
    <2>1. Analyse(Matching[r.piece], Found[r.piece]).direct \in Seq(KeysOf(ToSet(Matching[r.piece])))
      BY <1>1, OutcomeTypes DEF Outcomes
    <2> QED BY <2>1, TimesNat
  <1>5. PerItem(r) \in Nat
    BY <1>3 DEF PerItem
  <1>6. PerPiece(r) \in Nat
    BY <1>3, <1>4 DEF PerPiece
  <1>7. NatOn(PiecesIn(r), Chunks)
    <2>1. ASSUME NEW c \in Chunks PROVE PiecesIn(r)[c] \in Nat
      <3>1. PiecesOf[c] \in Seq(Pieces)
        BY PipelineAssumption
      <3> QED BY <3>1, TimesNat DEF PiecesIn
    <2> QED BY <2>1 DEF NatOn
  <1> QED BY <1>1, <1>5, <1>6, <1>7 DEF PerPiece, PerItem

\* A piece that no detector has been sent of counts in full ...
LEMMA BacklogFresh ==
  ASSUME NEW r \in Result, NEW todo \in Seq(Pieces)
  PROVE  Backlog(r, todo, {}) = Times(todo, r.piece) * PerPiece(r) /\ Backlog(r, todo, {}) \in Nat
  <1>1. PerPiece(r) \in Nat
    BY Worth
  <1>2. CASE todo = <<>>
    <2>1. Times(todo, r.piece) = 0
      BY <1>2, TimesNone
    <2> QED BY <1>1, <1>2, <2>1 DEF Backlog
  <1>3. CASE todo # <<>>
    <2> DEFINE c == Times(Tail(todo), r.piece)
               n == PerPiece(r)
    <2>1. Tail(todo) \in Seq(Pieces)
      BY <1>3
    <2>2. Times(todo, r.piece) = c + (IF Head(todo) = r.piece THEN 1 ELSE 0)
      BY <1>3, TimesTail
    <2>3. Backlog(r, todo, {}) = c * n + (IF Head(todo) = r.piece THEN n ELSE 0)
      BY <1>3 DEF Backlog
    <2>4. c \in Nat /\ n \in Nat
      BY <1>1, <2>1, TimesNat
    <2> HIDE DEF c, n
    <2>5. c * n \in Nat /\ (c + 1) * n = c * n + n /\ c + 0 = c
      BY <2>4, Scaled
    <2>6. CASE Head(todo) = r.piece
      BY <2>2, <2>3, <2>4, <2>5, <2>6 DEF n
    <2>7. CASE Head(todo) # r.piece
      BY <2>2, <2>3, <2>4, <2>5, <2>7 DEF n
    <2> QED BY <2>6, <2>7
  <1> QED BY <1>2, <1>3

\* ... and is done with when it is taken off.
LEMMA BacklogTail ==
  ASSUME NEW r \in Result, NEW todo \in Seq(Pieces), todo # <<>>, NEW sent
  PROVE  /\ Backlog(r, Tail(todo), {}) \in Nat
         /\ Backlog(r, todo, sent)
              = Backlog(r, Tail(todo), {})
                + (IF Head(todo) = r.piece /\ r.detector \notin sent THEN PerPiece(r) ELSE 0)
  <1>1. Tail(todo) \in Seq(Pieces)
    OBVIOUS
  <1>2. Backlog(r, Tail(todo), {}) = Times(Tail(todo), r.piece) * PerPiece(r) /\ Backlog(r, Tail(todo), {}) \in Nat
    BY <1>1, BacklogFresh
  <1>3. Backlog(r, todo, sent) = Times(Tail(todo), r.piece) * PerPiece(r)
          + (IF Head(todo) = r.piece /\ r.detector \notin sent THEN PerPiece(r) ELSE 0)
    BY DEF Backlog
  <1> QED BY <1>2, <1>3

\* All the parts are natural numbers.
LEMMA OwedTypes ==
  ASSUME FlightInv, FlowInv, NEW r \in Result
  PROVE  /\ notified[r] \in Nat /\ Times(results, r) \in Nat
         /\ SumFunctionOnSet(PiecesIn(r), unread) \in Nat /\ UnreadOwe(r) \in Nat
         /\ NatOn(ScannerOwes(r), Scanners) /\ ScannersOwe(r) \in Nat
         /\ OverlapOwes(r) \in Nat
         /\ NatOn(VerifierOwes(r), Verifiers) /\ VerifiersOwe(r) \in Nat
         /\ DetectOwes(r) \in Nat
         /\ NatOn(WorkerOwes(r), DetectWorkers) /\ WorkersOwe(r) \in Nat
         /\ \A S \in {Scanners, Verifiers, DetectWorkers, unread} : IsFiniteSet(S)
  <1>1. FlightTypes /\ RestTypes
    BY DEF FlightInv, FlowInv
  <1>2. PerPiece(r) \in Nat /\ PerItem(r) \in Nat /\ NatOn(PiecesIn(r), Chunks)
    BY Worth
  <1>3. notified[r] \in Nat /\ Times(results, r) \in Nat
    <2>1. notified \in [Result -> Nat] /\ results \in Seq(Result)
      BY <1>1 DEF RestTypes
    <2> QED BY <2>1, TimesNat
  <1>4. /\ \A S \in {Scanners, Verifiers, DetectWorkers, unread} : IsFiniteSet(S)
        /\ unread \in SUBSET Chunks
    <2>1. IsFiniteSet(unread) /\ unread \in SUBSET Chunks
      BY <1>1, PipelineAssumption, FS_Subset DEF RestTypes
    <2> QED BY <2>1, PipelineAssumption
  <1>5. SumFunctionOnSet(PiecesIn(r), unread) \in Nat /\ UnreadOwe(r) \in Nat
    <2>1. SumFunctionOnSet(PiecesIn(r), unread) \in Nat
      <3>1. NatOn(PiecesIn(r), unread) /\ IsFiniteSet(unread)
        BY <1>2, <1>4 DEF NatOn
      <3> QED BY <3>1, SumNat
    <2> QED BY <1>2, <2>1, Scaled DEF UnreadOwe
  <1>6. NatOn(ScannerOwes(r), Scanners)
    <2>1. ASSUME NEW w \in Scanners PROVE ScannerOwes(r)[w] \in Nat
      <3>1. stodo[w] \in Seq(Pieces) /\ ScannerOwes(r)[w] = Backlog(r, stodo[w], ssent[w])
        BY <1>1 DEF FlightTypes, ScannerOwes
      <3>2. CASE stodo[w] = <<>>
        BY <3>1, <3>2 DEF Backlog
      <3>3. CASE stodo[w] # <<>>
        <4>1. /\ Backlog(r, Tail(stodo[w]), {}) \in Nat
              /\ Backlog(r, stodo[w], ssent[w])
                  = Backlog(r, Tail(stodo[w]), {})
                    + (IF Head(stodo[w]) = r.piece /\ r.detector \notin ssent[w] THEN PerPiece(r) ELSE 0)
          BY <3>1, <3>3, BacklogTail
        <4> QED BY <1>2, <3>1, <4>1
      <3> QED BY <3>2, <3>3
    <2> QED BY <2>1 DEF NatOn
  <1>7. NatOn(VerifierOwes(r), Verifiers)
    <2>1. ASSUME NEW v \in Verifiers PROVE VerifierOwes(r)[v] \in Nat
      <3>1. vdirect[v] \in Seq(SecretKey)
        BY <1>1 DEF RestTypes
      <3>2. Times(vdirect[v], KeyOf(r)) \in Nat
        BY <3>1, TimesNat
      <3> QED BY <1>2, <3>2 DEF VerifierOwes, Pending
    <2> QED BY <2>1 DEF NatOn
  <1>8. NatOn(WorkerOwes(r), DetectWorkers)
    <2>1. ASSUME NEW d \in DetectWorkers PROVE WorkerOwes(r)[d] \in Nat
      <3>1. dresults[d] \in Seq(Secrets)
        BY <1>1 DEF RestTypes
      <3>2. Times(dresults[d], r.secret) \in Nat
        BY <3>1, TimesNat
      <3> QED BY <3>2 DEF WorkerOwes, Remaining
    <2> QED BY <2>1 DEF NatOn
  <1>9. /\ OverlapOwes(r) \in Nat
        /\ DetectOwes(r) \in Nat
    <2>1. /\ Cardinality(Positions(overlapCh, OverlapItems(r))) \in Nat
          /\ Cardinality(Positions(detectCh, DetectItems(r))) \in Nat
      BY <1>1, PositionsFinite DEF FlightTypes
    <2> QED BY <1>2, <2>1, Scaled DEF Queued, OverlapOwes, DetectOwes
  <1>10. /\ ScannersOwe(r) \in Nat
         /\ VerifiersOwe(r) \in Nat
         /\ WorkersOwe(r) \in Nat
    BY <1>4, <1>6, <1>7, <1>8, SumNat DEF ScannersOwe, VerifiersOwe, WorkersOwe
  <1> QED BY <1>3, <1>4, <1>5, <1>6, <1>7, <1>8, <1>9, <1>10

\* Which detectors panic is settled when the scan starts.
LEMMA SurvivorsStay ==
  ASSUME UNCHANGED panics, NEW p
  PROVE  Survivors(p)' = Survivors(p)
  BY DEF Survivors, SelectInSeq

\* What is not touched owes what it owed.
LEMMA OwesAsBefore ==
  ASSUME NEW r
  PROVE  /\ UNCHANGED notified => notified'[r] = notified[r]
         /\ UNCHANGED results => Times(results', r) = Times(results, r)
         /\ UNCHANGED unread => UnreadOwe(r)' = UnreadOwe(r)
         /\ UNCHANGED <<stodo, ssent>> => ScannersOwe(r)' = ScannersOwe(r)
         /\ UNCHANGED overlapCh => OverlapOwes(r)' = OverlapOwes(r)
         /\ UNCHANGED <<vitem, vdirect, vkeys, panics>> => VerifiersOwe(r)' = VerifiersOwe(r)
         /\ UNCHANGED detectCh => DetectOwes(r)' = DetectOwes(r)
         /\ UNCHANGED <<ditem, dresults>> => WorkersOwe(r)' = WorkersOwe(r)
  <1>1. UNCHANGED notified => notified'[r] = notified[r]
    OBVIOUS
  <1>2. UNCHANGED results => Times(results', r) = Times(results, r)
    OBVIOUS
  <1>3. UNCHANGED unread => UnreadOwe(r)' = UnreadOwe(r)
    BY DEF UnreadOwe
  <1>4. UNCHANGED <<stodo, ssent>> => ScannersOwe(r)' = ScannersOwe(r)
    BY DEF ScannersOwe, ScannerOwes
  <1>5. UNCHANGED overlapCh => OverlapOwes(r)' = OverlapOwes(r)
    BY DEF OverlapOwes
  <1>6. UNCHANGED <<vitem, vdirect, vkeys, panics>> => VerifiersOwe(r)' = VerifiersOwe(r)
    <2> SUFFICES ASSUME UNCHANGED <<vitem, vdirect, vkeys, panics>> PROVE VerifiersOwe(r)' = VerifiersOwe(r)
      OBVIOUS
    <2>1. Survivors(r.piece)' = Survivors(r.piece)
      BY SurvivorsStay
    <2>2. VerifierOwes(r)' = VerifierOwes(r)
      BY <2>1 DEF VerifierOwes
    <2> QED BY <2>2 DEF VerifiersOwe
  <1>7. UNCHANGED detectCh => DetectOwes(r)' = DetectOwes(r)
    BY DEF DetectOwes
  <1>8. UNCHANGED <<ditem, dresults>> => WorkersOwe(r)' = WorkersOwe(r)
    BY DEF WorkersOwe, WorkerOwes
  <1> QED BY <1>1, <1>2, <1>3, <1>4, <1>5, <1>6, <1>7, <1>8

\* Only what the scanner w owes changes, ...
LEMMA ScannerPart ==
  ASSUME FlightInv, FlowInv, NEW r \in Result, NEW w \in Scanners,
         \A u \in Scanners \ {w} : stodo'[u] = stodo[u] /\ ssent'[u] = ssent[u],
         Backlog(r, stodo'[w], ssent'[w]) \in Nat
  PROVE  /\ ScannersOwe(r)' \in Nat /\ Backlog(r, stodo[w], ssent[w]) \in Nat
         /\ ScannersOwe(r)' + Backlog(r, stodo[w], ssent[w])
              = ScannersOwe(r) + Backlog(r, stodo'[w], ssent'[w])
  <1>1. NatOn(ScannerOwes(r), Scanners) /\ IsFiniteSet(Scanners)
    BY OwedTypes
  <1>2. /\ \A u \in Scanners : ScannerOwes(r)'[u] = Backlog(r, stodo'[u], ssent'[u])
        /\ \A u \in Scanners : ScannerOwes(r)[u] = Backlog(r, stodo[u], ssent[u])
    BY DEF ScannerOwes
  <1>3. /\ ScannersOwe(r)' = SumFunctionOnSet(ScannerOwes(r)', Scanners)
        /\ ScannersOwe(r) = SumFunctionOnSet(ScannerOwes(r), Scanners)
    BY DEF ScannersOwe
  <1> DEFINE f == ScannerOwes(r)
             g == ScannerOwes(r)'
  <1>4. \A u \in Scanners \ {w} : g[u] = f[u]
    BY <1>2
  <1>5. g[w] \in Nat /\ g[w] = Backlog(r, stodo'[w], ssent'[w]) /\ f[w] = Backlog(r, stodo[w], ssent[w])
    BY <1>2
  <1>6. f[w] \in Nat /\ NatOn(f, Scanners)
    BY <1>1 DEF NatOn
  <1> HIDE DEF f, g
  <1>7. /\ SumFunctionOnSet(g, Scanners) \in Nat
        /\ SumFunctionOnSet(g, Scanners) + f[w] = SumFunctionOnSet(f, Scanners) + g[w]
    BY <1>1, <1>4, <1>5, <1>6, SumChanges
  <1> QED BY <1>3, <1>5, <1>6, <1>7 DEF f, g

\* ... or the verifier v, ...
PendingAt(r, v) ==
  Pending(r, vitem[v], vdirect[v], vkeys[v], Survivors(r.piece) = Matching[r.piece])

\* With the detectors that panic settled, the others owe what they owed.
LEMMA VerifierPart ==
  ASSUME FlightInv, FlowInv, NEW r \in Result, NEW v \in Verifiers, UNCHANGED panics,
         \A u \in Verifiers \ {v} : vitem'[u] = vitem[u] /\ vdirect'[u] = vdirect[u] /\ vkeys'[u] = vkeys[u],
         PendingAt(r, v)' \in Nat
  PROVE  /\ VerifiersOwe(r)' \in Nat /\ PendingAt(r, v) \in Nat
         /\ VerifiersOwe(r)' + PendingAt(r, v) = VerifiersOwe(r) + PendingAt(r, v)'
  <1>1. NatOn(VerifierOwes(r), Verifiers) /\ IsFiniteSet(Verifiers)
    BY OwedTypes
  <1>2. /\ \A u \in Verifiers : VerifierOwes(r)'[u] = PendingAt(r, u)'
        /\ \A u \in Verifiers : VerifierOwes(r)[u] = PendingAt(r, u)
    BY DEF VerifierOwes, PendingAt
  <1>3. \A u \in Verifiers \ {v} : PendingAt(r, u)' = PendingAt(r, u)
    <2>1. Survivors(r.piece)' = Survivors(r.piece)
      BY SurvivorsStay
    <2> QED BY <2>1 DEF PendingAt
  <1>4. /\ VerifiersOwe(r)' = SumFunctionOnSet(VerifierOwes(r)', Verifiers)
        /\ VerifiersOwe(r) = SumFunctionOnSet(VerifierOwes(r), Verifiers)
    BY DEF VerifiersOwe
  <1> DEFINE f == VerifierOwes(r)
             g == VerifierOwes(r)'
  <1>5. \A u \in Verifiers \ {v} : g[u] = f[u]
    BY <1>2, <1>3
  <1>6. g[v] \in Nat /\ g[v] = PendingAt(r, v)' /\ f[v] = PendingAt(r, v)
    BY <1>2
  <1>7. f[v] \in Nat /\ NatOn(f, Verifiers)
    BY <1>1 DEF NatOn
  <1> HIDE DEF f, g
  <1>8. /\ SumFunctionOnSet(g, Verifiers) \in Nat
        /\ SumFunctionOnSet(g, Verifiers) + f[v] = SumFunctionOnSet(f, Verifiers) + g[v]
    BY <1>1, <1>5, <1>6, <1>7, SumChanges
  <1> QED BY <1>4, <1>6, <1>7, <1>8 DEF f, g

\* ... or the detector worker d.
LEMMA WorkerPart ==
  ASSUME FlightInv, FlowInv, NEW r \in Result, NEW d \in DetectWorkers,
         \A u \in DetectWorkers \ {d} : ditem'[u] = ditem[u] /\ dresults'[u] = dresults[u],
         Remaining(r, ditem'[d], dresults'[d]) \in Nat
  PROVE  /\ WorkersOwe(r)' \in Nat /\ Remaining(r, ditem[d], dresults[d]) \in Nat
         /\ WorkersOwe(r)' + Remaining(r, ditem[d], dresults[d])
              = WorkersOwe(r) + Remaining(r, ditem'[d], dresults'[d])
  <1>1. NatOn(WorkerOwes(r), DetectWorkers) /\ IsFiniteSet(DetectWorkers)
    BY OwedTypes
  <1>2. /\ \A u \in DetectWorkers : WorkerOwes(r)'[u] = Remaining(r, ditem'[u], dresults'[u])
        /\ \A u \in DetectWorkers : WorkerOwes(r)[u] = Remaining(r, ditem[u], dresults[u])
    BY DEF WorkerOwes
  <1>3. /\ WorkersOwe(r)' = SumFunctionOnSet(WorkerOwes(r)', DetectWorkers)
        /\ WorkersOwe(r) = SumFunctionOnSet(WorkerOwes(r), DetectWorkers)
    BY DEF WorkersOwe
  <1> DEFINE f == WorkerOwes(r)
             g == WorkerOwes(r)'
  <1>4. \A u \in DetectWorkers \ {d} : g[u] = f[u]
    BY <1>2
  <1>5. g[d] \in Nat /\ g[d] = Remaining(r, ditem'[d], dresults'[d]) /\ f[d] = Remaining(r, ditem[d], dresults[d])
    BY <1>2
  <1>6. f[d] \in Nat /\ NatOn(f, DetectWorkers)
    BY <1>1 DEF NatOn
  <1> HIDE DEF f, g
  <1>7. /\ SumFunctionOnSet(g, DetectWorkers) \in Nat
        /\ SumFunctionOnSet(g, DetectWorkers) + f[d] = SumFunctionOnSet(f, DetectWorkers) + g[d]
    BY <1>1, <1>4, <1>5, <1>6, SumChanges
  <1> QED BY <1>3, <1>5, <1>6, <1>7 DEF f, g

\* A step of the pipeline makes nothing of r, and loses nothing unless a detector panics.
Kept(r) == /\ Balance(r)' \in Nat /\ Balance(r)' <= Balance(r)
           /\ panics = {} => Balance(r)' = Balance(r)

\* What two parts are worth together.
LEMMA Distributes ==
  ASSUME NEW a \in Nat, NEW b \in Nat, NEW n \in Nat
  PROVE  a * n \in Nat /\ b * n \in Nat /\ (a + b) * n = a * n + b * n
  OBVIOUS

\* What a scanner reads, splits, and sends on changes hands only.
LEMMA ScannerKeeps ==
  ASSUME FlightInv, FlowInv, NEW w \in Scanners, Scanner(w), NEW r \in Result
  PROVE  Kept(r)
  <1>1. UNCHANGED <<panics, results, vitem, vdirect, vkeys, ditem, dresults, notified>>
    BY DEF Scanner, ReceiveChunk, SendOverlap, SendDetectable, NextPiece, ChunkScanned,
       ChunksExhausted, OverlapWaited, ScannerDone, ScannerStep, verifierVars, detectVars, notifyVars
  <1>2. FlightTypes /\ CloseInv /\ RestTypes /\ Scanning
    BY DEF FlightInv, FlowInv
  <1>3. /\ stodo \in [Scanners -> Seq(Pieces)] /\ ssent \in [Scanners -> SUBSET Detectors]
        /\ overlapCh \in Seq(OverlapItem) /\ detectCh \in Seq(Detectable) /\ unread \in SUBSET Chunks
    BY <1>2 DEF FlightTypes, RestTypes
  <1>4. /\ notified[r] \in Nat /\ Times(results, r) \in Nat /\ UnreadOwe(r) \in Nat
        /\ SumFunctionOnSet(PiecesIn(r), unread) \in Nat
        /\ ScannersOwe(r) \in Nat /\ OverlapOwes(r) \in Nat /\ VerifiersOwe(r) \in Nat
        /\ DetectOwes(r) \in Nat /\ WorkersOwe(r) \in Nat /\ IsFiniteSet(unread)
    BY OwedTypes
  <1>5. /\ notified'[r] = notified[r] /\ Times(results', r) = Times(results, r)
        /\ VerifiersOwe(r)' = VerifiersOwe(r) /\ WorkersOwe(r)' = WorkersOwe(r)
        /\ UNCHANGED unread => UnreadOwe(r)' = UnreadOwe(r)
        /\ UNCHANGED <<stodo, ssent>> => ScannersOwe(r)' = ScannersOwe(r)
        /\ UNCHANGED overlapCh => OverlapOwes(r)' = OverlapOwes(r)
        /\ UNCHANGED detectCh => DetectOwes(r)' = DetectOwes(r)
    BY <1>1, OwesAsBefore
  <1>6. PerPiece(r) \in Nat /\ PerItem(r) \in Nat
    BY Worth
  <1>7. ASSUME /\ UnreadOwe(r)' \in Nat /\ ScannersOwe(r)' \in Nat /\ OverlapOwes(r)' \in Nat
               /\ DetectOwes(r)' \in Nat,
               UnreadOwe(r)' + ScannersOwe(r)' + OverlapOwes(r)' + DetectOwes(r)'
                 = UnreadOwe(r) + ScannersOwe(r) + OverlapOwes(r) + DetectOwes(r)
        PROVE  Kept(r)
    BY <1>4, <1>5, <1>7 DEF Kept, Balance
  <1>8. ASSUME NEW c \in Chunks, ReceiveChunk(w, c) PROVE Kept(r)
    <2>1. /\ spc[w] = "range" /\ c \in unread /\ unread' = unread \ {c}
          /\ stodo' = [stodo EXCEPT ![w] = PiecesOf[c]] /\ UNCHANGED <<overlapCh, detectCh, ssent>>
      BY <1>8 DEF ReceiveChunk, ScannerStep
    <2>2. stodo[w] = <<>> /\ ssent[w] = {}
      BY <1>2, <2>1 DEF Scanning
    <2>3. stodo'[w] = PiecesOf[c] /\ ssent'[w] = {} /\ PiecesOf[c] \in Seq(Pieces)
      BY <1>3, <2>1, <2>2, PipelineAssumption
    <2> DEFINE k == Times(PiecesOf[c], r.piece)
               n == PerPiece(r)
               rest == SumFunctionOnSet(PiecesIn(r), unread \ {c})
    <2>4. Backlog(r, stodo'[w], ssent'[w]) = k * n /\ Backlog(r, stodo'[w], ssent'[w]) \in Nat
      BY <2>3, BacklogFresh
    <2>5. ScannersOwe(r)' \in Nat /\ ScannersOwe(r)' = ScannersOwe(r) + k * n
      <3>1. Backlog(r, stodo[w], ssent[w]) = 0
        BY <2>2 DEF Backlog
      <3>2. /\ ScannersOwe(r)' \in Nat
            /\ ScannersOwe(r)' + Backlog(r, stodo[w], ssent[w])
                 = ScannersOwe(r) + Backlog(r, stodo'[w], ssent'[w])
        BY <1>3, <2>1, <2>4, ScannerPart
      <3> HIDE DEF k, n
      <3> QED BY <1>4, <2>4, <3>1, <3>2
    <2>6. rest \in Nat /\ k \in Nat /\ n \in Nat /\ SumFunctionOnSet(PiecesIn(r), unread) = k + rest
      <3>1. NatOn(PiecesIn(r), unread) /\ PiecesIn(r)[c] = k /\ NatOn(PiecesIn(r), unread \ {c})
        BY <1>3, Worth DEF NatOn, PiecesIn
      <3>2. IsFiniteSet(unread \ {c})
        BY <1>4, FS_RemoveElement
      <3>3. rest \in Nat
        BY <3>1, <3>2, SumNat
      <3>4. SumFunctionOnSet(PiecesIn(r), unread) = PiecesIn(r)[c] + rest
        BY <1>4, <2>1, <3>1, SumRemove
      <3>5. k \in Nat
        BY <2>3, TimesNat
      <3> QED BY <1>6, <3>1, <3>3, <3>4, <3>5
    <2>7. UnreadOwe(r) = SumFunctionOnSet(PiecesIn(r), unread) * n /\ UnreadOwe(r)' = rest * n
      BY <2>1 DEF UnreadOwe
    <2> HIDE DEF k, n, rest
    <2>8. k * n \in Nat /\ rest * n \in Nat /\ (k + rest) * n = k * n + rest * n
      BY <2>6, Distributes
    <2>9. UnreadOwe(r) = k * n + UnreadOwe(r)' /\ UnreadOwe(r)' \in Nat
      BY <2>6, <2>7, <2>8
    <2> QED BY <1>4, <1>5, <1>7, <2>1, <2>5, <2>8, <2>9
  <1>9. CASE SendOverlap(w)
    <2> DEFINE e == [piece |-> Head(stodo[w]), owner |-> w]
               x == IF Head(stodo[w]) = r.piece THEN PerPiece(r) ELSE 0
    <2>1. /\ spc[w] = "scan" /\ stodo[w] # <<>> /\ Overlaps(Head(stodo[w]))
          /\ Send(overlapCh, OverlapClosed, OverlapCap, e)
          /\ stodo' = [stodo EXCEPT ![w] = Tail(@)] /\ UNCHANGED <<unread, detectCh, ssent>>
      BY <1>9 DEF SendOverlap, ScannerStep
    <2>2. overlapCh' = Append(overlapCh, e)
      BY <2>1, OpenChannels DEF Send
    <2>3. ssent[w] = {} /\ ssent'[w] = {} /\ stodo'[w] = Tail(stodo[w]) /\ stodo[w] \in Seq(Pieces)
      BY <1>2, <1>3, <2>1 DEF Scanning
    <2>4. e \in OverlapItem /\ (e \in OverlapItems(r) <=> Head(stodo[w]) = r.piece)
      <3>1. Head(stodo[w]) \in Pieces
        BY <1>3, <2>1
      <3> QED BY <3>1 DEF OverlapItem, OverlapItems
    <2>5. OverlapOwes(r)' = OverlapOwes(r) + x
      <3>1. Queued(Append(overlapCh, e), OverlapItems(r), PerPiece(r))
              = Queued(overlapCh, OverlapItems(r), PerPiece(r))
                + (IF e \in OverlapItems(r) THEN PerPiece(r) ELSE 0)
        BY <1>3, <1>6, <2>4, QueuedSent
      <3> HIDE DEF e
      <3> QED BY <2>2, <2>4, <3>1 DEF OverlapOwes
    <2>6. /\ Backlog(r, Tail(stodo[w]), {}) \in Nat
          /\ Backlog(r, stodo[w], ssent[w]) = Backlog(r, Tail(stodo[w]), {}) + x
      BY <2>1, <2>3, BacklogTail
    <2>7. /\ ScannersOwe(r)' \in Nat /\ Backlog(r, stodo[w], ssent[w]) \in Nat
          /\ ScannersOwe(r)' + Backlog(r, stodo[w], ssent[w])
               = ScannersOwe(r) + Backlog(r, Tail(stodo[w]), {})
      BY <1>3, <2>1, <2>3, <2>6, ScannerPart
    <2>8. x \in Nat
      BY <1>6
    <2> HIDE DEF e, x
    <2>9. ScannersOwe(r)' + x = ScannersOwe(r)
      BY <1>4, <2>6, <2>7, <2>8
    <2>10. OverlapOwes(r)' \in Nat
      BY <1>4, <2>5, <2>8
    <2>11. UnreadOwe(r)' = UnreadOwe(r) /\ DetectOwes(r)' = DetectOwes(r)
      BY <1>5, <2>1
    <2>12. UnreadOwe(r)' + ScannersOwe(r)' + OverlapOwes(r)' + DetectOwes(r)'
             = UnreadOwe(r) + ScannersOwe(r) + OverlapOwes(r) + DetectOwes(r)
      BY <1>4, <2>5, <2>7, <2>8, <2>9, <2>11
    <2> QED BY <1>4, <1>7, <2>7, <2>10, <2>11, <2>12
  <1>10. ASSUME NEW d \in Detectors, SendDetectable(w, d) PROVE Kept(r)
    <2> DEFINE e == [piece |-> Head(stodo[w]), detector |-> d, owner |-> w]
               x == IF e \in DetectItems(r) THEN PerItem(r) ELSE 0
               b == Backlog(r, Tail(stodo[w]), {})
    <2>1. /\ spc[w] = "scan" /\ stodo[w] # <<>> /\ ~Overlaps(Head(stodo[w]))
          /\ d \in ToSet(Matching[Head(stodo[w])]) \ ssent[w]
          /\ Send(detectCh, DetectClosed, DetectCap, e)
          /\ ssent' = [ssent EXCEPT ![w] = @ \cup {d}] /\ UNCHANGED <<unread, overlapCh, stodo>>
      BY <1>10 DEF SendDetectable, ScannerStep
    <2>2. detectCh' = Append(detectCh, e)
      BY <2>1, OpenChannels DEF Send
    <2>3. ssent'[w] = ssent[w] \cup {d} /\ stodo'[w] = stodo[w] /\ stodo[w] \in Seq(Pieces)
      BY <1>3, <2>1
    <2>4. e \in Detectable /\ (e \in DetectItems(r) <=> Head(stodo[w]) = r.piece /\ d = r.detector)
      <3>1. Head(stodo[w]) \in Pieces
        BY <1>3, <2>1
      <3> QED BY <3>1 DEF Detectable, DetectItems, Owners
    <2>5. DetectOwes(r)' = DetectOwes(r) + x
      <3>1. Queued(Append(detectCh, e), DetectItems(r), PerItem(r))
              = Queued(detectCh, DetectItems(r), PerItem(r)) + x
        BY <1>3, <1>6, <2>4, QueuedSent
      <3> HIDE DEF e, x
      <3> QED BY <2>2, <3>1 DEF DetectOwes
    <2>6. /\ b \in Nat
          /\ Backlog(r, stodo[w], ssent[w])
               = b + (IF Head(stodo[w]) = r.piece /\ r.detector \notin ssent[w] THEN PerPiece(r) ELSE 0)
          /\ Backlog(r, stodo[w], ssent[w] \cup {d})
               = b + (IF Head(stodo[w]) = r.piece /\ r.detector \notin ssent[w] \cup {d} THEN PerPiece(r) ELSE 0)
      BY <2>1, <2>3, BacklogTail
    <2> HIDE DEF b, e
    <2>7. /\ Backlog(r, stodo[w], ssent[w] \cup {d}) \in Nat /\ x \in Nat
          /\ Backlog(r, stodo[w], ssent[w]) = Backlog(r, stodo[w], ssent[w] \cup {d}) + x
      <3>1. CASE Head(stodo[w]) = r.piece /\ d = r.detector
        <4>1. PerPiece(r) = PerItem(r)
          BY <2>1, <3>1, Worth
        <4>2. x = PerItem(r)
          BY <2>4, <3>1
        <4> HIDE DEF x
        <4>3. Backlog(r, stodo[w], ssent[w]) = b + PerPiece(r)
          BY <2>1, <2>6, <3>1
        <4>4. Backlog(r, stodo[w], ssent[w] \cup {d}) = b + 0
          BY <2>6, <3>1
        <4> QED BY <1>6, <2>6, <4>1, <4>2, <4>3, <4>4
      <3>2. CASE ~(Head(stodo[w]) = r.piece /\ d = r.detector)
        <4>1. x = 0
          BY <2>4, <3>2
        <4> HIDE DEF x
        <4>2. Backlog(r, stodo[w], ssent[w] \cup {d}) = Backlog(r, stodo[w], ssent[w])
          BY <2>6, <3>2
        <4>3. Backlog(r, stodo[w], ssent[w]) \in Nat
          BY <1>6, <2>6
        <4> QED BY <4>1, <4>2, <4>3
      <3> QED BY <3>1, <3>2
    <2>8. /\ ScannersOwe(r)' \in Nat /\ Backlog(r, stodo[w], ssent[w]) \in Nat
          /\ ScannersOwe(r)' + Backlog(r, stodo[w], ssent[w])
               = ScannersOwe(r) + Backlog(r, stodo[w], ssent[w] \cup {d})
      BY <1>3, <2>1, <2>3, <2>7, ScannerPart
    <2> HIDE DEF x
    <2>9. ScannersOwe(r)' + x = ScannersOwe(r)
      BY <1>4, <2>7, <2>8
    <2>10. DetectOwes(r)' \in Nat
      BY <1>4, <2>5, <2>7
    <2>11. UnreadOwe(r)' = UnreadOwe(r) /\ OverlapOwes(r)' = OverlapOwes(r)
      BY <1>5, <2>1
    <2>12. UnreadOwe(r)' + ScannersOwe(r)' + OverlapOwes(r)' + DetectOwes(r)'
             = UnreadOwe(r) + ScannersOwe(r) + OverlapOwes(r) + DetectOwes(r)
      BY <1>4, <2>5, <2>7, <2>8, <2>9, <2>11
    <2> QED BY <1>4, <1>7, <2>8, <2>10, <2>11, <2>12
  <1>11. CASE NextPiece(w)
    <2>1. /\ stodo[w] # <<>> /\ ssent[w] = ToSet(Matching[Head(stodo[w])])
          /\ ssent' = [ssent EXCEPT ![w] = {}] /\ stodo' = [stodo EXCEPT ![w] = Tail(@)]
          /\ UNCHANGED <<unread, overlapCh, detectCh>>
      BY <1>11 DEF NextPiece, ScannerStep
    <2>2. ssent'[w] = {} /\ stodo'[w] = Tail(stodo[w]) /\ stodo[w] \in Seq(Pieces)
      BY <1>3, <2>1
    <2>3. /\ Backlog(r, Tail(stodo[w]), {}) \in Nat
          /\ Backlog(r, stodo[w], ssent[w])
               = Backlog(r, Tail(stodo[w]), {})
                 + (IF Head(stodo[w]) = r.piece /\ r.detector \notin ssent[w] THEN PerPiece(r) ELSE 0)
      BY <2>1, <2>2, BacklogTail
    <2>4. Head(stodo[w]) = r.piece /\ r.detector \notin ssent[w] => PerPiece(r) = 0
      BY <2>1, Worth
    <2>5. Backlog(r, stodo[w], ssent[w]) = Backlog(r, Tail(stodo[w]), {})
      BY <2>3, <2>4
    <2>6. /\ ScannersOwe(r)' \in Nat
          /\ ScannersOwe(r)' + Backlog(r, stodo[w], ssent[w])
               = ScannersOwe(r) + Backlog(r, Tail(stodo[w]), {})
      BY <1>3, <2>1, <2>2, <2>3, ScannerPart
    <2>7. ScannersOwe(r)' = ScannersOwe(r)
      BY <1>4, <2>3, <2>5, <2>6
    <2> QED BY <1>4, <1>5, <1>7, <2>1, <2>6, <2>7
  <1>12. CASE ChunkScanned(w) \/ ChunksExhausted(w) \/ OverlapWaited(w) \/ ScannerDone(w)
    <2>1. UNCHANGED <<unread, overlapCh, detectCh, stodo, ssent>>
      BY <1>12 DEF ChunkScanned, ChunksExhausted, OverlapWaited, ScannerDone
    <2> QED BY <1>4, <1>5, <1>7, <2>1
  <1> QED BY <1>8, <1>9, <1>10, <1>11, <1>12 DEF Scanner

\* The outcome of an analysis is what the item on the channel was worth,
\* less what a panic has cost.
LEMMA PendingTaken ==
  ASSUME NEW r \in Result, NEW item \in OverlapItem, Overlaps(item.piece)
  PROVE  LET outcome == Analyse(Survivors(item.piece), Found[item.piece])
             y == Pending(r, item, outcome.direct, outcome.keysWithResults,
                          Survivors(r.piece) = Matching[r.piece])
             x == IF item \in OverlapItems(r) THEN PerPiece(r) ELSE 0
         IN  y \in Nat /\ x \in Nat /\ y <= x /\ (panics = {} => y = x)
  <1> DEFINE p == r.piece
             o == Analyse(Survivors(p), Found[p])
             a == Analyse(Matching[p], Found[p])
             complete == Survivors(p) = Matching[p]
             outcome == Analyse(Survivors(item.piece), Found[item.piece])
             y == Pending(r, item, outcome.direct, outcome.keysWithResults, complete)
             x == IF item \in OverlapItems(r) THEN PerPiece(r) ELSE 0
             key == KeyOf(r)
  <1>1. /\ p \in Pieces /\ r.disabled \in BOOLEAN /\ PerPiece(r) \in Nat /\ PerItem(r) \in Nat
        /\ r.detector \notin ToSet(Matching[p]) => PerPiece(r) = 0
    BY Worth
  <1>2. item # None /\ (item \in OverlapItems(r) <=> item.piece = p)
    BY PipelineAssumption DEF OverlapItems
  <1>3. CASE item.piece # p \/ r.secret \in Ignored
    <2>1. y = 0
      BY <1>2, <1>3 DEF Pending
    <2>2. x = 0 \/ x = PerPiece(r)
      OBVIOUS
    <2>3. r.secret \in Ignored => PerPiece(r) = 0
      BY DEF PerPiece
    <2>4. item.piece # p => x = 0
      BY <1>2
    <2> HIDE DEF x, y
    <2>5. x = 0
      BY <1>3, <2>2, <2>3, <2>4
    <2> QED BY <2>1, <2>5 DEF x, y
  <1>4. CASE item.piece = p /\ r.secret \notin Ignored
    <2>1. x = PerPiece(r) /\ outcome = o /\ Overlaps(p)
      BY <1>2, <1>4
    <2>2. /\ a \in Outcomes(ToSet(Matching[p])) /\ o \in Outcomes(ToSet(Matching[p]))
          /\ Times(o.direct, key) <= Times(a.direct, key)
      BY <1>1, OutcomeTypes
    <2>3. complete => o = a
      OBVIOUS
    <2>4. panics = {} => complete
      BY NoPanicNoLoss
    <2>5. /\ o.direct \in Seq(KeysOf(ToSet(Matching[p]))) /\ o.keysWithResults \in SUBSET ToSet(Matching[p])
          /\ Times(o.direct, key) \in Nat
      <3>1. /\ o.direct \in Seq(KeysOf(ToSet(Matching[p])))
            /\ o.keysWithResults \in SUBSET ToSet(Matching[p])
        BY <2>2 DEF Outcomes
      <3> QED BY <3>1, TimesNat
    <2>6. y = IF r.disabled THEN Times(o.direct, key)
              ELSE IF r.detector \in o.keysWithResults /\ complete THEN PerItem(r) ELSE 0
      BY <1>2, <1>4, <2>1 DEF Pending
    <2>7. CASE r.detector \notin ToSet(Matching[p])
      <3>1. Times(o.direct, key) = 0
        <4>1. \A i \in DOMAIN o.direct : o.direct[i] # key
          <5>1. ASSUME NEW i \in DOMAIN o.direct PROVE o.direct[i].detector \in ToSet(Matching[p])
            <6> DEFINE K == ToSet(Matching[p])
                       s == o.direct
            <6>1. s \in Seq(KeysOf(K)) /\ i \in DOMAIN s
              BY <2>5
            <6> HIDE DEF K, s
            <6>2. s[i] \in KeysOf(K)
              BY <6>1
            <6>3. s[i].detector \in K
              BY <6>2 DEF KeysOf
            <6> QED BY <6>3 DEF K, s
          <5>2. key.detector = r.detector
            BY DEF KeyOf
          <5> QED BY <2>7, <5>1, <5>2
        <4> QED BY <4>1, TimesNone
      <3>2. y = 0
        BY <2>5, <2>6, <2>7, <3>1
      <3>3. x = 0
        BY <1>1, <2>1, <2>7
      <3> HIDE DEF x, y
      <3> QED BY <3>2, <3>3 DEF x, y
    <2>8. CASE r.detector \in ToSet(Matching[p]) /\ r.disabled
      <3>1. x = Times(a.direct, key)
        BY <1>4, <2>1, <2>8 DEF PerPiece
      <3>2. y = Times(o.direct, key)
        BY <2>6, <2>8
      <3>3. complete => y = x
        BY <2>3, <3>1, <3>2
      <3>4. x \in Nat
        BY <1>1, <2>1
      <3> HIDE DEF x, y, o, a, complete
      <3>5. y \in Nat /\ x \in Nat /\ y <= x /\ (panics = {} => y = x)
        BY <2>2, <2>4, <2>5, <3>1, <3>2, <3>3, <3>4
      <3> QED BY <3>5 DEF x, y, complete
    <2>9. CASE r.detector \in ToSet(Matching[p]) /\ ~r.disabled
      <3>1. x = IF r.detector \in a.keysWithResults THEN PerItem(r) ELSE 0
        BY <1>4, <2>1, <2>9 DEF PerPiece, PerItem
      <3>2. complete => y = x
        <4>1. ASSUME complete PROVE o.keysWithResults = a.keysWithResults
          BY <4>1
        <4> HIDE DEF x, y, o, a, complete
        <4> QED BY <2>6, <2>9, <3>1, <4>1
      <3>3. ~complete => y = 0
        BY <2>6, <2>9
      <3>4. x \in Nat
        BY <1>1, <2>1
      <3> HIDE DEF x, y, o, a, complete
      <3>5. y \in Nat /\ x \in Nat /\ y <= x /\ (panics = {} => y = x)
        BY <2>4, <3>2, <3>3, <3>4
      <3> QED BY <3>5 DEF x, y, complete
    <2> QED BY <2>7, <2>8, <2>9
  <1> QED BY <1>3, <1>4

\* What an overlap worker takes on, reports and sends on changes hands, and
\* what is lost is lost to a panic.
LEMMA VerifierKeeps ==
  ASSUME FlightInv, FlowInv, NEW v \in Verifiers, Verifier(v), NEW r \in Result
  PROVE  Kept(r)
  <1>1. UNCHANGED <<panics, unread, stodo, ssent, ditem, dresults, notified>>
    BY DEF Verifier, AnalyseOverlap, ReportDirect, VerifierPanics, SendReverify, OverlapDone,
       OverlapExhausted, VerifierDone, VerifierStep, scanVars, detectVars, notifyVars
  <1>2. FlightTypes /\ CloseInv /\ RestTypes /\ Overlapping /\ Busy
    BY DEF FlightInv, FlowInv
  <1>3. /\ vitem \in [Verifiers -> OverlapItem \cup {None}] /\ vdirect \in [Verifiers -> Seq(SecretKey)]
        /\ vkeys \in [Verifiers -> SUBSET Detectors] /\ results \in Seq(Result)
        /\ overlapCh \in Seq(OverlapItem) /\ detectCh \in Seq(Detectable)
    BY <1>2 DEF FlightTypes, RestTypes
  <1>4. /\ notified[r] \in Nat /\ Times(results, r) \in Nat /\ UnreadOwe(r) \in Nat
        /\ ScannersOwe(r) \in Nat /\ OverlapOwes(r) \in Nat /\ VerifiersOwe(r) \in Nat
        /\ DetectOwes(r) \in Nat /\ WorkersOwe(r) \in Nat
    BY OwedTypes
  <1>5. /\ notified'[r] = notified[r] /\ UnreadOwe(r)' = UnreadOwe(r)
        /\ ScannersOwe(r)' = ScannersOwe(r) /\ WorkersOwe(r)' = WorkersOwe(r)
        /\ UNCHANGED results => Times(results', r) = Times(results, r)
        /\ UNCHANGED <<vitem, vdirect, vkeys>> => VerifiersOwe(r)' = VerifiersOwe(r)
        /\ UNCHANGED overlapCh => OverlapOwes(r)' = OverlapOwes(r)
        /\ UNCHANGED detectCh => DetectOwes(r)' = DetectOwes(r)
    BY <1>1, OwesAsBefore
  <1>6. PerPiece(r) \in Nat /\ PerItem(r) \in Nat /\ r.disabled \in BOOLEAN
    BY Worth
  <1>7. ASSUME /\ Times(results', r) \in Nat /\ OverlapOwes(r)' \in Nat /\ VerifiersOwe(r)' \in Nat
               /\ DetectOwes(r)' \in Nat,
               Times(results', r) + OverlapOwes(r)' + VerifiersOwe(r)' + DetectOwes(r)'
                 <= Times(results, r) + OverlapOwes(r) + VerifiersOwe(r) + DetectOwes(r),
               panics = {} =>
                 Times(results', r) + OverlapOwes(r)' + VerifiersOwe(r)' + DetectOwes(r)'
                   = Times(results, r) + OverlapOwes(r) + VerifiersOwe(r) + DetectOwes(r)
        PROVE  Kept(r)
    <2>1. /\ notified'[r] = notified[r] /\ UnreadOwe(r)' = UnreadOwe(r)
          /\ ScannersOwe(r)' = ScannersOwe(r) /\ WorkersOwe(r)' = WorkersOwe(r)
      BY <1>5
    <2>2. Balance(r)' \in Nat /\ Balance(r)' <= Balance(r)
      BY <1>4, <1>7, <2>1 DEF Balance
    <2>3. ASSUME panics = {} PROVE Balance(r)' = Balance(r)
      <3>1. /\ Times(results', r) + OverlapOwes(r)' + VerifiersOwe(r)' + DetectOwes(r)'
                 = Times(results, r) + OverlapOwes(r) + VerifiersOwe(r) + DetectOwes(r)
            /\ Times(results', r) \in Nat /\ OverlapOwes(r)' \in Nat /\ VerifiersOwe(r)' \in Nat
            /\ DetectOwes(r)' \in Nat
        BY <1>7, <2>3
      <3> QED BY <1>4, <2>1, <3>1 DEF Balance
    <2> QED BY <2>2, <2>3 DEF Kept
  <1>8. PendingAt(r, v)'
          = Pending(r, vitem'[v], vdirect'[v], vkeys'[v], Survivors(r.piece) = Matching[r.piece])
    <2>1. Survivors(r.piece)' = Survivors(r.piece)
      BY <1>1, SurvivorsStay
    <2> QED BY <2>1 DEF PendingAt
  <1>9. CASE AnalyseOverlap(v)
    <2> DEFINE item == Head(overlapCh)
               outcome == Analyse(Survivors(item.piece), Found[item.piece])
               x == IF item \in OverlapItems(r) THEN PerPiece(r) ELSE 0
               y == Pending(r, item, outcome.direct, outcome.keysWithResults,
                            Survivors(r.piece) = Matching[r.piece])
    <2>1. /\ vpc[v] = "range" /\ overlapCh # <<>> /\ overlapCh' = Tail(overlapCh)
          /\ vitem' = [vitem EXCEPT ![v] = item] /\ vdirect' = [vdirect EXCEPT ![v] = outcome.direct]
          /\ vkeys' = [vkeys EXCEPT ![v] = outcome.keysWithResults] /\ UNCHANGED <<detectCh, results>>
      BY <1>9 DEF AnalyseOverlap, VerifierStep
    <2>2. item \in OverlapItem /\ Overlaps(item.piece)
      <3>1. 1 \in DOMAIN overlapCh /\ item = overlapCh[1] /\ item \in OverlapItem
        BY <1>3, <2>1
      <3> HIDE DEF item
      <3> QED BY <1>2, <3>1 DEF Overlapping
    <2>3. vitem[v] = None
      BY <1>2, <2>1 DEF Busy
    <2>4. OverlapOwes(r)' \in Nat /\ OverlapOwes(r) = OverlapOwes(r)' + x
      BY <1>3, <1>6, <2>1, QueuedReceived DEF OverlapOwes
    <2>5. y \in Nat /\ x \in Nat /\ y <= x /\ (panics = {} => y = x)
      <3> HIDE DEF item
      <3> QED BY <2>2, PendingTaken
    <2>6. PendingAt(r, v)' = y
      <3> HIDE DEF item, outcome
      <3> QED BY <1>3, <1>8, <2>1
    <2>7. PendingAt(r, v) = 0
      BY <2>3 DEF PendingAt, Pending
    <2>8. \A u \in Verifiers \ {v} : vitem'[u] = vitem[u] /\ vdirect'[u] = vdirect[u] /\ vkeys'[u] = vkeys[u]
      <3> HIDE DEF item, outcome
      <3> QED BY <1>3, <2>1
    <2> HIDE DEF y, x, outcome, item
    <2>9. /\ VerifiersOwe(r)' \in Nat
          /\ VerifiersOwe(r)' + PendingAt(r, v) = VerifiersOwe(r) + PendingAt(r, v)'
      BY <1>1, <2>5, <2>6, <2>8, VerifierPart
    <2>10. VerifiersOwe(r)' = VerifiersOwe(r) + y
      BY <1>4, <2>5, <2>6, <2>7, <2>9
    <2>11. Times(results', r) = Times(results, r) /\ DetectOwes(r)' = DetectOwes(r)
      BY <1>5, <2>1
    <2>12. Times(results', r) + OverlapOwes(r)' + VerifiersOwe(r)' + DetectOwes(r)'
                 <= Times(results, r) + OverlapOwes(r) + VerifiersOwe(r) + DetectOwes(r)
      BY <1>4, <2>4, <2>5, <2>10, <2>11
    <2>13. ASSUME panics = {}
           PROVE  Times(results', r) + OverlapOwes(r)' + VerifiersOwe(r)' + DetectOwes(r)'
                    = Times(results, r) + OverlapOwes(r) + VerifiersOwe(r) + DetectOwes(r)
      BY <1>4, <2>4, <2>5, <2>10, <2>11, <2>13
    <2> QED BY <1>4, <1>7, <2>4, <2>9, <2>11, <2>12, <2>13
  <1>10. CASE ReportDirect(v)
    <2> DEFINE key == Head(vdirect[v])
               res == [piece |-> vitem[v].piece, detector |-> key.detector, secret |-> key.secret,
                       disabled |-> TRUE]
               z == IF res = r /\ r.secret \notin Ignored THEN 1 ELSE 0
               c == Survivors(r.piece) = Matching[r.piece]
    <2>1. /\ vpc[v] = "direct" /\ vdirect[v] # <<>>
          /\ ProcessResult(vitem[v].piece, key.detector, key.secret, TRUE)
          /\ vdirect' = [vdirect EXCEPT ![v] = Tail(@)] /\ UNCHANGED <<overlapCh, detectCh, vitem, vkeys>>
      BY <1>10 DEF ReportDirect, VerifierStep
    <2>2. /\ vdirect[v] \in Seq(SecretKey) /\ key \in SecretKey /\ Tail(vdirect[v]) \in Seq(SecretKey)
          /\ vdirect'[v] = Tail(vdirect[v]) /\ vitem'[v] = vitem[v] /\ vkeys'[v] = vkeys[v]
      BY <1>3, <2>1
    <2>3. vitem[v] \in OverlapItem
      BY <1>2, <1>3, <2>1 DEF Busy
    <2>4. res \in Result /\ (res = r <=> vitem[v].piece = r.piece /\ key = KeyOf(r) /\ r.disabled)
      <3> HIDE DEF key
      <3>1. vitem[v].piece \in Pieces /\ key.detector \in Detectors /\ key.secret \in Secrets
        BY <2>2, <2>3 DEF SecretKey, OverlapItem
      <3>2. res \in Result
        BY <3>1 DEF Result
      <3>3. key = [secret |-> key.secret, detector |-> key.detector]
        BY <2>2 DEF SecretKey
      <3>4. r = [piece |-> r.piece, detector |-> r.detector, secret |-> r.secret, disabled |-> r.disabled]
        BY DEF Result
      <3>5. res = r <=> /\ vitem[v].piece = r.piece /\ key.detector = r.detector
                        /\ key.secret = r.secret /\ r.disabled = TRUE
        BY <3>4
      <3>6. key = KeyOf(r) <=> key.detector = r.detector /\ key.secret = r.secret
        BY <3>3 DEF KeyOf
      <3> QED BY <1>6, <3>2, <3>5, <3>6
    <2>5. /\ key.secret \in Ignored => results' = results
          /\ key.secret \notin Ignored => results' = Append(results, res)
      <3>1. ~ResultsClosed
        BY <2>1, OpenChannels
      <3> QED BY <2>1, <3>1 DEF ProcessResult, Send
    <2>6. res = r => key.secret = r.secret
      OBVIOUS
    <2> HIDE DEF res
    <2>7. Times(results', r) = Times(results, r) + z
      <3>1. Times(Append(results, res), r) = Times(results, r) + (IF res = r THEN 1 ELSE 0)
        BY <1>3, <2>4, TimesAppend
      <3> HIDE DEF key
      <3>2. CASE key.secret \in Ignored
        <4>1. z = 0 /\ results' = results
          BY <2>5, <2>6, <3>2
        <4> HIDE DEF z
        <4> QED BY <1>4, <4>1
      <3>3. CASE key.secret \notin Ignored
        <4>1. z = IF res = r THEN 1 ELSE 0
          BY <2>6, <3>3
        <4> HIDE DEF z
        <4> QED BY <2>5, <3>1, <3>3, <4>1
      <3> QED BY <3>2, <3>3
    <2>8. /\ PendingAt(r, v) = Pending(r, vitem[v], vdirect[v], vkeys[v], c)
          /\ PendingAt(r, v)' = Pending(r, vitem[v], Tail(vdirect[v]), vkeys[v], c)
      BY <1>8, <2>2 DEF PendingAt
    <2>9. PendingAt(r, v)' \in Nat /\ PendingAt(r, v) = PendingAt(r, v)' + z
      <3>1. /\ Times(vdirect[v], KeyOf(r))
                 = Times(Tail(vdirect[v]), KeyOf(r)) + (IF key = KeyOf(r) THEN 1 ELSE 0)
            /\ Times(Tail(vdirect[v]), KeyOf(r)) \in Nat
        BY <2>1, <2>2, TimesTail, TimesNat
      <3>2. vitem[v] # None
        BY <2>3, PipelineAssumption
      <3> HIDE DEF key, c
      <3>3. CASE vitem[v].piece # r.piece \/ r.secret \in Ignored
        <4>1. z = 0
          BY <2>4, <3>3
        <4>2. PendingAt(r, v) = 0 /\ PendingAt(r, v)' = 0
          BY <2>8, <3>2, <3>3 DEF Pending
        <4> QED BY <4>1, <4>2
      <3>4. CASE ~(vitem[v].piece # r.piece \/ r.secret \in Ignored) /\ r.disabled
        <4>1. z = IF key = KeyOf(r) THEN 1 ELSE 0
          BY <2>4, <3>4
        <4>2. /\ PendingAt(r, v) = Times(vdirect[v], KeyOf(r))
              /\ PendingAt(r, v)' = Times(Tail(vdirect[v]), KeyOf(r))
          BY <2>8, <3>2, <3>4 DEF Pending
        <4> HIDE DEF z
        <4> QED BY <3>1, <4>1, <4>2
      <3>5. CASE ~(vitem[v].piece # r.piece \/ r.secret \in Ignored) /\ ~r.disabled
        <4>1. z = 0
          BY <2>4, <3>5
        <4>2. PendingAt(r, v) = PendingAt(r, v)' /\ PendingAt(r, v)' \in Nat
          BY <1>6, <2>8, <3>2, <3>5 DEF Pending
        <4> HIDE DEF z
        <4> QED BY <4>1, <4>2
      <3> QED BY <3>3, <3>4, <3>5
    <2>10. z \in Nat
      OBVIOUS
    <2> HIDE DEF z, c, key
    <2>11. \A u \in Verifiers \ {v} : vitem'[u] = vitem[u] /\ vdirect'[u] = vdirect[u] /\ vkeys'[u] = vkeys[u]
      BY <1>3, <2>1
    <2>12. /\ VerifiersOwe(r)' \in Nat
           /\ VerifiersOwe(r)' + PendingAt(r, v) = VerifiersOwe(r) + PendingAt(r, v)'
      BY <1>1, <2>9, <2>11, VerifierPart
    <2>13. VerifiersOwe(r)' + z = VerifiersOwe(r)
      BY <1>4, <2>9, <2>10, <2>12
    <2>14. OverlapOwes(r)' = OverlapOwes(r) /\ DetectOwes(r)' = DetectOwes(r) /\ Times(results', r) \in Nat
      <3>1. OverlapOwes(r)' = OverlapOwes(r) /\ DetectOwes(r)' = DetectOwes(r)
        BY <1>5, <2>1
      <3>2. Times(results', r) \in Nat
        BY <1>4, <2>7, <2>10
      <3> QED BY <3>1, <3>2
    <2>15. Times(results', r) + OverlapOwes(r)' + VerifiersOwe(r)' + DetectOwes(r)'
             = Times(results, r) + OverlapOwes(r) + VerifiersOwe(r) + DetectOwes(r)
      BY <1>4, <2>7, <2>10, <2>12, <2>13, <2>14
    <2> QED BY <1>4, <1>7, <2>12, <2>14, <2>15
  <1>11. CASE VerifierPanics(v)
    <2>1. /\ vdirect[v] = <<>> /\ vitem[v] # None /\ Survivors(vitem[v].piece) # Matching[vitem[v].piece]
          /\ vitem' = [vitem EXCEPT ![v] = None] /\ vkeys' = [vkeys EXCEPT ![v] = {}]
          /\ UNCHANGED <<overlapCh, detectCh, results, vdirect>>
      BY <1>11 DEF VerifierPanics, VerifierStep
    <2>2. PendingAt(r, v) = 0
      <3>1. Times(<<>>, KeyOf(r)) = 0
        BY TimesNone
      <3> QED BY <2>1, <3>1 DEF PendingAt, Pending
    <2>3. PendingAt(r, v)' = 0
      BY <1>3, <1>8, <2>1 DEF Pending
    <2>4. \A u \in Verifiers \ {v} : vitem'[u] = vitem[u] /\ vdirect'[u] = vdirect[u] /\ vkeys'[u] = vkeys[u]
      BY <1>3, <2>1
    <2>5. /\ VerifiersOwe(r)' \in Nat
          /\ VerifiersOwe(r)' + PendingAt(r, v) = VerifiersOwe(r) + PendingAt(r, v)'
      BY <1>1, <2>3, <2>4, VerifierPart
    <2>6. VerifiersOwe(r)' = VerifiersOwe(r)
      BY <1>4, <2>2, <2>3, <2>5
    <2>7. /\ OverlapOwes(r)' = OverlapOwes(r) /\ DetectOwes(r)' = DetectOwes(r)
          /\ Times(results', r) = Times(results, r)
      BY <1>5, <2>1
    <2> QED BY <1>4, <1>7, <2>6, <2>7
  <1>12. ASSUME NEW d \in Detectors, SendReverify(v, d) PROVE Kept(r)
    <2> DEFINE e == [piece |-> vitem[v].piece, detector |-> d, owner |-> v]
               x == IF e \in DetectItems(r) THEN PerItem(r) ELSE 0
    <2>1. /\ vpc[v] = "direct" /\ d \in vkeys[v] /\ Survivors(vitem[v].piece) = Matching[vitem[v].piece]
          /\ Send(detectCh, DetectClosed, DetectCap, e)
          /\ vkeys' = [vkeys EXCEPT ![v] = @ \ {d}] /\ UNCHANGED <<overlapCh, results, vitem, vdirect>>
      BY <1>12 DEF SendReverify, VerifierStep
    <2>2. detectCh' = Append(detectCh, e)
      BY <2>1, OpenChannels DEF Send
    <2>3. vkeys'[v] = vkeys[v] \ {d} /\ vitem'[v] = vitem[v] /\ vdirect'[v] = vdirect[v]
      BY <1>3, <2>1
    <2>4. vitem[v] \in OverlapItem /\ vitem[v] # None
      BY <1>2, <1>3, <2>1, PipelineAssumption DEF Busy
    <2>5. e \in Detectable /\ (e \in DetectItems(r) <=> vitem[v].piece = r.piece /\ d = r.detector)
      <3>1. vitem[v].piece \in Pieces
        BY <2>4 DEF OverlapItem
      <3> QED BY <3>1 DEF Detectable, DetectItems, Owners
    <2>6. DetectOwes(r)' = DetectOwes(r) + x
      <3>1. Queued(Append(detectCh, e), DetectItems(r), PerItem(r))
              = Queued(detectCh, DetectItems(r), PerItem(r)) + x
        BY <1>3, <1>6, <2>5, QueuedSent
      <3> HIDE DEF e, x
      <3> QED BY <2>2, <3>1 DEF DetectOwes
    <2> HIDE DEF e
    <2>7. x \in Nat /\ PendingAt(r, v)' \in Nat /\ PendingAt(r, v) = PendingAt(r, v)' + x
      <3> DEFINE c == Survivors(r.piece) = Matching[r.piece]
      <3>1. /\ PendingAt(r, v) = Pending(r, vitem[v], vdirect[v], vkeys[v], c)
            /\ PendingAt(r, v)' = Pending(r, vitem[v], vdirect[v], vkeys[v] \ {d}, c)
        BY <1>8, <2>3 DEF PendingAt
      <3>2. Times(vdirect[v], KeyOf(r)) \in Nat
        <4>1. vdirect[v] \in Seq(SecretKey)
          BY <1>3
        <4> QED BY <4>1, TimesNat
      <3>3. vitem[v].piece = r.piece => c
        BY <2>1
      <3>4. x \in Nat
        BY <1>6
      <3>5. r.disabled \/ r.secret \in Ignored => PerItem(r) = 0
        BY DEF PerItem
      <3> HIDE DEF c
      <3>6. CASE vitem[v].piece # r.piece \/ r.secret \in Ignored
        <4>1. x = 0
          BY <2>5, <3>5, <3>6
        <4>2. PendingAt(r, v) = 0 /\ PendingAt(r, v)' = 0
          BY <2>4, <3>1, <3>6 DEF Pending
        <4> QED BY <4>1, <4>2
      <3>7. CASE ~(vitem[v].piece # r.piece \/ r.secret \in Ignored) /\ r.disabled
        <4>1. x = 0
          BY <3>5, <3>7
        <4>2. PendingAt(r, v)' = PendingAt(r, v) /\ PendingAt(r, v) \in Nat
          BY <2>4, <3>1, <3>2, <3>7 DEF Pending
        <4> HIDE DEF x
        <4> QED BY <4>1, <4>2
      <3>8. CASE ~(vitem[v].piece # r.piece \/ r.secret \in Ignored) /\ ~r.disabled
        <4>1. /\ PendingAt(r, v) = IF r.detector \in vkeys[v] THEN PerItem(r) ELSE 0
              /\ PendingAt(r, v)' = IF r.detector \in vkeys[v] \ {d} THEN PerItem(r) ELSE 0
          BY <2>4, <3>1, <3>3, <3>8 DEF Pending
        <4>2. x = IF d = r.detector THEN PerItem(r) ELSE 0
          BY <2>5, <3>8
        <4> HIDE DEF x
        <4>3. CASE d = r.detector
          BY <1>6, <2>1, <4>1, <4>2, <4>3
        <4>4. CASE d # r.detector
          <5>1. PendingAt(r, v)' = PendingAt(r, v) /\ PendingAt(r, v) \in Nat
            BY <1>6, <4>1, <4>4
          <5> QED BY <4>2, <4>4, <5>1
        <4> QED BY <4>3, <4>4, <3>4
      <3> QED BY <3>4, <3>6, <3>7, <3>8
    <2> HIDE DEF x
    <2>8. \A u \in Verifiers \ {v} : vitem'[u] = vitem[u] /\ vdirect'[u] = vdirect[u] /\ vkeys'[u] = vkeys[u]
      BY <1>3, <2>1
    <2>9. /\ VerifiersOwe(r)' \in Nat
          /\ VerifiersOwe(r)' + PendingAt(r, v) = VerifiersOwe(r) + PendingAt(r, v)'
      BY <1>1, <2>7, <2>8, VerifierPart
    <2>10. VerifiersOwe(r)' + x = VerifiersOwe(r)
      BY <1>4, <2>7, <2>9
    <2>11. /\ OverlapOwes(r)' = OverlapOwes(r) /\ DetectOwes(r)' \in Nat
           /\ Times(results', r) = Times(results, r)
      BY <1>4, <1>5, <2>1, <2>6, <2>7
    <2>12. Times(results', r) + OverlapOwes(r)' + VerifiersOwe(r)' + DetectOwes(r)'
             = Times(results, r) + OverlapOwes(r) + VerifiersOwe(r) + DetectOwes(r)
      BY <1>4, <2>6, <2>7, <2>9, <2>10, <2>11
    <2> QED BY <1>4, <1>7, <2>9, <2>11, <2>12
  <1>13. CASE OverlapDone(v)
    <2>1. /\ vdirect[v] = <<>> /\ vkeys[v] = {} /\ vitem' = [vitem EXCEPT ![v] = None]
          /\ UNCHANGED <<overlapCh, detectCh, results, vdirect, vkeys>>
      BY <1>13 DEF OverlapDone, VerifierStep
    <2>2. PendingAt(r, v) = 0
      <3>1. Times(<<>>, KeyOf(r)) = 0
        BY TimesNone
      <3> QED BY <2>1, <3>1 DEF PendingAt, Pending
    <2>3. PendingAt(r, v)' = 0
      BY <1>3, <1>8, <2>1 DEF Pending
    <2>4. \A u \in Verifiers \ {v} : vitem'[u] = vitem[u] /\ vdirect'[u] = vdirect[u] /\ vkeys'[u] = vkeys[u]
      BY <1>3, <2>1
    <2>5. /\ VerifiersOwe(r)' \in Nat
          /\ VerifiersOwe(r)' + PendingAt(r, v) = VerifiersOwe(r) + PendingAt(r, v)'
      BY <1>1, <2>3, <2>4, VerifierPart
    <2>6. VerifiersOwe(r)' = VerifiersOwe(r)
      BY <1>4, <2>2, <2>3, <2>5
    <2>7. /\ OverlapOwes(r)' = OverlapOwes(r) /\ DetectOwes(r)' = DetectOwes(r)
          /\ Times(results', r) = Times(results, r)
      BY <1>5, <2>1
    <2> QED BY <1>4, <1>7, <2>6, <2>7
  <1>14. CASE OverlapExhausted(v) \/ VerifierDone(v)
    <2>1. UNCHANGED <<overlapCh, detectCh, results, vitem, vdirect, vkeys>>
      BY <1>14 DEF OverlapExhausted, VerifierDone, VerifierStep
    <2> QED BY <1>4, <1>5, <1>7, <2>1
  <1> QED BY <1>9, <1>10, <1>11, <1>12, <1>13, <1>14 DEF Verifier

\* What a detector worker takes and reports changes hands; a panic loses the item.
LEMMA WorkerKeeps ==
  ASSUME FlightInv, FlowInv, NEW d \in DetectWorkers, DetectWorker(d), NEW r \in Result
  PROVE  Kept(r)
  <1>1. UNCHANGED <<panics, unread, overlapCh, stodo, ssent, vitem, vdirect, vkeys, notified>>
    BY DEF DetectWorker, DetectChunk, DetectChunkPanics, ReportResult, DetectChunkDone,
       DetectExhausted, DetectStep, scanVars, verifierVars, notifyVars
  <1>2. FlightTypes /\ CloseInv /\ RestTypes /\ Busy
    BY DEF FlightInv, FlowInv
  <1>3. /\ ditem \in [DetectWorkers -> Detectable \cup {None}] /\ dresults \in [DetectWorkers -> Seq(Secrets)]
        /\ results \in Seq(Result) /\ detectCh \in Seq(Detectable)
    BY <1>2 DEF FlightTypes, RestTypes
  <1>4. /\ notified[r] \in Nat /\ Times(results, r) \in Nat /\ UnreadOwe(r) \in Nat
        /\ ScannersOwe(r) \in Nat /\ OverlapOwes(r) \in Nat /\ VerifiersOwe(r) \in Nat
        /\ DetectOwes(r) \in Nat /\ WorkersOwe(r) \in Nat
    BY OwedTypes
  <1>5. /\ notified'[r] = notified[r] /\ UnreadOwe(r)' = UnreadOwe(r)
        /\ ScannersOwe(r)' = ScannersOwe(r) /\ OverlapOwes(r)' = OverlapOwes(r)
        /\ VerifiersOwe(r)' = VerifiersOwe(r)
    BY <1>1, OwesAsBefore
  <1>6. /\ UNCHANGED results => Times(results', r) = Times(results, r)
        /\ UNCHANGED detectCh => DetectOwes(r)' = DetectOwes(r)
        /\ UNCHANGED <<ditem, dresults>> => WorkersOwe(r)' = WorkersOwe(r)
    BY OwesAsBefore
  <1>7. PerItem(r) \in Nat /\ r.disabled \in BOOLEAN
    BY Worth
  <1>8. ASSUME /\ Times(results', r) \in Nat /\ DetectOwes(r)' \in Nat /\ WorkersOwe(r)' \in Nat,
               Times(results', r) + DetectOwes(r)' + WorkersOwe(r)'
                 = Times(results, r) + DetectOwes(r) + WorkersOwe(r)
        PROVE  Kept(r)
    <2> DEFINE rest == notified[r] + UnreadOwe(r) + ScannersOwe(r) + OverlapOwes(r) + VerifiersOwe(r)
               here == Times(results, r) + DetectOwes(r) + WorkersOwe(r)
    <2>1. rest \in Nat /\ here \in Nat /\ Balance(r) = rest + here
      BY <1>4 DEF Balance
    <2>2. rest' = rest /\ here' = here
      BY <1>5, <1>8
    <2>3. Balance(r)' = rest' + here'
      BY <1>4, <1>5, <1>8 DEF Balance
    <2> HIDE DEF rest, here
    <2> QED BY <2>1, <2>2, <2>3 DEF Kept
  <1>9. CASE DetectChunk(d)
    <2> DEFINE item == Head(detectCh)
               x == IF item \in DetectItems(r) THEN PerItem(r) ELSE 0
    <2>1. /\ dpc[d] = "range" /\ detectCh # <<>> /\ detectCh' = Tail(detectCh)
          /\ ditem' = [ditem EXCEPT ![d] = item]
          /\ dresults' = [dresults EXCEPT ![d] = Found[item.piece][item.detector]]
          /\ UNCHANGED results
      BY <1>9 DEF DetectChunk, DetectStep
    <2>2. item \in Detectable /\ item # None /\ x \in Nat
      BY <1>3, <1>7, <2>1, PipelineAssumption
    <2>3. ditem[d] = None
      BY <1>2, <2>1 DEF Busy
    <2>4. DetectOwes(r)' \in Nat /\ DetectOwes(r) = DetectOwes(r)' + x
      BY <1>3, <1>7, <2>1, QueuedReceived DEF DetectOwes
    <2>5. item \in DetectItems(r) <=> item.piece = r.piece /\ item.detector = r.detector
      BY <2>2 DEF DetectItems
    <2>6. Remaining(r, ditem'[d], dresults'[d]) = x
      <3>1. ditem'[d] = item /\ dresults'[d] = Found[item.piece][item.detector]
        <4> HIDE DEF item
        <4> QED BY <1>3, <2>1
      <3> HIDE DEF item
      <3>2. CASE item \in DetectItems(r)
        BY <2>2, <2>5, <3>1, <3>2 DEF Remaining, PerItem
      <3>3. CASE item \notin DetectItems(r)
        BY <2>2, <2>5, <3>1, <3>3 DEF Remaining
      <3> QED BY <3>2, <3>3
    <2>7. Remaining(r, ditem[d], dresults[d]) = 0
      BY <2>3 DEF Remaining
    <2>8. \A u \in DetectWorkers \ {d} : ditem'[u] = ditem[u] /\ dresults'[u] = dresults[u]
      <3> HIDE DEF item
      <3> QED BY <1>3, <2>1
    <2> HIDE DEF x, item
    <2>9. /\ WorkersOwe(r)' \in Nat
          /\ WorkersOwe(r)' + Remaining(r, ditem[d], dresults[d])
               = WorkersOwe(r) + Remaining(r, ditem'[d], dresults'[d])
      BY <2>2, <2>6, <2>8, WorkerPart
    <2>10. WorkersOwe(r)' = WorkersOwe(r) + x
      BY <1>4, <2>2, <2>6, <2>7, <2>9
    <2>11. Times(results', r) = Times(results, r)
      BY <1>6, <2>1
    <2>12. Times(results', r) + DetectOwes(r)' + WorkersOwe(r)'
             = Times(results, r) + DetectOwes(r) + WorkersOwe(r)
      BY <1>4, <2>2, <2>4, <2>10, <2>11
    <2> QED BY <1>4, <1>8, <2>4, <2>9, <2>11, <2>12
  <1>10. CASE DetectChunkPanics(d)
    <2> DEFINE x == IF Head(detectCh) \in DetectItems(r) THEN PerItem(r) ELSE 0
    <2>1. /\ detectCh # <<>> /\ detectCh' = Tail(detectCh) /\ panics # {}
          /\ UNCHANGED <<results, ditem, dresults>>
      BY <1>10 DEF DetectChunkPanics, DetectStep
    <2>2. DetectOwes(r)' \in Nat /\ DetectOwes(r) = DetectOwes(r)' + x /\ x \in Nat
      BY <1>3, <1>7, <2>1, QueuedReceived DEF DetectOwes
    <2>3. Times(results', r) = Times(results, r) /\ WorkersOwe(r)' = WorkersOwe(r)
      BY <1>6, <2>1
    <2> HIDE DEF x
    <2>4. Balance(r)' \in Nat /\ Balance(r)' <= Balance(r)
      BY <1>4, <1>5, <2>2, <2>3 DEF Balance
    <2> QED BY <2>1, <2>4 DEF Kept
  <1>11. CASE ReportResult(d)
    <2> DEFINE s == Head(dresults[d])
               res == [piece |-> ditem[d].piece, detector |-> ditem[d].detector, secret |-> s,
                       disabled |-> FALSE]
               z == IF res = r /\ r.secret \notin Ignored THEN 1 ELSE 0
    <2>1. /\ dpc[d] = "results" /\ dresults[d] # <<>>
          /\ ProcessResult(ditem[d].piece, ditem[d].detector, s, FALSE)
          /\ dresults' = [dresults EXCEPT ![d] = Tail(@)] /\ UNCHANGED <<detectCh, ditem>>
      BY <1>11 DEF ReportResult, DetectStep
    <2>2. /\ dresults[d] \in Seq(Secrets) /\ s \in Secrets /\ Tail(dresults[d]) \in Seq(Secrets)
          /\ dresults'[d] = Tail(dresults[d]) /\ ditem'[d] = ditem[d]
      BY <1>3, <2>1
    <2>3. ditem[d] \in Detectable /\ ditem[d] # None
      BY <1>2, <1>3, <2>1, PipelineAssumption DEF Busy
    <2>4. res \in Result /\ (res = r <=> /\ ditem[d].piece = r.piece /\ ditem[d].detector = r.detector
                                         /\ s = r.secret /\ ~r.disabled)
      <3> HIDE DEF s
      <3>1. ditem[d].piece \in Pieces /\ ditem[d].detector \in Detectors
        BY <2>3 DEF Detectable
      <3>2. res \in Result
        BY <2>2, <3>1 DEF Result
      <3>3. r = [piece |-> r.piece, detector |-> r.detector, secret |-> r.secret, disabled |-> r.disabled]
        BY DEF Result
      <3>4. res = r <=> /\ ditem[d].piece = r.piece /\ ditem[d].detector = r.detector
                        /\ s = r.secret /\ r.disabled = FALSE
        BY <3>3
      <3> QED BY <1>7, <3>2, <3>4
    <2>5. /\ s \in Ignored => results' = results
          /\ s \notin Ignored => results' = Append(results, res)
      <3>1. ~ResultsClosed
        BY <2>1, OpenChannels
      <3> QED BY <2>1, <3>1 DEF ProcessResult, Send
    <2>6. res = r => s = r.secret
      BY <2>4
    <2> HIDE DEF res
    <2>7. Times(results', r) = Times(results, r) + z
      <3>1. Times(Append(results, res), r) = Times(results, r) + (IF res = r THEN 1 ELSE 0)
        BY <1>3, <2>4, TimesAppend
      <3> HIDE DEF s
      <3>2. CASE s \in Ignored
        <4>1. z = 0 /\ results' = results
          BY <2>5, <2>6, <3>2
        <4> HIDE DEF z
        <4> QED BY <1>4, <4>1
      <3>3. CASE s \notin Ignored
        <4>1. z = IF res = r THEN 1 ELSE 0
          BY <2>6, <3>3
        <4> HIDE DEF z
        <4> QED BY <2>5, <3>1, <3>3, <4>1
      <3> QED BY <3>2, <3>3
    <2>8. /\ Remaining(r, ditem'[d], dresults'[d]) \in Nat
          /\ Remaining(r, ditem[d], dresults[d]) = Remaining(r, ditem'[d], dresults'[d]) + z
      <3>1. /\ Times(dresults[d], r.secret)
                 = Times(Tail(dresults[d]), r.secret) + (IF s = r.secret THEN 1 ELSE 0)
            /\ Times(Tail(dresults[d]), r.secret) \in Nat
        BY <2>1, <2>2, TimesTail, TimesNat
      <3> HIDE DEF s
      <3>2. CASE \/ ditem[d].piece # r.piece \/ ditem[d].detector # r.detector
                 \/ r.disabled \/ r.secret \in Ignored
        <4>1. z = 0
          BY <2>4, <3>2
        <4>2. Remaining(r, ditem[d], dresults[d]) = 0 /\ Remaining(r, ditem'[d], dresults'[d]) = 0
          BY <2>2, <2>3, <3>2 DEF Remaining
        <4> QED BY <4>1, <4>2
      <3>3. CASE ~(\/ ditem[d].piece # r.piece \/ ditem[d].detector # r.detector
                   \/ r.disabled \/ r.secret \in Ignored)
        <4>1. z = IF s = r.secret THEN 1 ELSE 0
          BY <2>4, <3>3
        <4>2. /\ Remaining(r, ditem[d], dresults[d]) = Times(dresults[d], r.secret)
              /\ Remaining(r, ditem'[d], dresults'[d]) = Times(Tail(dresults[d]), r.secret)
          BY <2>2, <2>3, <3>3 DEF Remaining
        <4> HIDE DEF z
        <4> QED BY <3>1, <4>1, <4>2
      <3> QED BY <3>2, <3>3
    <2>9. z \in Nat
      OBVIOUS
    <2> HIDE DEF z, s
    <2>10. \A u \in DetectWorkers \ {d} : ditem'[u] = ditem[u] /\ dresults'[u] = dresults[u]
      BY <1>3, <2>1
    <2>11. /\ WorkersOwe(r)' \in Nat
           /\ WorkersOwe(r)' + Remaining(r, ditem[d], dresults[d])
                = WorkersOwe(r) + Remaining(r, ditem'[d], dresults'[d])
      BY <2>8, <2>10, WorkerPart
    <2>12. WorkersOwe(r)' + z = WorkersOwe(r)
      BY <1>4, <2>8, <2>9, <2>11
    <2>13. DetectOwes(r)' = DetectOwes(r)
      BY <1>6, <2>1
    <2>14. Times(results', r) \in Nat
      BY <1>4, <2>7, <2>9
    <2>15. Times(results', r) + DetectOwes(r)' + WorkersOwe(r)'
             = Times(results, r) + DetectOwes(r) + WorkersOwe(r)
      BY <1>4, <2>7, <2>9, <2>11, <2>12, <2>13
    <2> QED BY <1>4, <1>8, <2>11, <2>13, <2>14, <2>15
  <1>12. CASE DetectChunkDone(d)
    <2>1. /\ dresults[d] = <<>> /\ ditem' = [ditem EXCEPT ![d] = None]
          /\ UNCHANGED <<detectCh, results, dresults>>
      BY <1>12 DEF DetectChunkDone, DetectStep
    <2>2. Remaining(r, ditem[d], dresults[d]) = 0
      <3>1. Times(<<>>, r.secret) = 0
        BY TimesNone
      <3> QED BY <2>1, <3>1 DEF Remaining
    <2>3. Remaining(r, ditem'[d], dresults'[d]) = 0
      BY <1>3, <2>1 DEF Remaining
    <2>4. \A u \in DetectWorkers \ {d} : ditem'[u] = ditem[u] /\ dresults'[u] = dresults[u]
      BY <1>3, <2>1
    <2>5. /\ WorkersOwe(r)' \in Nat
          /\ WorkersOwe(r)' + Remaining(r, ditem[d], dresults[d])
               = WorkersOwe(r) + Remaining(r, ditem'[d], dresults'[d])
      BY <2>3, <2>4, WorkerPart
    <2>6. WorkersOwe(r)' = WorkersOwe(r)
      BY <1>4, <2>2, <2>3, <2>5
    <2>7. Times(results', r) = Times(results, r) /\ DetectOwes(r)' = DetectOwes(r)
      BY <1>6, <2>1
    <2> QED BY <1>4, <1>8, <2>6, <2>7
  <1>13. CASE DetectExhausted(d)
    <2>1. UNCHANGED <<detectCh, results, ditem, dresults>>
      BY <1>13 DEF DetectExhausted, DetectStep
    <2>2. /\ Times(results', r) = Times(results, r) /\ DetectOwes(r)' = DetectOwes(r)
          /\ WorkersOwe(r)' = WorkersOwe(r)
      BY <1>6, <2>1
    <2> QED BY <1>4, <1>8, <2>2
  <1> QED BY <1>9, <1>10, <1>11, <1>12, <1>13 DEF DetectWorker

\* A notifier takes a result over; nobody else touches one.
LEMMA OthersKeep ==
  ASSUME FlightInv, FlowInv, [Next]_vars, NEW r \in Result,
         ~\E w \in Scanners : Scanner(w), ~\E v \in Verifiers : Verifier(v),
         ~\E d \in DetectWorkers : DetectWorker(d)
  PROVE  Kept(r)
  <1>1. UNCHANGED <<panics, unread, overlapCh, detectCh, stodo, ssent, vitem, vdirect, vkeys,
                    ditem, dresults>>
    BY DEF Next, Step, Notifier, NotifyResult, ResultsExhausted, Finish, SourcesFinished, CloseOverlap,
       CloseDetectable, CloseResults, FinishReturned, FinishStep, scanVars, verifierVars, detectVars, vars
  <1>2. results \in Seq(Result) /\ notified \in [Result -> Nat]
    BY DEF FlowInv, RestTypes
  <1>3. /\ notified[r] \in Nat /\ Times(results, r) \in Nat /\ UnreadOwe(r) \in Nat
        /\ ScannersOwe(r) \in Nat /\ OverlapOwes(r) \in Nat /\ VerifiersOwe(r) \in Nat
        /\ DetectOwes(r) \in Nat /\ WorkersOwe(r) \in Nat
    BY OwedTypes
  <1>4. /\ UnreadOwe(r)' = UnreadOwe(r) /\ ScannersOwe(r)' = ScannersOwe(r)
        /\ OverlapOwes(r)' = OverlapOwes(r) /\ VerifiersOwe(r)' = VerifiersOwe(r)
        /\ DetectOwes(r)' = DetectOwes(r) /\ WorkersOwe(r)' = WorkersOwe(r)
    BY <1>1, OwesAsBefore
  <1>5. ASSUME notified'[r] \in Nat, Times(results', r) \in Nat,
               notified'[r] + Times(results', r) = notified[r] + Times(results, r)
        PROVE  Kept(r)
    BY <1>3, <1>4, <1>5 DEF Kept, Balance
  <1>6. ASSUME NEW n \in Notifiers, NotifyResult(n) PROVE Kept(r)
    <2> DEFINE z == IF Head(results) = r THEN 1 ELSE 0
    <2>1. /\ results # <<>> /\ results' = Tail(results)
          /\ notified' = [notified EXCEPT ![Head(results)] = @ + 1]
      BY <1>6 DEF NotifyResult
    <2>2. Times(results, r) = Times(results', r) + z /\ Times(results', r) \in Nat
      <3>1. Tail(results) \in Seq(Result)
        BY <1>2, <2>1
      <3> QED BY <1>2, <2>1, <3>1, TimesTail, TimesNat
    <2>3. notified'[r] = notified[r] + z /\ z \in Nat
      BY <1>2, <2>1
    <2> HIDE DEF z
    <2> QED BY <1>3, <1>5, <2>2, <2>3
  <1>7. CASE UNCHANGED <<results, notified>>
    BY <1>3, <1>5, <1>7
  <1> QED BY <1>6, <1>7 DEF Next, Step, Notifier, ResultsExhausted, Finish, SourcesFinished, CloseOverlap,
       CloseDetectable, CloseResults, FinishReturned, FinishStep, notifyVars, vars

\* What must be reported is what the chunks are worth.
LEMMA ExpectedIs ==
  ASSUME NEW r \in Result
  PROVE  Expected(r) = SumFunctionOnSet(PiecesIn(r), Chunks) * PerPiece(r) /\ Expected(r) \in Nat
  <1> DEFINE pieces == SumFunctionOnSet(PiecesIn(r), Chunks)
  <1>1. PerPiece(r) \in Nat /\ NatOn(PiecesIn(r), Chunks) /\ IsFiniteSet(Chunks)
    BY Worth, PipelineAssumption
  <1>2. pieces \in Nat
    BY <1>1, SumNat
  <1>3. SumFunction([c \in Chunks |-> Times(PiecesOf[c], r.piece)]) = pieces
    <2> DEFINE f == PiecesIn(r)
    <2>1. f = [c \in Chunks |-> Times(PiecesOf[c], r.piece)] /\ DOMAIN f = Chunks
      BY DEF PiecesIn
    <2> HIDE DEF f
    <2>2. SumFunction(f) = SumFunctionOnSet(f, DOMAIN f)
      BY Zenon DEF SumFunction, SumFunctionOnSet, FoldFunction
    <2> QED BY <2>1, <2>2 DEF f
  <1>4. CASE r.secret \in Ignored \/ r.detector \notin ToSet(Matching[r.piece])
    <2>1. Expected(r) = 0 /\ PerPiece(r) = 0
      BY <1>4 DEF Expected, PerPiece
    <2> HIDE DEF pieces
    <2>2. pieces * 0 = 0
      BY <1>2
    <2> QED BY <2>1, <2>2 DEF pieces
  <1>5. CASE ~(r.secret \in Ignored \/ r.detector \notin ToSet(Matching[r.piece]))
    <2>1. Expected(r) = pieces * PerPiece(r)
      BY <1>3, <1>5 DEF Expected, PerPiece, KeyOf
    <2> HIDE DEF pieces
    <2>2. pieces * PerPiece(r) \in Nat
      BY <1>1, <1>2, Scaled
    <2> QED BY <2>1, <2>2 DEF pieces
  <1> QED BY <1>4, <1>5

\* At first everything is still owed by the chunks that are not read.
LEMMA InitConserved == Init => Conserved
  <1> SUFFICES ASSUME Init, NEW r \in Result
               PROVE  Balance(r) = Expected(r) /\ Balance(r) <= Expected(r)
    BY DEF Conserved
  <1>1. FlightInv /\ FlowInv
    BY InitFlight, InitFlow
  <1>2. UnreadOwe(r) = Expected(r) /\ Expected(r) \in Nat
    <2>1. unread = Chunks
      BY DEF Init
    <2> QED BY <2>1, ExpectedIs DEF UnreadOwe
  <1>3. notified[r] = 0
    BY DEF Init
  <1>4. Times(results, r) = 0
    <2>1. results = <<>>
      BY DEF Init
    <2> QED BY <2>1, TimesNone
  <1>5. PerPiece(r) \in Nat /\ PerItem(r) \in Nat
    BY Worth
  <1>6. OverlapOwes(r) = 0 /\ DetectOwes(r) = 0
    <2>1. overlapCh = <<>> /\ detectCh = <<>>
      BY DEF Init
    <2> QED BY <1>5, <2>1, QueuedEmpty DEF OverlapOwes, DetectOwes
  <1>7. IsFiniteSet(Scanners) /\ IsFiniteSet(Verifiers) /\ IsFiniteSet(DetectWorkers)
    BY PipelineAssumption
  <1>8. ScannersOwe(r) = 0
    <2>1. \A w \in Scanners : ScannerOwes(r)[w] = 0
      BY DEF Init, ScannerOwes, Backlog
    <2> QED BY <1>7, <2>1, SumZero DEF ScannersOwe
  <1>9. VerifiersOwe(r) = 0
    <2>1. \A v \in Verifiers : vitem[v] = None
      BY DEF Init
    <2>2. \A v \in Verifiers : VerifierOwes(r)[v] = 0
      BY <2>1 DEF VerifierOwes, Pending
    <2> QED BY <1>7, <2>2, SumZero DEF VerifiersOwe
  <1>10. WorkersOwe(r) = 0
    <2>1. \A d \in DetectWorkers : ditem[d] = None
      BY DEF Init
    <2>2. \A d \in DetectWorkers : WorkerOwes(r)[d] = 0
      BY <2>1 DEF WorkerOwes, Remaining
    <2> QED BY <1>7, <2>2, SumZero DEF WorkersOwe
  <1> QED BY <1>2, <1>3, <1>4, <1>6, <1>8, <1>9, <1>10 DEF Balance

\* Finish returns behind the notifiers.
Stopped == finish = "done" => \A n \in Notifiers : npc[n] = "exit"

\* The invariant of all this.
ReportInv == FlightInv /\ FlowInv /\ Conserved /\ Stopped

\* A notifier that has returned stays so.
LEMMA StoppedStays ==
  ASSUME TypeCounters, Stopped, [Next]_vars
  PROVE  Stopped'
  <1>1. ASSUME UNCHANGED <<finish, npc>> PROVE Stopped'
    BY <1>1 DEF Stopped
  <1>2. ASSUME NEW w \in Scanners, Scanner(w) PROVE Stopped'
    BY <1>1, <1>2 DEF Scanner, ReceiveChunk, SendOverlap, SendDetectable, NextPiece, ChunkScanned,
       ChunksExhausted, OverlapWaited, ScannerDone, ScannerStep, notifyVars
  <1>3. ASSUME NEW v \in Verifiers, Verifier(v) PROVE Stopped'
    BY <1>1, <1>3 DEF Verifier, AnalyseOverlap, ReportDirect, VerifierPanics, SendReverify, OverlapDone,
       OverlapExhausted, VerifierDone, VerifierStep, notifyVars
  <1>4. ASSUME NEW d \in DetectWorkers, DetectWorker(d) PROVE Stopped'
    BY <1>1, <1>4 DEF DetectWorker, DetectChunk, DetectChunkPanics, ReportResult, DetectChunkDone,
       DetectExhausted, DetectStep, notifyVars
  <1>5. ASSUME NEW n \in Notifiers, Notifier(n) PROVE Stopped'
    BY <1>5 DEF Notifier, NotifyResult, ResultsExhausted, Stopped, TypeCounters
  <1>6. CASE Finish
    BY <1>6 DEF Finish, SourcesFinished, CloseOverlap, CloseDetectable, CloseResults,
       FinishReturned, FinishStep, notifyVars, Stopped
  <1>7. CASE UNCHANGED vars
    BY <1>1, <1>7 DEF vars, notifyVars
  <1> QED BY <1>2, <1>3, <1>4, <1>5, <1>6, <1>7 DEF Next, Step

\* The invariant is inductive: each step moves what is owed, or loses it to a panic.
LEMMA NextConserved == ReportInv /\ [Next]_vars => ReportInv'
  <1> SUFFICES ASSUME ReportInv, [Next]_vars PROVE ReportInv'
    OBVIOUS
  <1>1. FlightInv /\ FlowInv /\ Conserved /\ Stopped
    BY DEF ReportInv
  <1>2. FlightInv'
    BY <1>1, ScannerFlight, VerifierFlight, DetectWorkerFlight, OthersFlight
  <1>3. FlowInv'
    BY <1>1, ScannerFlow, VerifierFlow, DetectWorkerFlow, OthersFlow
  <1>4. ASSUME NEW r \in Result PROVE Kept(r)
    BY <1>1, ScannerKeeps, VerifierKeeps, WorkerKeeps, OthersKeep
  <1>5. UNCHANGED panics
    <2>1. ASSUME NEW w \in Scanners, Scanner(w) PROVE UNCHANGED panics
      BY <2>1 DEF Scanner, ReceiveChunk, SendOverlap, SendDetectable, NextPiece, ChunkScanned,
         ChunksExhausted, OverlapWaited, ScannerDone, ScannerStep
    <2>2. ASSUME NEW v \in Verifiers, Verifier(v) PROVE UNCHANGED panics
      BY <2>2 DEF Verifier, AnalyseOverlap, ReportDirect, VerifierPanics, SendReverify, OverlapDone,
         OverlapExhausted, VerifierDone, VerifierStep
    <2>3. ASSUME NEW d \in DetectWorkers, DetectWorker(d) PROVE UNCHANGED panics
      BY <2>3 DEF DetectWorker, DetectChunk, DetectChunkPanics, ReportResult, DetectChunkDone,
         DetectExhausted, DetectStep
    <2>4. ASSUME NEW n \in Notifiers, Notifier(n) PROVE UNCHANGED panics
      BY <2>4 DEF Notifier, NotifyResult, ResultsExhausted
    <2>5. CASE Finish
      BY <2>5 DEF Finish, SourcesFinished, CloseOverlap, CloseDetectable, CloseResults,
         FinishReturned, FinishStep
    <2>6. CASE UNCHANGED vars
      BY <2>6 DEF vars
    <2> QED BY <2>1, <2>2, <2>3, <2>4, <2>5, <2>6 DEF Next, Step
  <1>6. ASSUME NEW r \in Result
        PROVE  Balance(r)' <= Expected(r) /\ (panics = {} => Balance(r)' = Expected(r))
    <2>1. Balance(r) \in Nat
      <3>1. /\ notified[r] \in Nat /\ Times(results, r) \in Nat /\ UnreadOwe(r) \in Nat
            /\ ScannersOwe(r) \in Nat /\ OverlapOwes(r) \in Nat /\ VerifiersOwe(r) \in Nat
            /\ DetectOwes(r) \in Nat /\ WorkersOwe(r) \in Nat
        BY <1>1, OwedTypes
      <3> QED BY <3>1 DEF Balance
    <2>2. /\ Balance(r)' \in Nat /\ Balance(r)' <= Balance(r)
          /\ panics = {} => Balance(r)' = Balance(r)
      BY <1>4 DEF Kept
    <2>3. Balance(r) <= Expected(r) /\ (panics = {} => Balance(r) = Expected(r))
      BY <1>1 DEF Conserved
    <2>4. Expected(r) \in Nat
      BY ExpectedIs
    <2>5. \A x, y, z \in Nat : x <= y /\ y <= z => x <= z
      OBVIOUS
    <2> QED BY <2>1, <2>2, <2>3, <2>4, <2>5, Zenon
  <1>7. Conserved'
    BY <1>5, <1>6 DEF Conserved
  <1>8. Stopped'
    BY <1>1, StoppedStays DEF FlightInv, CloseInv
  <1> QED BY <1>2, <1>3, <1>7, <1>8 DEF ReportInv

\* What has been notified is part of the balance.
LEMMA NotifiedWithin == ReportInv => NotifiedAtMostOnce
  <1> SUFFICES ASSUME ReportInv, NEW r \in Result PROVE notified[r] <= Expected(r)
    BY DEF NotifiedAtMostOnce
  <1>1. /\ notified[r] \in Nat /\ Times(results, r) \in Nat /\ UnreadOwe(r) \in Nat
        /\ ScannersOwe(r) \in Nat /\ OverlapOwes(r) \in Nat /\ VerifiersOwe(r) \in Nat
        /\ DetectOwes(r) \in Nat /\ WorkersOwe(r) \in Nat
    BY OwedTypes DEF ReportInv
  <1>2. notified[r] <= Balance(r) /\ Balance(r) \in Nat
    BY <1>1 DEF Balance
  <1>3. Balance(r) <= Expected(r) /\ Expected(r) \in Nat
    BY ExpectedIs DEF ReportInv, Conserved
  <1>4. \A x, y, z \in Nat : x <= y /\ y <= z => x <= z
    OBVIOUS
  <1> QED BY <1>1, <1>2, <1>3, <1>4, Zenon

\* When Finish has returned nobody owes anything.
LEMMA NothingOwed ==
  ASSUME ReportInv, finish = "done", panics = {}, NEW r \in Result
  PROVE  Balance(r) = notified[r]
  <1>1. /\ ChunksClosed /\ OverlapClosed /\ DetectClosed /\ ResultsClosed
    BY DEF ChunksClosed, OverlapClosed, DetectClosed, ResultsClosed
  <1>2. NoSenderAfterClose /\ Busy /\ Scanning /\ Drained /\ Stopped
    BY DEF ReportInv, FlightInv, CloseInv, FlowInv
  <1>3. /\ unread = {} /\ \A w \in Scanners : spc[w] = "exit"
        /\ (\A v \in Verifiers : vpc[v] = "exit") /\ \A d \in DetectWorkers : dpc[d] = "exit"
        /\ \A n \in Notifiers : npc[n] = "exit"
    <2>1. \A n \in Notifiers : npc[n] = "exit"
      BY <1>2 DEF Stopped
    <2>2. /\ unread = {} /\ \A w \in Scanners : spc[w] = "exit"
          /\ (\A v \in Verifiers : vpc[v] = "exit") /\ \A d \in DetectWorkers : dpc[d] = "exit"
      BY <1>1, <1>2 DEF NoSenderAfterClose
    <2> QED BY <2>1, <2>2
  <1>4. overlapCh = <<>> /\ detectCh = <<>> /\ results = <<>>
    BY <1>2, <1>3, PipelineAssumption DEF Drained
  <1>5. /\ \A w \in Scanners : stodo[w] = <<>>
        /\ \A v \in Verifiers : vitem[v] = None
        /\ \A d \in DetectWorkers : ditem[d] = None
    BY <1>2, <1>3 DEF Busy, Scanning
  <1>6. PerPiece(r) \in Nat /\ PerItem(r) \in Nat
    BY Worth
  <1>7. IsFiniteSet(Scanners) /\ IsFiniteSet(Verifiers) /\ IsFiniteSet(DetectWorkers)
    BY PipelineAssumption
  <1>8. Times(results, r) = 0
    BY <1>4, TimesNone
  <1>9. UnreadOwe(r) = 0
    <2>1. SumFunctionOnSet(PiecesIn(r), {}) = 0
      BY FS_EmptySet, SumZero
    <2> QED BY <1>3, <1>6, <2>1 DEF UnreadOwe
  <1>10. OverlapOwes(r) = 0 /\ DetectOwes(r) = 0
    BY <1>4, <1>6, QueuedEmpty DEF OverlapOwes, DetectOwes
  <1>11. ScannersOwe(r) = 0
    <2>1. \A w \in Scanners : ScannerOwes(r)[w] = 0
      BY <1>5 DEF ScannerOwes, Backlog
    <2> QED BY <1>7, <2>1, SumZero DEF ScannersOwe
  <1>12. VerifiersOwe(r) = 0
    <2>1. \A v \in Verifiers : VerifierOwes(r)[v] = 0
      BY <1>5 DEF VerifierOwes, Pending
    <2> QED BY <1>7, <2>1, SumZero DEF VerifiersOwe
  <1>13. WorkersOwe(r) = 0
    <2>1. \A d \in DetectWorkers : WorkerOwes(r)[d] = 0
      BY <1>5 DEF WorkerOwes, Remaining
    <2> QED BY <1>7, <2>1, SumZero DEF WorkersOwe
  <1>14. notified[r] \in Nat
    BY OwedTypes DEF ReportInv
  <1> QED BY <1>8, <1>9, <1>10, <1>11, <1>12, <1>13, <1>14 DEF Balance

\* Then everything has been notified.
LEMMA AllNotified == ReportInv => EveryFindingNotified
  <1> SUFFICES ASSUME ReportInv, finish = "done", panics = {}, NEW r \in Result
               PROVE  notified[r] = Expected(r)
    BY DEF EveryFindingNotified
  <1>1. Balance(r) = notified[r]
    BY NothingOwed
  <1>2. Balance(r) = Expected(r)
    BY DEF ReportInv, Conserved
  <1> QED BY <1>1, <1>2

\* The invariant holds at first.
LEMMA InitReport == Init => ReportInv
  <1>1. Init => Stopped
    BY DEF Init, Stopped
  <1> QED BY <1>1, InitFlight, InitFlow, InitConserved DEF ReportInv

(***************************************************************************)
(* The pipeline keeps its types: every item on a channel is a piece, a     *)
(* detector of it and the worker that waits for it, and every result has   *)
(* its piece, detector and secret, whatever panics.                        *)
(***************************************************************************)
THEOREM TypesKept == Spec => []TypeOK
  <1>1. ReportInv => TypeOK
    BY FlowTypes DEF ReportInv
  <1> QED BY <1>1, InitReport, NextConserved, PTL DEF Spec

(***************************************************************************)
(* No finding reaches the notifiers more often than the chunks contain it, *)
(* whatever detectors overlap or panic, in whatever order the workers of   *)
(* the three pools take the items of the channels.                         *)
(***************************************************************************)
THEOREM ReportedAtMostOnce == Spec => []NotifiedAtMostOnce
  BY InitReport, NextConserved, NotifiedWithin, PTL DEF Spec

(***************************************************************************)
(* When Finish returns and no detector has panicked, every finding that    *)
(* must be reported has reached the notifiers exactly as often as the      *)
(* chunks contain it: none is left in a channel or with a worker.          *)
(***************************************************************************)
THEOREM AllReported == Spec => []EveryFindingNotified
  BY InitReport, NextConserved, AllNotified, PTL DEF Spec

----------------------------------------------------------------------------
(***************************************************************************)
(* What the loop of an overlap worker computes, for any order of any       *)
(* detectors and whatever they find: VerificationOverlap, whose definition *)
(* of a twin has no loop.                                                  *)
(***************************************************************************)
\* An earlier detector of another type found a text similar to s.
TwinAhead(order, found, d, s) ==
  \E i, j \in DOMAIN order :
    /\ i < j /\ order[j] = d /\ DetectorType[order[i]] # DetectorType[d]
    /\ \E t \in ToSet(found[order[i]]) : <<s, t>> \in Similar

\* The keys of what a detector finds, and of what the first i detectors find.
KeysFrom(d, q) == [secret : ToSet(q), detector : {d}]
KeysUpTo(order, found, i) == UNION {KeysFrom(order[l], found[order[l]]) : l \in 1..i}

\* What is appended is an element, and new if it was none before.
LEMMA AppendElement ==
  ASSUME NEW D, NEW s \in Seq(D), NEW x \in D
  PROVE  /\ ToSet(Append(s, x)) = ToSet(s) \cup {x}
         /\ IsInjective(s) /\ x \notin ToSet(s) => IsInjective(Append(s, x))
  <1> DEFINE n == Len(s)
             a == Append(s, x)
  <1>1. n \in Nat /\ DOMAIN s = 1..n /\ DOMAIN a = 1..(n + 1) /\ a[n + 1] = x
        /\ \A i \in 1..n : a[i] = s[i]
    OBVIOUS
  <1> HIDE DEF n, a
  <1>2. \A i \in 1..(n + 1) : i \in 1..n \/ i = n + 1
    BY <1>1
  <1>3. 1..n \subseteq 1..(n + 1) /\ n + 1 \in 1..(n + 1)
    BY <1>1
  <1>4. ToSet(a) = ToSet(s) \cup {x}
    BY <1>1, <1>2, <1>3 DEF ToSet
  <1>5. ASSUME IsInjective(s), x \notin ToSet(s) PROVE IsInjective(a)
    <2> SUFFICES ASSUME NEW i \in 1..(n + 1), NEW j \in 1..(n + 1), a[i] = a[j] PROVE i = j
      BY <1>1 DEF IsInjective
    <2>1. \A k \in 1..n : s[k] # x /\ \A l \in 1..n : s[k] = s[l] => k = l
      BY <1>1, <1>5 DEF ToSet, IsInjective
    <2> QED BY <1>1, <1>2, <2>1
  <1> QED BY <1>4, <1>5 DEF a

Dealt(acc, start, new, d) ==
  /\ acc.chunkSecrets = start.chunkSecrets \cup new
  /\ ToSet(acc.direct) = ToSet(start.direct) \cup {k \in new : LikelyDuplicate(k, start.chunkSecrets)}
  /\ IsInjective(acc.direct)
  /\ acc.keysWithResults = start.keysWithResults \cup
       (IF \E k \in new : LikelyDuplicate(k, start.chunkSecrets) THEN {} ELSE {d})

\* A result of d is a duplicate for what other detectors found, not for what d found so far.
LEMMA NextResultDealt ==
  ASSUME NEW K, NEW acc \in Outcomes(K), NEW start \in Outcomes(K), NEW d \in K, NEW new,
         NEW s \in Secrets, \A k \in new : k.detector = d,
         \A k \in start.chunkSecrets : k.detector # d, d \notin start.keysWithResults,
         ToSet(start.direct) \subseteq start.chunkSecrets, Dealt(acc, start, new, d)
  PROVE  Dealt(NextResult(acc, [secret |-> s, detector |-> d]), start,
               new \cup {[secret |-> s, detector |-> d]}, d)
  <1> DEFINE key == [secret |-> s, detector |-> d]
             next == NextResult(acc, key)
             dup == LikelyDuplicate(key, start.chunkSecrets)
  <1>1. key \in KeysOf(K) /\ key.detector = d /\ acc.direct \in Seq(KeysOf(K))
    BY DEF KeysOf, Outcomes
  <1> HIDE DEF key
  <1>2. LikelyDuplicate(key, acc.chunkSecrets) <=> dup
    BY <1>1 DEF LikelyDuplicate, Dealt
  <1>3. CASE key \in acc.chunkSecrets
    <2>1. next = acc
      BY <1>3 DEF NextResult
    <2>2. new \cup {key} = new
      BY <1>1, <1>3 DEF Dealt
    <2> QED BY <2>1, <2>2 DEF key
  <1>4. CASE key \notin acc.chunkSecrets
    <2>1. ToSet(acc.direct) \subseteq acc.chunkSecrets
      BY DEF Dealt
    <2>2. /\ next.chunkSecrets = acc.chunkSecrets \cup {key}
          /\ next.direct = IF dup THEN Append(acc.direct, key) ELSE acc.direct
          /\ next.keysWithResults = IF dup THEN acc.keysWithResults \ {d} ELSE acc.keysWithResults
      BY <1>1, <1>2, <1>4 DEF NextResult
    <2> HIDE DEF next, dup
    <2>3. next.chunkSecrets = start.chunkSecrets \cup (new \cup {key})
      BY <2>2 DEF Dealt
    <2>4. /\ ToSet(next.direct) = ToSet(acc.direct) \cup (IF dup THEN {key} ELSE {})
          /\ IsInjective(next.direct)
      BY <1>1, <1>4, <2>1, <2>2, AppendElement DEF Dealt
    <2>5. ToSet(next.direct) = ToSet(start.direct)
            \cup {k \in new \cup {key} : LikelyDuplicate(k, start.chunkSecrets)}
      BY <2>4 DEF Dealt, dup
    <2>6. next.keysWithResults = start.keysWithResults \cup
            (IF \E k \in new \cup {key} : LikelyDuplicate(k, start.chunkSecrets) THEN {} ELSE {d})
      <3>1. CASE dup
        <4>1. \E k \in new \cup {key} : LikelyDuplicate(k, start.chunkSecrets)
          BY <3>1 DEF dup
        <4>2. acc.keysWithResults \ {d} = start.keysWithResults
          BY DEF Dealt
        <4> QED BY <2>2, <3>1, <4>1, <4>2
      <3>2. CASE ~dup
        <4>1. (\E k \in new \cup {key} : LikelyDuplicate(k, start.chunkSecrets))
                <=> \E k \in new : LikelyDuplicate(k, start.chunkSecrets)
          BY <3>2 DEF dup
        <4> QED BY <2>2, <3>2, <4>1 DEF Dealt
      <3> QED BY <3>1, <3>2
    <2> QED BY <2>3, <2>4, <2>5, <2>6 DEF Dealt, next, key
  <1> QED BY <1>3, <1>4

Added(next, acc, d, new) ==
  /\ next.chunkSecrets = acc.chunkSecrets \cup new
  /\ ToSet(next.direct) = ToSet(acc.direct) \cup {k \in new : LikelyDuplicate(k, acc.chunkSecrets)}
  /\ IsInjective(next.direct)
  /\ next.keysWithResults = acc.keysWithResults \cup
       (IF new # {} /\ \A k \in new : ~LikelyDuplicate(k, acc.chunkSecrets) THEN {d} ELSE {})

\* One detector, after others: what it found is added, what has a twin is reported.
LEMMA NextDetectorAdds ==
  ASSUME NEW K, NEW acc \in Outcomes(K), NEW d \in K, NEW found, found[d] \in Seq(Secrets),
         \A k \in acc.chunkSecrets : k.detector # d, d \notin acc.keysWithResults,
         ToSet(acc.direct) \subseteq acc.chunkSecrets, IsInjective(acc.direct)
  PROVE  Added(NextDetector(acc, d, found), acc, d, KeysFrom(d, found[d]))
  <1> DEFINE q == found[d]
             n == Len(q)
             start == [acc EXCEPT !.keysWithResults = @ \cup {d}]
             next == NextDetector(acc, d, found)
             new == KeysFrom(d, q)
             Upto(i) == {[secret |-> q[l], detector |-> d] : l \in 1..i}
  <1>1. q \in Seq(Secrets) /\ n \in Nat /\ DOMAIN q = 1..n /\ \A i \in 1..n : q[i] \in Secrets
    OBVIOUS
  <1>2. new = Upto(n)
    <2>1. ToSet(q) = {q[l] : l \in 1..n}
      BY <1>1 DEF ToSet
    <2> HIDE DEF q, n
    <2>2. ASSUME NEW k \in new PROVE k \in Upto(n)
      <3>1. k.secret \in ToSet(q) /\ k = [secret |-> k.secret, detector |-> d]
        BY DEF KeysFrom
      <3>2. PICK l \in 1..n : q[l] = k.secret
        BY <2>1, <3>1
      <3> QED BY <3>1, <3>2
    <2>3. ASSUME NEW l \in 1..n PROVE [secret |-> q[l], detector |-> d] \in new
      <3>1. q[l] \in ToSet(q)
        BY <2>1
      <3> QED BY <3>1 DEF KeysFrom
    <2> HIDE DEF new
    <2> QED BY <2>2, <2>3
  <1>3. CASE q = <<>>
    <2>1. next = acc
      BY <1>3 DEF NextDetector
    <2>2. n = 0
      BY <1>3
    <2> HIDE DEF next, q, n, new
    <2>3. new = {}
      BY <1>2, <2>2
    <2>4. Added(acc, acc, d, {})
      BY DEF Added
    <2> QED BY <2>1, <2>3, <2>4 DEF next, new, q
  <1>4. CASE q # <<>>
    <2>1. /\ start \in Outcomes(K) /\ start.direct = acc.direct /\ start.chunkSecrets = acc.chunkSecrets
          /\ start.keysWithResults = acc.keysWithResults \cup {d}
      BY DEF Outcomes
    <2>2. next = ResultsFrom(start, d, q)
      BY <1>4 DEF NextDetector, ResultsFrom, FoldLeft, MapThenFoldSet
    <2>3. n # 0
      BY <1>1, <1>4, EmptySeq
    <2> HIDE DEF start, next, q
    <2>4. PICK h \in [0..Len(q) -> Outcomes(K)] :
             /\ h[0] = start /\ h[Len(q)] = ResultsFrom(start, d, q)
             /\ \A i \in 1..Len(q) : h[i] = NextResult(h[i - 1], [secret |-> q[i], detector |-> d])
      BY <1>1, <2>1, ResultsSteps
    <2>5. /\ h \in [0..n -> Outcomes(K)] /\ h[0] = start /\ h[n] = next
          /\ \A i \in 1..n : h[i] = NextResult(h[i - 1], [secret |-> q[i], detector |-> d])
      BY <2>2, <2>4
    <2> HIDE DEF n, new
    <2> DEFINE G == {i \in 0..n : Dealt(h[i], acc, Upto(i), d)}
    <2>6. 0 \in G
      <3>1. 0 \in 0..n /\ Upto(0) = {}
        BY <1>1
      <3>2. Dealt(start, acc, {}, d)
        BY <2>1 DEF Dealt
      <3> QED BY <2>5, <3>1, <3>2
    <2>7. ASSUME NEW i \in 1..n, i - 1 \in G PROVE i \in G
      <3>1. i - 1 \in 0..n /\ i \in 0..n /\ q[i] \in Secrets
        BY <1>1
      <3>2. Upto(i) = Upto(i - 1) \cup {[secret |-> q[i], detector |-> d]}
        <4>1. 1..i = (1..(i - 1)) \cup {i}
          BY <1>1
        <4> QED BY <4>1
      <3>3. h[i - 1] \in Outcomes(K) /\ Dealt(h[i - 1], acc, Upto(i - 1), d)
        BY <2>5, <2>7, <3>1
      <3>4. \A k \in Upto(i - 1) : k.detector = d
        OBVIOUS
      <3> HIDE DEF Upto
      <3>5. Dealt(NextResult(h[i - 1], [secret |-> q[i], detector |-> d]), acc,
                  Upto(i - 1) \cup {[secret |-> q[i], detector |-> d]}, d)
        BY <3>1, <3>3, <3>4, NextResultDealt
      <3> QED BY <2>5, <3>1, <3>2, <3>5
    <2>8. n \in G
      <3> HIDE DEF G
      <3>1. n \in 0..n /\ \A i \in 1..n : i - 1 \in G => i \in G
        BY <1>1, <2>7
      <3> QED BY <1>1, <2>6, <3>1, UpTo
    <2>9. Dealt(next, acc, new, d)
      BY <1>2, <2>5, <2>8
    <2>10. new # {}
      <3>1. n \in 1..n
        BY <1>1, <2>3
      <3> QED BY <1>2, <3>1
    <2> HIDE DEF G, Upto
    <2>11. (\E k \in new : LikelyDuplicate(k, acc.chunkSecrets))
             <=> ~(new # {} /\ \A k \in new : ~LikelyDuplicate(k, acc.chunkSecrets))
      BY <2>10
    <2>12. Added(next, acc, d, new)
      BY <2>9, <2>11 DEF Dealt, Added
    <2> QED BY <2>12 DEF next, new, q
  <1> QED BY <1>3, <1>4

Settled(acc, order, found, i) ==
  /\ acc.chunkSecrets = KeysUpTo(order, found, i)
  /\ ToSet(acc.direct) = {k \in KeysUpTo(order, found, i) : TwinAhead(order, found, k.detector, k.secret)}
  /\ IsInjective(acc.direct)
  /\ acc.keysWithResults =
       {d \in {order[l] : l \in 1..i} : /\ found[d] # <<>>
                                        /\ \A s \in ToSet(found[d]) : ~TwinAhead(order, found, d, s)}

\* Among the keys of the detectors before it are the likely duplicates of a detector's
\* finding exactly if it has a twin.
LEMMA TwinIsAhead ==
  ASSUME NEW K, NEW order \in Seq(K), IsInjective(order), NEW found,
         NEW i \in 1..Len(order), NEW s
  PROVE  LikelyDuplicate([secret |-> s, detector |-> order[i]], KeysUpTo(order, found, i - 1))
           <=> TwinAhead(order, found, order[i], s)
  <1> DEFINE n == Len(order)
             d == order[i]
             key == [secret |-> s, detector |-> d]
             before == KeysUpTo(order, found, i - 1)
  <1>1. n \in Nat /\ DOMAIN order = 1..n /\ i \in 1..n
    OBVIOUS
  <1>2. key.secret = s /\ key.detector = d
    OBVIOUS
  <1>3. \A j \in 1..n : order[j] = d => j = i
    BY <1>1 DEF IsInjective
  <1> HIDE DEF n, d, key
  <1>4. \A l \in 1..n : l < i <=> l \in 1..(i - 1)
    BY <1>1
  <1>5. \A l \in 1..(i - 1) : l \in 1..n
    BY <1>1
  <1>6. ASSUME LikelyDuplicate(key, before) PROVE TwinAhead(order, found, d, s)
    <2>1. PICK dupe \in before : /\ DetectorType[dupe.detector] # DetectorType[d]
                                 /\ <<s, dupe.secret>> \in Similar
      BY <1>2, <1>6 DEF LikelyDuplicate
    <2>2. PICK l \in 1..(i - 1) : dupe \in KeysFrom(order[l], found[order[l]])
      BY <2>1 DEF KeysUpTo
    <2>3. dupe.detector = order[l] /\ dupe.secret \in ToSet(found[order[l]])
      BY <2>2 DEF KeysFrom
    <2>4. l < i /\ l \in DOMAIN order /\ i \in DOMAIN order
      BY <1>1, <1>4, <1>5
    <2> QED BY <2>1, <2>3, <2>4 DEF TwinAhead, d
  <1>7. ASSUME TwinAhead(order, found, d, s) PROVE LikelyDuplicate(key, before)
    <2>1. PICK l, j \in DOMAIN order :
            /\ l < j /\ order[j] = d /\ DetectorType[order[l]] # DetectorType[d]
            /\ \E t \in ToSet(found[order[l]]) : <<s, t>> \in Similar
      BY <1>7 DEF TwinAhead
    <2>2. j = i /\ l \in 1..(i - 1)
      BY <1>1, <1>3, <1>4, <2>1
    <2>3. PICK t \in ToSet(found[order[l]]) : <<s, t>> \in Similar
      BY <2>1
    <2> DEFINE dupe == [secret |-> t, detector |-> order[l]]
    <2>4. dupe \in KeysFrom(order[l], found[order[l]])
      BY DEF KeysFrom
    <2>5. dupe \in before
      BY <2>2, <2>4 DEF KeysUpTo
    <2>6. dupe.detector = order[l] /\ dupe.secret = t
      OBVIOUS
    <2> HIDE DEF before, dupe
    <2> QED BY <1>2, <2>1, <2>3, <2>5, <2>6 DEF LikelyDuplicate
  <1> QED BY <1>6, <1>7 DEF key, d, before

\* After i detectors everything is as if the loop had been theirs alone.
LEMMA NextDetectorSettled ==
  ASSUME NEW K, NEW order \in Seq(K), IsInjective(order), NEW found,
         \A d \in K : found[d] \in Seq(Secrets), NEW i \in 1..Len(order),
         NEW acc \in Outcomes(K), Settled(acc, order, found, i - 1)
  PROVE  Settled(NextDetector(acc, order[i], found), order, found, i)
  <1> DEFINE n == Len(order)
             d == order[i]
             next == NextDetector(acc, d, found)
             new == KeysFrom(d, found[d])
             before == KeysUpTo(order, found, i - 1)
             T(k) == TwinAhead(order, found, k.detector, k.secret)
  <1>1. n \in Nat /\ DOMAIN order = 1..n /\ i \in 1..n /\ d \in K /\ found[d] \in Seq(Secrets)
    OBVIOUS
  <1>2. \A l \in 1..(i - 1) : l \in 1..n /\ order[l] # d
    BY <1>1 DEF IsInjective
  <1>3. 1..i = (1..(i - 1)) \cup {i}
    BY <1>1
  <1> HIDE DEF n
  <1>4. KeysUpTo(order, found, i) = before \cup new
    BY <1>3 DEF KeysUpTo
  <1>5. acc.chunkSecrets = before
    BY DEF Settled
  <1>6. \A k \in new : k.detector = d /\ k.secret \in ToSet(found[d])
    BY DEF KeysFrom
  <1>7. \A k \in acc.chunkSecrets : k.detector # d
    <2>1. ASSUME NEW k \in before PROVE k.detector # d
      <3>1. PICK l \in 1..(i - 1) : k \in KeysFrom(order[l], found[order[l]])
        BY DEF KeysUpTo
      <3> QED BY <1>2, <3>1 DEF KeysFrom
    <2> QED BY <1>5, <2>1
  <1>8. d \notin acc.keysWithResults
    BY <1>2 DEF Settled
  <1>9. ToSet(acc.direct) \subseteq acc.chunkSecrets /\ IsInjective(acc.direct)
    BY DEF Settled
  <1>10. \A k \in new : LikelyDuplicate(k, acc.chunkSecrets) <=> T(k)
    <2>1. ASSUME NEW k \in new PROVE LikelyDuplicate(k, before) <=> T(k)
      <3>1. k.detector = d /\ k = [secret |-> k.secret, detector |-> d]
        BY DEF KeysFrom
      <3> QED BY <3>1, TwinIsAhead
    <2> QED BY <1>5, <2>1
  <1> HIDE DEF d
  <1>11. Added(next, acc, d, new)
    BY <1>1, <1>7, <1>8, <1>9, NextDetectorAdds
  <1> HIDE DEF next
  <1>12. ToSet(next.direct) = {k \in KeysUpTo(order, found, i) : T(k)}
    <2>1. ToSet(acc.direct) = {k \in before : T(k)}
      BY DEF Settled
    <2> HIDE DEF before, new, T
    <2> QED BY <1>4, <1>10, <1>11, <2>1 DEF Added
  <1>13. next.keysWithResults =
           {e \in {order[l] : l \in 1..i} : /\ found[e] # <<>>
                                            /\ \A s \in ToSet(found[e]) : ~TwinAhead(order, found, e, s)}
    <2> DEFINE Free(e) == found[e] # <<>> /\ \A s \in ToSet(found[e]) : ~TwinAhead(order, found, e, s)
    <2>1. acc.keysWithResults = {e \in {order[l] : l \in 1..(i - 1)} : Free(e)}
      BY DEF Settled
    <2>2. {order[l] : l \in 1..i} = {order[l] : l \in 1..(i - 1)} \cup {d}
      BY <1>3 DEF d
    <2>3. new # {} <=> found[d] # <<>>
      <3>1. CASE found[d] = <<>>
        <4>1. ToSet(found[d]) = {}
          BY <3>1 DEF ToSet
        <4> QED BY <3>1, <4>1 DEF KeysFrom
      <3>2. CASE found[d] # <<>>
        <4>1. 1 \in DOMAIN found[d]
          BY <1>1, <3>2, EmptySeq
        <4>2. found[d][1] \in ToSet(found[d])
          BY <4>1 DEF ToSet
        <4>3. [secret |-> found[d][1], detector |-> d] \in new
          BY <4>2 DEF KeysFrom
        <4> QED BY <3>2, <4>3
      <3> QED BY <3>1, <3>2
    <2>4. (\A k \in new : ~T(k)) <=> \A s \in ToSet(found[d]) : ~TwinAhead(order, found, d, s)
      <3>1. ASSUME NEW s \in ToSet(found[d]), \A k \in new : ~T(k) PROVE ~TwinAhead(order, found, d, s)
        <4>1. [secret |-> s, detector |-> d] \in new
          BY DEF KeysFrom
        <4> QED BY <3>1, <4>1
      <3> QED BY <1>6, <3>1
    <2>5. (new # {} /\ \A k \in new : ~LikelyDuplicate(k, acc.chunkSecrets)) <=> Free(d)
      <3> HIDE DEF new, T
      <3> QED BY <1>10, <2>3, <2>4
    <2> HIDE DEF Free, new
    <2>6. next.keysWithResults = {e \in {order[l] : l \in 1..i} : Free(e)}
      BY <1>11, <2>1, <2>2, <2>5 DEF Added
    <2> QED BY <2>6 DEF Free
  <1>14. next.chunkSecrets = KeysUpTo(order, found, i)
    BY <1>4, <1>5, <1>11 DEF Added
  <1>15. IsInjective(next.direct)
    BY <1>11 DEF Added
  <1> QED BY <1>12, <1>13, <1>14, <1>15 DEF Settled, next, d

(***************************************************************************)
(* What the loop of an overlap worker computes about detectors that are    *)
(* each run once: the findings that have a twin are reported, each once,   *)
(* and the detectors run again are those that found something and whose    *)
(* findings have none.                                                     *)
(***************************************************************************)
THEOREM AnalyseComputes ==
  ASSUME NEW K, NEW order \in Seq(K), IsInjective(order), NEW found,
         \A d \in K : found[d] \in Seq(Secrets)
  PROVE  Settled(Analyse(order, found), order, found, Len(order))
  <1> DEFINE n == Len(order)
  <1>1. PICK h \in [0..n -> Outcomes(K)] : Trace(h, order, found)
    BY AnalyseSteps
  <1>2. /\ n \in Nat /\ h[0] = NoOutcome /\ h[n] = Analyse(order, found)
        /\ \A i \in 1..n : h[i] = NextDetector(h[i - 1], order[i], found)
    BY <1>1 DEF Trace
  <1> DEFINE G == {i \in 0..n : Settled(h[i], order, found, i)}
  <1>3. 0 \in G
    <2>1. KeysUpTo(order, found, 0) = {} /\ {order[l] : l \in 1..0} = {} /\ 0 \in 0..n
      BY <1>2 DEF KeysUpTo
    <2>2. ToSet(<<>>) = {} /\ IsInjective(<<>>)
      BY DEF ToSet, IsInjective
    <2>3. Settled(NoOutcome, order, found, 0)
      BY <2>1, <2>2 DEF Settled, NoOutcome
    <2> QED BY <1>2, <2>1, <2>3
  <1>4. ASSUME NEW i \in 1..n, i - 1 \in G PROVE i \in G
    <2>1. i - 1 \in 0..n /\ i \in 0..n
      BY <1>2
    <2>2. h[i - 1] \in Outcomes(K) /\ Settled(h[i - 1], order, found, i - 1)
      BY <1>1, <1>4, <2>1
    <2> QED BY <1>2, <2>1, <2>2, NextDetectorSettled
  <1>5. n \in G
    <2> HIDE DEF G, n
    <2>1. n \in 0..n /\ \A i \in 1..n : i - 1 \in G => i \in G
      BY <1>2, <1>4
    <2> QED BY <1>2, <1>3, <2>1, UpTo
  <1> QED BY <1>2, <1>5

\* Every detector has one place in an order of all detectors.
LEMMA OrderOfDetectors ==
  ASSUME IsFiniteSet(Detectors), NEW q \in SetToSeqs(Detectors)
  PROVE  /\ q \in Seq(Detectors) /\ IsInjective(q)
         /\ {q[l] : l \in 1..Len(q)} = Detectors
  <1> DEFINE n == Cardinality(Detectors)
  <1>1. n \in Nat
    BY FS_CardinalityType
  <1>2. q \in [1..n -> Detectors] /\ \A i, j \in 1..n : i # j => q[i] # q[j]
    BY DEF SetToSeqs
  <1>3. IsFiniteSet(1..n) /\ Cardinality(1..n) = n
    BY <1>1, FS_Interval
  <1>4. q \in Injection(1..n, Detectors)
    BY <1>2 DEF Injection, IsInjective
  <1>5. q \in Surjection(1..n, Detectors)
    BY <1>3, <1>4, FS_Injection
  <1>6. q \in Seq(Detectors) /\ Len(q) = n
    BY <1>1, <1>2
  <1> HIDE DEF n
  <1>7. {q[l] : l \in 1..n} = Detectors
    BY <1>2, <1>5 DEF Surjection
  <1>8. IsInjective(q)
    BY <1>2 DEF IsInjective
  <1> QED BY <1>6, <1>7, <1>8

WorkerInv ==
  /\ chunkDetectors \in SetToSeqs(Detectors)
  /\ \A d \in Detectors : chunkFindings[d] \in Seq(Secrets)
  /\ chunkOutcome = NoOutcome \/ chunkOutcome = Analyse(chunkDetectors, chunkFindings)

\* An outcome is always that of the whole loop.
LEMMA WorkerInvariant == AnalysisSpec => []WorkerInv
  <1>1. ASSUME AnalysisInit PROVE WorkerInv
    <2>1. ASSUME NEW d \in Detectors PROVE chunkFindings[d] \in Seq(Secrets)
      <3>1. chunkFindings \in [Detectors -> Findings]
        BY <1>1 DEF AnalysisInit
      <3>2. PICK m \in 0..MaxFound : chunkFindings[d] \in [1..m -> Secrets]
        BY <3>1 DEF Findings
      <3> QED BY <3>2
    <2> QED BY <1>1, <2>1 DEF AnalysisInit, WorkerInv
  <1>2. ASSUME WorkerInv, [AnalysisNext]_analysisVars PROVE WorkerInv'
    <2>1. chunkDetectors' = chunkDetectors /\ chunkFindings' = chunkFindings
      BY <1>2 DEF AnalysisNext, AnalyseChunk, NextChunk, analysisVars
    <2>2. chunkOutcome' \in {chunkOutcome, NoOutcome, Analyse(chunkDetectors, chunkFindings)}
      BY <1>2 DEF AnalysisNext, AnalyseChunk, NextChunk, analysisVars
    <2>3. NoOutcome' = NoOutcome
      BY DEF NoOutcome
    <2>4. (Analyse(chunkDetectors, chunkFindings))' = Analyse(chunkDetectors, chunkFindings)
      BY <2>1
    <2> QED BY <1>2, <2>1, <2>2, <2>3, <2>4 DEF WorkerInv
  <1> QED BY <1>1, <1>2, PTL DEF AnalysisSpec

\* Position finds what TwinAhead ranges over.
LEMMA TwinsAgree ==
  ASSUME IsFiniteSet(Detectors), WorkerInv, NEW d \in Detectors, NEW s
  PROVE  HasTwin(d, s) <=> TwinAhead(chunkDetectors, chunkFindings, d, s)
  <1>1. /\ chunkDetectors \in Seq(Detectors) /\ IsInjective(chunkDetectors) /\ DOMAIN chunkDetectors = 1..Len(chunkDetectors)
        /\ {chunkDetectors[l] : l \in 1..Len(chunkDetectors)} = Detectors
    <2>1. chunkDetectors \in SetToSeqs(Detectors)
      BY DEF WorkerInv
    <2>2. chunkDetectors \in Seq(Detectors) /\ IsInjective(chunkDetectors) /\ {chunkDetectors[l] : l \in 1..Len(chunkDetectors)} = Detectors
      BY <2>1, OrderOfDetectors
    <2>3. DOMAIN chunkDetectors = 1..Len(chunkDetectors)
      BY <2>2
    <2> QED BY <2>2, <2>3
  <1>2. \A e \in Detectors : Position(e) \in DOMAIN chunkDetectors /\ chunkDetectors[Position(e)] = e
    BY <1>1 DEF Position
  <1>3. \A l \in DOMAIN chunkDetectors : chunkDetectors[l] \in Detectors /\ Position(chunkDetectors[l]) = l
    <2>1. \A l \in DOMAIN chunkDetectors : chunkDetectors[l] \in Detectors
      BY <1>1
    <2> QED BY <1>1, <1>2, <2>1 DEF IsInjective
  <1>4. ASSUME HasTwin(d, s) PROVE TwinAhead(chunkDetectors, chunkFindings, d, s)
    <2>1. PICK e \in Detectors :
            /\ Position(e) < Position(d) /\ DetectorType[e] # DetectorType[d]
            /\ \E t \in ToSet(chunkFindings[e]) : <<s, t>> \in Similar
      BY <1>4 DEF HasTwin
    <2> QED BY <1>2, <2>1 DEF TwinAhead
  <1>5. ASSUME TwinAhead(chunkDetectors, chunkFindings, d, s) PROVE HasTwin(d, s)
    <2>1. PICK i, j \in DOMAIN chunkDetectors :
            /\ i < j /\ chunkDetectors[j] = d /\ DetectorType[chunkDetectors[i]] # DetectorType[d]
            /\ \E t \in ToSet(chunkFindings[chunkDetectors[i]]) : <<s, t>> \in Similar
      BY <1>5 DEF TwinAhead
    <2> QED BY <1>3, <2>1 DEF HasTwin
  <1> QED BY <1>4, <1>5

\* The outcome, in the words of VerificationOverlap.
LEMMA WorkerOutcome ==
  ASSUME IsFiniteSet(Detectors), WorkerInv, Analysed
  PROVE  /\ ToSet(chunkOutcome.direct) = {k \in SecretKey : /\ k.secret \in ToSet(chunkFindings[k.detector])
                                                       /\ HasTwin(k.detector, k.secret)}
         /\ IsInjective(chunkOutcome.direct)
         /\ chunkOutcome.keysWithResults =
              {d \in Detectors : chunkFindings[d] # <<>> /\ \A s \in ToSet(chunkFindings[d]) : ~HasTwin(d, s)}
  <1> DEFINE n == Len(chunkDetectors)
  <1>1. /\ chunkDetectors \in Seq(Detectors) /\ IsInjective(chunkDetectors)
        /\ {chunkDetectors[l] : l \in 1..n} = Detectors
        /\ \A d \in Detectors : chunkFindings[d] \in Seq(Secrets)
    BY OrderOfDetectors DEF WorkerInv
  <1>2. chunkOutcome = Analyse(chunkDetectors, chunkFindings)
    BY DEF WorkerInv, Analysed
  <1>3. Settled(chunkOutcome, chunkDetectors, chunkFindings, n)
    BY <1>1, <1>2, AnalyseComputes
  <1> HIDE DEF n
  <1>4. KeysUpTo(chunkDetectors, chunkFindings, n) = {k \in SecretKey : k.secret \in ToSet(chunkFindings[k.detector])}
    <2>1. KeysUpTo(chunkDetectors, chunkFindings, n) = UNION {KeysFrom(d, chunkFindings[d]) : d \in Detectors}
      <3>1. ASSUME NEW l \in 1..n PROVE chunkDetectors[l] \in Detectors
        BY <1>1
      <3>2. ASSUME NEW d \in Detectors PROVE \E l \in 1..n : chunkDetectors[l] = d
        BY <1>1
      <3> QED BY <3>1, <3>2 DEF KeysUpTo
    <2>2. \A d \in Detectors : ToSet(chunkFindings[d]) \subseteq Secrets
      BY <1>1 DEF ToSet
    <2>3. UNION {KeysFrom(d, chunkFindings[d]) : d \in Detectors}
            = {k \in SecretKey : k.secret \in ToSet(chunkFindings[k.detector])}
      BY <2>2 DEF KeysFrom, SecretKey
    <2> QED BY <2>1, <2>3
  <1>5. \A k \in SecretKey : k.detector \in Detectors
    BY DEF SecretKey
  <1>6. \A d \in Detectors : \A s : HasTwin(d, s) <=> TwinAhead(chunkDetectors, chunkFindings, d, s)
    BY TwinsAgree
  <1>7. ToSet(chunkOutcome.direct) = {k \in SecretKey : /\ k.secret \in ToSet(chunkFindings[k.detector])
                                                   /\ HasTwin(k.detector, k.secret)}
    BY <1>3, <1>4, <1>5, <1>6 DEF Settled
  <1>8. chunkOutcome.keysWithResults =
          {d \in Detectors : chunkFindings[d] # <<>> /\ \A s \in ToSet(chunkFindings[d]) : ~HasTwin(d, s)}
    BY <1>1, <1>3, <1>6 DEF Settled
  <1> QED BY <1>3, <1>7, <1>8 DEF Settled

(***************************************************************************)
(* Verification is disabled for a finding exactly when an earlier detector *)
(* of another type found a similar secret, once per secret, for any        *)
(* finite set of detectors in any order, any findings and any similarity.  *)
(***************************************************************************)
THEOREM DisabledExactly == AnalysisSpec => []DisabledIffTwin
  <1>1. WorkerInv => DisabledIffTwin
    BY OverlapAssumption, WorkerOutcome DEF DisabledIffTwin, DirectKeys
  <1> QED BY <1>1, WorkerInvariant, PTL

(***************************************************************************)
(* A detector is run again with verification exactly when it found         *)
(* something and none of its findings has a twin.                          *)
(***************************************************************************)
THEOREM ReverifiedExactly == AnalysisSpec => []ReverifiedIffNoTwin
  <1>1. WorkerInv => ReverifiedIffNoTwin
    BY OverlapAssumption, WorkerOutcome DEF ReverifiedIffNoTwin
  <1> QED BY <1>1, WorkerInvariant, PTL

----------------------------------------------------------------------------
(***************************************************************************)
(* What the deduplication of results keeps and drops, for any results,     *)
(* keys, decoders, notifiers and size of the cache.                        *)
(***************************************************************************)
Entries == [key : {Key[r] : r \in Results}, decoder : {Decoder[r] : r \in Results}]

\* What the cache always is: it holds a key once.
Distinct(s) == \A i, j \in 1..Len(s) : s[i].key = s[j].key => i = j
CacheOK(s) == s \in Seq(Entries) /\ Distinct(s) /\ Len(s) <= CacheSize

----------------------------------------------------------------------------
(* The operations of the cache.                                            *)

LEMMA RemoveAtFacts ==
  ASSUME NEW S, NEW s \in Seq(S), NEW i \in 1..Len(s)
  PROVE  /\ RemoveAt(s, i) \in Seq(S) /\ Len(RemoveAt(s, i)) = Len(s) - 1
         /\ \A j \in 1..(Len(s) - 1) : RemoveAt(s, i)[j] = s[IF j < i THEN j ELSE j + 1]
<1> DEFINE a == SubSeq(s, 1, i - 1)
           b == SubSeq(s, i + 1, Len(s))
<1>1. Len(s) \in Nat /\ \A j \in 1..Len(s) : s[j] \in S
  BY ElementOfSeq
<1>2. a \in Seq(S) /\ Len(a) = i - 1 /\ \A j \in 1..(i - 1) : a[j] = s[j]
  BY <1>1, SubSeqProperties
<1>3. /\ b \in Seq(S) /\ Len(b) = Len(s) - i
      /\ \A j \in 1..(Len(s) - i) : b[j] = s[i + j]
  BY <1>1, SubSeqProperties
<1> HIDE DEF a, b
<1>4. /\ a \o b \in Seq(S) /\ Len(a \o b) = Len(s) - 1
      /\ \A j \in 1..(Len(s) - 1) : (a \o b)[j] = IF j <= i - 1 THEN a[j] ELSE b[j - (i - 1)]
  <2>1. /\ a \o b \in Seq(S) /\ Len(a \o b) = Len(a) + Len(b)
        /\ \A j \in 1..(Len(a) + Len(b)) : (a \o b)[j] = IF j <= Len(a) THEN a[j] ELSE b[j - Len(a)]
    BY <1>2, <1>3, ConcatProperties
  <2>2. Len(a) = i - 1 /\ Len(a) + Len(b) = Len(s) - 1
    BY <1>1, <1>2, <1>3
  <2> QED BY <2>1, <2>2
<1>5. ASSUME NEW j \in 1..(Len(s) - 1) PROVE (a \o b)[j] = s[IF j < i THEN j ELSE j + 1]
  <2>1. CASE j < i
    <3>1. j <= i - 1 /\ j \in 1..(i - 1)
      BY <1>1, <2>1
    <3> QED BY <1>2, <1>4, <2>1, <3>1
  <2>2. CASE ~(j < i)
    <3>1. ~(j <= i - 1) /\ j - (i - 1) \in 1..(Len(s) - i) /\ i + (j - (i - 1)) = j + 1
      BY <1>1, <2>2
    <3> QED BY <1>3, <1>4, <2>2, <3>1
  <2> QED BY <2>1, <2>2
<1> QED BY <1>4, <1>5 DEF RemoveAt, a, b

LEMMA WithoutFacts ==
  ASSUME CacheOK(cache), NEW key
  PROVE  /\ Without(key) \in Seq(Entries) /\ Distinct(Without(key))
         /\ Len(Without(key)) = IF Known(key) THEN Len(cache) - 1 ELSE Len(cache)
         /\ ToSet(Without(key)) = {e \in ToSet(cache) : e.key # key}
<1>1. CASE ~Known(key)
  BY <1>1 DEF Without, Known, ToSet, CacheOK
<1>2. CASE Known(key)
  <2> DEFINE i == CacheIndex(key)
             w == RemoveAt(cache, i)
  <2>1. i \in 1..Len(cache) /\ cache[i].key = key /\ Len(cache) \in Nat
    BY <1>2 DEF Known, CacheIndex, CacheOK
  <2>2. /\ w \in Seq(Entries) /\ Len(w) = Len(cache) - 1 /\ Without(key) = w
        /\ \A j \in 1..(Len(cache) - 1) : w[j] = cache[IF j < i THEN j ELSE j + 1]
    BY <1>2, <2>1, RemoveAtFacts DEF CacheOK, Without
  <2> HIDE DEF w, i
  <2> DEFINE from(j) == IF j < i THEN j ELSE j + 1
  <2>3. \A j \in 1..(Len(cache) - 1) : from(j) \in 1..Len(cache) /\ from(j) # i /\ w[j] = cache[from(j)]
    BY <2>1, <2>2
  <2>4. \A j, k \in 1..(Len(cache) - 1) : from(j) = from(k) => j = k
    BY <2>1
  <2> HIDE DEF from
  <2>5. Distinct(w)
    <3> SUFFICES ASSUME NEW j \in 1..(Len(cache) - 1), NEW k \in 1..(Len(cache) - 1),
                        w[j].key = w[k].key
                 PROVE  j = k
      BY <2>2 DEF Distinct
    <3>1. cache[from(j)].key = cache[from(k)].key
      BY <2>3
    <3>2. from(j) = from(k)
      BY <2>3, <3>1 DEF CacheOK, Distinct
    <3> QED BY <2>4, <3>2
  <2>6. DOMAIN w = 1..(Len(cache) - 1) /\ DOMAIN cache = 1..Len(cache)
    BY <2>2 DEF CacheOK
  <2>7. ASSUME NEW j \in 1..(Len(cache) - 1) PROVE w[j] \in ToSet(cache) /\ w[j].key # key
    <3>1. cache[from(j)].key # key
      BY <2>1, <2>3 DEF CacheOK, Distinct
    <3>2. cache[from(j)] \in ToSet(cache)
      BY <2>3, <2>6 DEF ToSet
    <3> QED BY <2>3, <3>1, <3>2
  <2>8. ASSUME NEW j \in 1..Len(cache), cache[j].key # key PROVE cache[j] \in ToSet(w)
    <3>1. CASE j < i
      <4>1. j \in 1..(Len(cache) - 1)
        BY <2>1, <3>1
      <4>2. w[j] = cache[j]
        BY <2>2, <3>1, <4>1
      <4> QED BY <2>6, <4>1, <4>2 DEF ToSet
    <3>2. CASE j > i
      <4>1. j - 1 \in 1..(Len(cache) - 1) /\ w[j - 1] = cache[j]
        BY <2>1, <2>2, <3>2
      <4> QED BY <2>6, <4>1 DEF ToSet
    <3> QED BY <2>1, <2>8, <3>1, <3>2
  <2>9. ToSet(w) = {e \in ToSet(cache) : e.key # key}
    BY <2>6, <2>7, <2>8 DEF ToSet
  <2> QED BY <1>2, <2>2, <2>5, <2>9
<1> QED BY <1>1, <1>2

LEMMA AppendFacts ==
  ASSUME NEW s \in Seq(Entries), Distinct(s), NEW e \in Entries, \A f \in ToSet(s) : f.key # e.key
  PROVE  /\ Append(s, e) \in Seq(Entries) /\ Distinct(Append(s, e))
         /\ Len(Append(s, e)) = Len(s) + 1 /\ Append(s, e)[Len(s) + 1] = e
         /\ ToSet(Append(s, e)) = ToSet(s) \cup {e}
<1>1. /\ Append(s, e) \in Seq(Entries) /\ Len(Append(s, e)) = Len(s) + 1
      /\ Append(s, e)[Len(s) + 1] = e /\ \A i \in 1..Len(s) : Append(s, e)[i] = s[i]
      /\ Len(s) \in Nat
  BY AppendProperties
<1>2. DOMAIN s = 1..Len(s) /\ DOMAIN Append(s, e) = 1..(Len(s) + 1)
  BY <1>1
<1>3. \A i \in 1..(Len(s) + 1) : i \in 1..Len(s) \/ i = Len(s) + 1
  BY <1>1
<1>4. Distinct(Append(s, e))
  BY <1>1, <1>2, <1>3 DEF Distinct, ToSet
<1>5. ToSet(Append(s, e)) = ToSet(s) \cup {e}
  BY <1>1, <1>2, <1>3 DEF ToSet
<1> QED BY <1>1, <1>4, <1>5

LEMMA TailFacts ==
  ASSUME NEW s \in Seq(Entries), Distinct(s), Len(s) > 1
  PROVE  /\ Tail(s) \in Seq(Entries) /\ Distinct(Tail(s)) /\ Len(Tail(s)) = Len(s) - 1
         /\ ToSet(Tail(s)) \subseteq ToSet(s) /\ s[Len(s)] \in ToSet(Tail(s))
<1>1. /\ Tail(s) \in Seq(Entries) /\ Len(Tail(s)) = Len(s) - 1 /\ Len(s) \in Nat
      /\ \A i \in 1..(Len(s) - 1) : Tail(s)[i] = s[i + 1]
  BY HeadTailProperties
<1>2. DOMAIN s = 1..Len(s) /\ DOMAIN Tail(s) = 1..(Len(s) - 1)
  BY <1>1
<1>3. Distinct(Tail(s)) /\ ToSet(Tail(s)) \subseteq ToSet(s)
  BY <1>1, <1>2 DEF Distinct, ToSet
<1>4. Len(s) - 1 \in 1..(Len(s) - 1) /\ Tail(s)[Len(s) - 1] = s[Len(s)]
  BY <1>1
<1>5. s[Len(s)] \in ToSet(Tail(s))
  BY <1>2, <1>4 DEF ToSet
<1> QED BY <1>1, <1>3, <1>5

LEMMA EntryType ==
  ASSUME NEW r \in Results
  PROVE  Entry(r) \in Entries /\ Entry(r).key = Key[r] /\ Entry(r).decoder = Decoder[r]
BY DEF Entry, Entries

\* Add: the entry of the result is there, and what else there was, but for one key.
LEMMA RememberFacts ==
  ASSUME CacheOK(cache), NEW r \in Results
  PROVE  /\ CacheOK(Remember(r)) /\ Entry(r) \in ToSet(Remember(r))
         /\ ToSet(Remember(r)) \subseteq {e \in ToSet(cache) : e.key # Key[r]} \cup {Entry(r)}
<1> DEFINE w == Without(Key[r])
           added == Append(w, Entry(r))
<1>1. /\ w \in Seq(Entries) /\ Distinct(w) /\ Len(w) <= Len(cache) /\ Len(w) \in Nat
      /\ ToSet(w) = {e \in ToSet(cache) : e.key # Key[r]} /\ Len(cache) \in Nat
  BY WithoutFacts DEF CacheOK
<1>2. /\ added \in Seq(Entries) /\ Distinct(added) /\ Len(added) = Len(w) + 1
      /\ added[Len(w) + 1] = Entry(r) /\ ToSet(added) = ToSet(w) \cup {Entry(r)}
  <2>1. \A f \in ToSet(w) : f.key # Entry(r).key
    BY <1>1, EntryType
  <2> QED BY <1>1, <2>1, EntryType, AppendFacts
<1>3. CASE Len(added) > CacheSize
  <2>1. Len(added) > 1
    BY <1>2, <1>3, NotifierAssumption
  <2>2. /\ Remember(r) = Tail(added)
        /\ Tail(added) \in Seq(Entries) /\ Distinct(Tail(added))
        /\ Len(Tail(added)) = Len(added) - 1 /\ ToSet(Tail(added)) \subseteq ToSet(added)
        /\ added[Len(added)] \in ToSet(Tail(added))
    BY <1>2, <1>3, <2>1, TailFacts DEF Remember
  <2> HIDE DEF w, added
  <2> QED BY <1>1, <1>2, <2>2, NotifierAssumption DEF CacheOK
<1>4. CASE ~(Len(added) > CacheSize)
  <2>1. Remember(r) = added
    BY <1>4 DEF Remember
  <2> HIDE DEF w, added
  <2> QED BY <1>1, <1>2, <1>4, <2>1, NotifierAssumption DEF CacheOK
<1> QED BY <1>3, <1>4

\* Get: the entries are the same.
LEMMA RefreshFacts ==
  ASSUME CacheOK(cache), NEW r \in Results
  PROVE  CacheOK(Refresh(r)) /\ ToSet(Refresh(r)) = ToSet(cache)
<1>1. CASE ~Known(Key[r])
  BY <1>1 DEF Refresh
<1>2. CASE Known(Key[r])
  <2> DEFINE e == cache[CacheIndex(Key[r])]
             w == Without(Key[r])
  <2>1. /\ CacheIndex(Key[r]) \in DOMAIN cache /\ e.key = Key[r]
    BY <1>2 DEF Known, CacheIndex
  <2>6. e \in ToSet(cache) /\ e \in Entries
    <3>1. CacheIndex(Key[r]) \in 1..Len(cache)
      BY <2>1 DEF CacheOK
    <3> QED BY <2>1, <3>1, ElementOfSeq DEF CacheOK, ToSet
  <2>2. /\ w \in Seq(Entries) /\ Distinct(w) /\ Len(w) = Len(cache) - 1
        /\ ToSet(w) = {f \in ToSet(cache) : f.key # Key[r]}
    BY <1>2, WithoutFacts
  <2>3. Refresh(r) = Append(w, e)
    BY <1>2 DEF Refresh
  <2> HIDE DEF e, w
  <2>4. /\ Append(w, e) \in Seq(Entries) /\ Distinct(Append(w, e))
        /\ Len(Append(w, e)) = Len(w) + 1 /\ ToSet(Append(w, e)) = ToSet(w) \cup {e}
    BY <2>1, <2>2, <2>6, AppendFacts
  <2>5. \A f \in ToSet(cache) : f.key = Key[r] => f = e
    BY <2>1 DEF CacheOK, Distinct, ToSet, e
  <2> QED BY <2>1, <2>2, <2>3, <2>4, <2>5, <2>6 DEF CacheOK
<1> QED BY <1>1, <1>2

LEMMA OneEntryPerKey ==
  ASSUME CacheOK(cache), NEW e \in ToSet(cache), NEW f \in ToSet(cache), e.key = f.key
  PROVE  e = f
BY DEF CacheOK, Distinct, ToSet

----------------------------------------------------------------------------
(***************************************************************************)
(* The inductive invariant.  Every entry of the cache is that of a result  *)
(* which is printed or about to be; every result that has been received is *)
(* still worked on, or one of its key is; and as long as nothing disturbs  *)
(* the entry of a key, it has the decoder of all that is printed for it.   *)
(***************************************************************************)
Working == {held[n] : n \in {m \in NotifierWorkers : at[m] # "receive"}}
Passed == printed \cup {held[n] : n \in {m \in NotifierWorkers : at[m] = "print"}}
Received == WantedResults \ incoming

NotifyTypes ==
  /\ incoming \subseteq Results /\ printed \subseteq Received
  /\ held \in [NotifierWorkers -> Results \cup {NoResult}]
  /\ at \in [NotifierWorkers -> {"receive", "get", "add", "print"}]
  /\ Working \subseteq Received
  /\ CacheOK(cache) /\ numFoundResults \in Nat

Backed ==
  /\ \A e \in ToSet(cache) : \E p \in Passed : Key[p] = e.key
  /\ \A r \in Received : r \in Working \/ \E p \in Passed : Key[p] = Key[r]
  /\ numFoundResults > 0 => Working \cup Passed # {}

Undisturbed(r) == Key[r] \notin disturbed
OneDecoder ==
  /\ \A r \in Passed : Undisturbed(r) => Entry(r) \in ToSet(cache)
  /\ \A r, s \in Passed \cap Postman : r # s /\ Key[r] = Key[s] => ~Undisturbed(r)
  /\ \A r \in Received \ Postman : Undisturbed(r) =>
       \/ r \in Working \cup printed
       \/ \E e \in ToSet(cache) : e.key = Key[r] /\ e.decoder # Decoder[r]

NotifyInv == NotifyTypes /\ Backed /\ OneDecoder

----------------------------------------------------------------------------
(* The steps.                                                              *)

LEMMA ReceiveStep ==
  ASSUME NotifyInv, NEW n \in NotifierWorkers, NEW r \in Results, Receive(n, r)
  PROVE  NotifyInv'
<1> USE DEF NotifyInv
<1>1. /\ at[n] = "receive" /\ incoming' = incoming \ {r} /\ r \in incoming
      /\ UNCHANGED <<verdict, cache, printed, disturbed>> /\ WantedResults' = WantedResults
  BY DEF Receive, Goes, WantedResults
<1>2. CASE r \in WantedResults
  <2>1. /\ at' = [at EXCEPT ![n] = "get"] /\ held' = [held EXCEPT ![n] = r] /\ numFoundResults' = numFoundResults + 1
    BY <1>2 DEF Receive, Goes, WantedResults
  <2>2. Working' = Working \cup {r} /\ Passed' = Passed /\ Received' = Received \cup {r}
    <3>1. Working' = Working \cup {r}
      BY <1>1, <2>1 DEF Working, NotifyTypes
    <3>2. Passed' = Passed
      BY <1>1, <2>1 DEF Passed, NotifyTypes
    <3> QED BY <1>1, <1>2, <3>1, <3>2 DEF Received
  <2>3. NotifyTypes'
    BY <1>1, <2>1, <2>2 DEF NotifyTypes
  <2>4. Backed'
    BY <1>1, <2>1, <2>2 DEF Backed
  <2>5. OneDecoder'
    BY <1>1, <2>2 DEF OneDecoder, Undisturbed, Entry
  <2> QED BY <2>3, <2>4, <2>5
<1>3. CASE r \notin WantedResults
  <2>1. UNCHANGED <<at, held, numFoundResults>>
    BY <1>3 DEF Receive, WantedResults
  <2>2. Working' = Working /\ Passed' = Passed /\ Received' = Received
    BY <1>1, <1>3, <2>1 DEF Working, Passed, Received
  <2>3. NotifyTypes' /\ Backed' /\ OneDecoder'
    BY <1>1, <2>1, <2>2 DEF NotifyTypes, Backed, OneDecoder, Undisturbed, Entry
  <2> QED BY <2>3
<1> QED BY <1>2, <1>3

LEMMA HeldReceived ==
  ASSUME NotifyTypes, NEW n \in NotifierWorkers, at[n] # "receive"
  PROVE  held[n] \in Received /\ held[n] \in Results /\ held[n] \in Working
BY DEF NotifyTypes, Working, Received, WantedResults

\* A result that is dropped leaves an entry of its key behind.
LEMMA GetStep ==
  ASSUME NotifyInv, NEW n \in NotifierWorkers, Get(n)
  PROVE  NotifyInv'
<1> USE DEF NotifyInv
<1> DEFINE r == held[n]
<1>1. /\ at[n] = "get" /\ cache' = Refresh(r)
      /\ UNCHANGED <<verdict, incoming, numFoundResults, printed, disturbed>>
  BY DEF Get, Goes
<1>2. r \in Received /\ r \in Results /\ r \in Working
  BY <1>1, HeldReceived
<1>3. CacheOK(cache') /\ ToSet(cache') = ToSet(cache)
  BY <1>1, <1>2, RefreshFacts DEF NotifyTypes
<1>4. Received' = Received
  BY <1>1 DEF Received, WantedResults
<1>5. CASE IsDuplicate(r)
  <2>1. at' = [at EXCEPT ![n] = "receive"] /\ held' = [held EXCEPT ![n] = NoResult]
    BY <1>5 DEF Get, Goes
  <2>2. Passed' = Passed
    BY <1>1, <2>1 DEF Passed, NotifyTypes
  <2>3. Working' \subseteq Working /\ Working \subseteq Working' \cup {r}
    BY <1>1, <2>1 DEF Working, NotifyTypes
  <2>4. PICK e \in ToSet(cache) : e.key = Key[r] /\ (e.decoder # Decoder[r] \/ r \in Postman)
    BY <1>5 DEF IsDuplicate, EntriesOf
  <2>5. \E p \in Passed : Key[p] = Key[r]
    BY <2>4 DEF Backed
  <2> HIDE DEF r
  <2>6. NotifyTypes'
    BY <1>1, <1>3, <1>4, <2>1, <2>3 DEF NotifyTypes
  <2>7. Backed'
    BY <1>1, <1>3, <1>4, <2>2, <2>3, <2>5 DEF Backed
  <2>8. OneDecoder'
    BY <1>1, <1>3, <1>4, <2>2, <2>3, <2>4 DEF OneDecoder, Undisturbed, Entry
  <2> QED BY <2>6, <2>7, <2>8
<1>6. CASE ~IsDuplicate(r)
  <2>1. at' = [at EXCEPT ![n] = "add"] /\ held' = held
    BY <1>6 DEF Get, Goes
  <2>2. Working' = Working /\ Passed' = Passed
    BY <1>1, <2>1 DEF Working, Passed, NotifyTypes
  <2>3. NotifyTypes'
    BY <1>1, <1>3, <1>4, <2>1, <2>2 DEF NotifyTypes
  <2>4. Backed' /\ OneDecoder'
    BY <1>1, <1>3, <1>4, <2>1, <2>2 DEF Backed, OneDecoder, Undisturbed, Entry
  <2> QED BY <2>3, <2>4
<1> QED BY <1>5, <1>6

\* An entry whose key Add does not disturb is still there after it.
LEMMA AddKeeps ==
  ASSUME NotifyInv, NEW n \in NotifierWorkers, Add(n), NEW e \in ToSet(cache), e.key \notin disturbed'
  PROVE  e \in ToSet(cache') /\ (e.key = Key[held[n]] => e = Entry(held[n]))
<1> DEFINE r == held[n]
<1>1. /\ at[n] = "add" /\ cache' = Remember(r)
      /\ disturbed' = disturbed \cup (CachedKeys(cache) \ CachedKeys(cache'))
                       \cup {key \in {Key[r]} : IsDuplicate(r)}
  BY DEF Add, Goes
<1>2. r \in Results
  BY <1>1, HeldReceived DEF NotifyInv
<1>3. CacheOK(cache) /\ e \in Entries
  <2>1. CacheOK(cache)
    BY DEF NotifyInv, NotifyTypes
  <2> QED BY <2>1, ElementOfSeq DEF CacheOK, ToSet
<1>4. /\ Entry(r) \in ToSet(cache')
      /\ ToSet(cache') \subseteq {f \in ToSet(cache) : f.key # Key[r]} \cup {Entry(r)}
  BY <1>1, <1>2, <1>3, RememberFacts
<1> HIDE DEF r
<1>5. CASE e.key = Key[r]
  <2>1. ~IsDuplicate(r)
    BY <1>1, <1>5
  <2>2. e.decoder = Decoder[r]
    BY <1>5, <2>1 DEF IsDuplicate, EntriesOf
  <2>3. e = Entry(r)
    BY <1>3, <1>5, <2>2 DEF Entry, Entries
  <2> QED BY <1>4, <2>3 DEF r
<1>6. CASE e.key # Key[r]
  <2>1. e.key \in CachedKeys(cache')
    BY <1>1 DEF CachedKeys
  <2>2. PICK f \in ToSet(cache') : f.key = e.key
    BY <2>1 DEF CachedKeys
  <2>3. f \in ToSet(cache)
    BY <1>2, <1>4, <1>6, <2>2, EntryType
  <2> QED BY <1>3, <1>6, <2>2, <2>3, OneEntryPerKey DEF r
<1> QED BY <1>5, <1>6

LEMMA AddStep ==
  ASSUME NotifyInv, NEW n \in NotifierWorkers, Add(n)
  PROVE  NotifyInv'
<1> USE DEF NotifyInv
<1> DEFINE r == held[n]
<1>1. /\ at[n] = "add" /\ at' = [at EXCEPT ![n] = "print"] /\ cache' = Remember(r)
      /\ disturbed \subseteq disturbed'
      /\ IsDuplicate(r) => Key[r] \in disturbed'
      /\ UNCHANGED <<verdict, incoming, held, numFoundResults, printed>>
  BY DEF Add, Goes
<1>2. r \in Received /\ r \in Results
  BY <1>1, HeldReceived
<1>3. /\ CacheOK(cache') /\ Entry(r) \in ToSet(cache')
      /\ ToSet(cache') \subseteq {e \in ToSet(cache) : e.key # Key[r]} \cup {Entry(r)}
  BY <1>1, <1>2, RememberFacts DEF NotifyTypes
<1>4. Received' = Received /\ Working' = Working /\ Passed' = Passed \cup {r}
  <2>1. Received' = Received
    BY <1>1 DEF Received, WantedResults
  <2>2. Working' = Working
    BY <1>1 DEF Working, NotifyTypes
  <2>3. Passed' = Passed \cup {r}
    BY <1>1 DEF Passed, NotifyTypes
  <2> QED BY <2>1, <2>2, <2>3
<1>5. NotifyTypes'
  BY <1>1, <1>3, <1>4 DEF NotifyTypes
<1>6. Backed'
  <2>1. ASSUME NEW e \in ToSet(cache') PROVE \E p \in Passed' : Key[p] = e.key
    BY <1>2, <1>3, <1>4, <2>1, EntryType DEF Backed
  <2> QED BY <1>1, <1>4, <2>1 DEF Backed
<1>7. ASSUME NEW e \in ToSet(cache), e.key \notin disturbed'
      PROVE  e \in ToSet(cache') /\ (e.key = Key[r] => e = Entry(r))
  BY <1>7, AddKeeps
<1>8. Passed \subseteq Results
  BY HeldReceived DEF Passed, NotifyTypes, Received, WantedResults
<1> HIDE DEF r
<1>9. OneDecoder'
  <2>1. ASSUME NEW s \in Passed, Key[s] \notin disturbed' PROVE Entry(s) \in ToSet(cache) /\ Entry(s).key = Key[s]
    BY <1>1, <1>8, <2>1, EntryType DEF OneDecoder, Undisturbed
  <2>2. ASSUME NEW s \in Passed', Undisturbed(s)' PROVE Entry(s) \in ToSet(cache')
    BY <1>3, <1>4, <1>7, <2>1, <2>2 DEF Undisturbed
  <2>3. ASSUME NEW s \in Passed \cap Postman, r \in Postman, Key[r] = Key[s]
        PROVE  Key[r] \in disturbed'
    BY <1>1, <2>1, <2>3 DEF IsDuplicate, EntriesOf
  <2>4. \A s, t \in Passed' \cap Postman : s # t /\ Key[s] = Key[t] => ~Undisturbed(s)'
    BY <1>1, <1>4, <2>3 DEF OneDecoder, Undisturbed
  <2>5. ASSUME NEW s \in Received \ Postman, Undisturbed(s)', s \notin Working \cup printed
        PROVE  \E e \in ToSet(cache') : e.key = Key[s] /\ e.decoder # Decoder[s]
    BY <1>1, <1>7, <2>5 DEF OneDecoder, Undisturbed
  <2>6. \A s \in Passed' : (Undisturbed(s) => Entry(s) \in ToSet(cache))'
    BY <2>2 DEF Undisturbed, Entry
  <2> QED BY <1>1, <1>4, <2>4, <2>5, <2>6 DEF OneDecoder, Undisturbed, Entry
<1> QED BY <1>5, <1>6, <1>9

LEMMA NotifyStep ==
  ASSUME NotifyInv, NEW n \in NotifierWorkers, Notify(n)
  PROVE  NotifyInv'
<1> USE DEF NotifyInv
<1> DEFINE r == held[n]
<1>1. /\ at[n] = "print" /\ at' = [at EXCEPT ![n] = "receive"]
      /\ printed' = printed \cup {r} /\ held' = [held EXCEPT ![n] = NoResult]
      /\ UNCHANGED <<verdict, incoming, cache, numFoundResults, disturbed>>
  BY DEF Notify, Goes
<1>2. r \in Received
  BY <1>1, HeldReceived
<1>3. Received' = Received
  BY <1>1 DEF Received, WantedResults
<1>4. Passed' = Passed
  BY <1>1 DEF Passed, NotifyTypes
<1>5. Working' \subseteq Working /\ Working \subseteq Working' \cup {r}
  BY <1>1 DEF Working, NotifyTypes
<1>6. r \in Passed
  BY <1>1 DEF Passed
<1> HIDE DEF r
<1>7. NotifyTypes'
  BY <1>1, <1>2, <1>3, <1>5 DEF NotifyTypes
<1>8. Backed'
  BY <1>1, <1>3, <1>4, <1>5, <1>6 DEF Backed
<1>9. OneDecoder'
  BY <1>1, <1>3, <1>4, <1>5 DEF OneDecoder, Undisturbed, Entry
<1> QED BY <1>7, <1>8, <1>9

LEMMA NotifyInvariant == DedupeSpec => []NotifyInv
<1>1. DedupeInit => NotifyInv
  <2> SUFFICES ASSUME DedupeInit PROVE NotifyInv
    OBVIOUS
  <2>1. CacheOK(<<>>) /\ ToSet(<<>>) = {}
    BY NotifierAssumption DEF CacheOK, Distinct, ToSet
  <2>2. Working = {} /\ Passed = {} /\ Received = {}
    BY DEF DedupeInit, Working, Passed, Received, WantedResults
  <2> QED BY <2>1, <2>2 DEF DedupeInit, NotifyInv, NotifyTypes, Backed, OneDecoder
<1>2. NotifyInv /\ [DedupeNext]_dedupeVars => NotifyInv'
  <2> SUFFICES ASSUME NotifyInv, [DedupeNext]_dedupeVars PROVE NotifyInv'
    OBVIOUS
  <2>1. CASE UNCHANGED dedupeVars
    BY <2>1 DEF dedupeVars, NotifyInv, NotifyTypes, Backed, OneDecoder, Working, Passed, Received,
                WantedResults, Undisturbed, Entry
  <2> QED BY <2>1, ReceiveStep, GetStep, AddStep, NotifyStep DEF DedupeNext
<1> QED BY <1>1, <1>2, PTL DEF DedupeSpec

----------------------------------------------------------------------------
(***************************************************************************)
(* For every result that was wanted one with the same key is printed.      *)
(***************************************************************************)
THEOREM NoKeyLost == DedupeSpec => []EveryKeyPrinted
<1>1. NotifyInv => EveryKeyPrinted
  <2> SUFFICES ASSUME NotifyInv, Quiet
               PROVE  /\ {Key[r] : r \in WantedResults} = {Key[r] : r \in printed}
                      /\ numFoundResults > 0 => printed # {}
    BY DEF EveryKeyPrinted
  <2>1. Working = {} /\ Passed = printed /\ Received = WantedResults
    BY DEF Quiet, Working, Passed, Received
  <2> QED BY <2>1 DEF NotifyInv, NotifyTypes, Backed
<1> QED BY <1>1, NotifyInvariant, PTL

(***************************************************************************)
(* What is printed of a key has one decoder, and is one result of a        *)
(* Postman source, unless the entry of the key was disturbed.              *)
(***************************************************************************)
THEOREM OneDecoderPrinted == DedupeSpec => []DifferentDecoderOnce
<1>1. NotifyInv => DifferentDecoderOnce
  <2> SUFFICES ASSUME NotifyInv, NEW r \in printed, NEW s \in printed, r # s, Key[r] = Key[s],
                      Key[r] \notin disturbed
               PROVE  Decoder[r] = Decoder[s] /\ ~(r \in Postman /\ s \in Postman)
    BY DEF DifferentDecoderOnce
  <2>1. r \in Passed /\ s \in Passed /\ r \in Results /\ s \in Results
    BY DEF Passed, NotifyInv, NotifyTypes, Received, WantedResults
  <2>2. Entry(r) \in ToSet(cache) /\ Entry(s) \in ToSet(cache) /\ CacheOK(cache)
    BY <2>1 DEF NotifyInv, NotifyTypes, OneDecoder, Undisturbed
  <2>3. Entry(r) = Entry(s)
    BY <2>1, <2>2, EntryType, OneEntryPerKey
  <2>4. Decoder[r] = Decoder[s]
    BY <2>1, <2>3, EntryType
  <2> QED BY <2>1, <2>4 DEF NotifyInv, OneDecoder, Undisturbed
<1> QED BY <1>1, NotifyInvariant, PTL

(***************************************************************************)
(* A result whose key is printed with its own decoder is printed too,      *)
(* unless the entry of the key was disturbed.                              *)
(***************************************************************************)
THEOREM SameDecoderPrinted == DedupeSpec => []SameDecoderKept
<1>1. NotifyInv => SameDecoderKept
  <2> SUFFICES ASSUME NotifyInv, Quiet, NEW r \in WantedResults \ Postman, Key[r] \notin disturbed,
                      NEW s \in printed, Key[s] = Key[r], Decoder[s] = Decoder[r]
               PROVE  r \in printed
    BY DEF SameDecoderKept
  <2>1. Working = {} /\ Passed = printed /\ Received = WantedResults
    BY DEF Quiet, Working, Passed, Received
  <2>2. s \in Results /\ CacheOK(cache) /\ Entry(s) \in ToSet(cache)
    BY <2>1 DEF NotifyInv, NotifyTypes, OneDecoder, Undisturbed, WantedResults
  <2>3. SUFFICES ASSUME r \notin printed PROVE FALSE
    OBVIOUS
  <2>4. PICK e \in ToSet(cache) : e.key = Key[r] /\ e.decoder # Decoder[r]
    BY <2>1, <2>3 DEF NotifyInv, OneDecoder, Undisturbed
  <2>5. e = Entry(s)
    BY <2>2, <2>4, EntryType, OneEntryPerKey
  <2> QED BY <2>2, <2>4, <2>5, EntryType
<1> QED BY <1>1, NotifyInvariant, PTL
=============================================================================

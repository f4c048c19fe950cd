---------------------------- MODULE GCSScanProofs ----------------------------
(***************************************************************************)
(* What the GCS source remembers and what it passes over, for any buckets, *)
(* objects, increments, pools, channels and number of restarts.            *)
(***************************************************************************)
EXTENDS GCSScan, FiniteSetTheorems, SequenceTheorems, TLAPS

TypeOK ==
  /\ unlisted \in [Buckets -> SUBSET Objects]
  /\ lister \in [Buckets -> {"off", "listing", "closed"}]
  /\ forwarder \in [Buckets -> {"off", "on", "done"}]
  /\ objCh \in [Buckets -> Seq(Objects)] /\ objectCh \in Seq(Objects)
  /\ source \in {"list", "range", "wait", "returned", "failed"}
  /\ work \in [Objects -> {"none", "processing", "processed", "failed"}]
  /\ scanned \subseteq Objects /\ cut \subseteq Objects
  /\ cache \subseteq Keys /\ persisted \subseteq Keys /\ saved \subseteq Keys
  /\ recent \subseteq Keys

\* An object counts as processed when it has been scanned, or its archive cut short.
Remembered ==
  /\ \A o \in Objects : work[o] = "processed" => o \in scanned \cup cut
  /\ FinishedWasScanned

\* Where an object is that has not been scanned.
In(o, s) == \E i \in 1..Len(s) : s[i] = o
Accounted(o) ==
  \/ o \in unlisted[BucketOf[o]] \/ In(o, objCh[BucketOf[o]]) \/ In(o, objectCh)
  \/ work[o] # "none" \/ KeyOf[o] \in KeysOf(scanned \cup cut) \/ BucketOf[o] \in unlistable

\* A channel is closed behind what it is for.
ClosedBehind ==
  /\ errCh \subseteq unlistable /\ unlistable \subseteq Buckets
  /\ \A b \in unlistable : lister[b] = "closed"
  /\ \A b \in Buckets : forwarder[b] = "off" => lister[b] = "off"
  /\ \A b \in Buckets : lister[b] = "closed" => unlisted[b] = {} \/ b \in unlistable
  /\ \A b \in Buckets : forwarder[b] = "done" =>
       lister[b] = "closed" /\ (objCh[b] = <<>> \/ b \in unlistable)
  /\ source \in {"list", "failed"} =>
       (\A b \in Buckets : forwarder[b] = "off") /\ (\A o \in Objects : work[o] = "none")
  /\ source \in {"wait", "returned"} =>
       objectCh = <<>> /\ \A b \in Buckets : forwarder[b] = "done"
  /\ source = "returned" => \A o \in Objects : work[o] \notin {"processing", "processed"}

ScanInv ==
  TypeOK /\ Remembered /\ ClosedBehind /\ \A o \in Objects : Accounted(o)

----------------------------------------------------------------------------
(* Sequences as channels.                                                  *)

LEMMA Sent ==
  ASSUME NEW s \in Seq(Objects), NEW o \in Objects
  PROVE  /\ Append(s, o) \in Seq(Objects) /\ In(o, Append(s, o))
         /\ \A x : In(x, s) => In(x, Append(s, o))
<1>1. /\ Append(s, o) \in Seq(Objects) /\ Len(Append(s, o)) = Len(s) + 1 /\ Len(s) \in Nat
      /\ Append(s, o)[Len(s) + 1] = o /\ \A i \in 1..Len(s) : Append(s, o)[i] = s[i]
  BY AppendProperties
<1> QED BY <1>1 DEF In

LEMMA Received ==
  ASSUME NEW s \in Seq(Objects), s # <<>>
  PROVE  /\ Head(s) \in Objects /\ Tail(s) \in Seq(Objects)
         /\ \A x : In(x, s) => x = Head(s) \/ In(x, Tail(s))
<1>1. Head(s) \in Objects /\ Tail(s) \in Seq(Objects)
  BY HeadTailProperties
<1>2. /\ Len(s) \in Nat /\ Len(Tail(s)) = Len(s) - 1 /\ Head(s) = s[1]
      /\ \A i \in 1..Len(Tail(s)) : Tail(s)[i] = s[i + 1]
  OBVIOUS
<1>3. ASSUME NEW x, NEW i \in 1..Len(s), s[i] = x, x # Head(s) PROVE In(x, Tail(s))
  <2>1. i - 1 \in 1..Len(Tail(s)) /\ (i - 1) + 1 = i
    BY <1>2, <1>3
  <2>2. Tail(s)[i - 1] = x
    BY <1>2, <1>3, <2>1
  <2> QED BY <2>1, <2>2 DEF In
<1> QED BY <1>1, <1>3 DEF In

\* More that is scanned is more that is remembered.
LEMMA KeysGrow ==
  ASSUME NEW S, NEW T, S \subseteq T
  PROVE  KeysOf(S) \subseteq KeysOf(T)
BY DEF KeysOf

----------------------------------------------------------------------------
(* The steps.                                                              *)

LEMMA ListStep == ScanInv /\ List => ScanInv'
<1> SUFFICES ASSUME ScanInv, NEW b \in Buckets,
                    StartBucket(b) \/ ListObject(b) \/ EndListing(b) \/ Forward(b)
                      \/ StopForwarding(b)
             PROVE  ScanInv'
  BY DEF List
<1> USE DEF ScanInv
<1>1. CASE StartBucket(b)
  <2>1. TypeOK' /\ Remembered'
    BY <1>1 DEF StartBucket, TypeOK, Remembered, FinishedWasScanned
  <2>2. /\ forwarder[b] = "off" /\ lister[b] = "off" /\ b \notin unlistable
        /\ forwarder'[b] = "on" /\ lister'[b] = "listing"
        /\ \A c \in Buckets \ {b} : forwarder'[c] = forwarder[c] /\ lister'[c] = lister[c]
    BY <1>1 DEF StartBucket, TypeOK, ClosedBehind
  <2>3. source = "range"
    BY <1>1 DEF StartBucket
  <2>4. ClosedBehind'
    BY <1>1, <2>2, <2>3 DEF StartBucket, ClosedBehind, TypeOK
  <2>5. ASSUME NEW o \in Objects PROVE Accounted(o)'
    BY <1>1 DEF StartBucket, Accounted
  <2> QED BY <2>1, <2>4, <2>5
<1>2. CASE ListObject(b)
  <2>1. PICK o \in unlisted[b] :
          /\ unlisted' = [unlisted EXCEPT ![b] = @ \ {o}]
          /\ \/ objCh' = [objCh EXCEPT ![b] = Append(@, o)] /\ UNCHANGED work
             \/ work' = [work EXCEPT ![o] = "failed"] /\ UNCHANGED objCh
    BY <1>2 DEF ListObject
  <2>2. /\ lister[b] = "listing" /\ forwarder[b] # "done" /\ o \in Objects
        /\ UNCHANGED <<lister, forwarder, errCh, unlistable, objectCh, source, cache, persisted,
                       saved, recent, scanned, cut>>
    BY <1>2 DEF ListObject, ClosedBehind, TypeOK
  <2>3. objCh[b] \in Seq(Objects)
    BY DEF TypeOK
  <2>4. /\ unlisted'[b] = unlisted[b] \ {o} /\ unlisted'[b] \subseteq Objects
        /\ \A c \in Buckets \ {b} : unlisted'[c] = unlisted[c]
    BY <2>1 DEF TypeOK
  <2>5. CASE objCh' = [objCh EXCEPT ![b] = Append(@, o)] /\ UNCHANGED work
    <3>1. /\ objCh'[b] = Append(objCh[b], o)
          /\ \A c \in Buckets \ {b} : objCh'[c] = objCh[c]
      BY <2>5 DEF TypeOK
    <3>2. Append(objCh[b], o) \in Seq(Objects) /\ In(o, objCh'[b])
          /\ \A x : In(x, objCh[b]) => In(x, objCh'[b])
      BY <2>2, <2>3, <3>1, Sent
    <3>3. TypeOK'
      BY <2>1, <2>2, <2>5, <3>2 DEF TypeOK
    <3>4. Remembered' /\ ClosedBehind'
      BY <2>2, <2>4, <2>5, <3>1 DEF Remembered, FinishedWasScanned, ClosedBehind, TypeOK
    <3>5. ASSUME NEW x \in Objects PROVE Accounted(x)'
      BY <2>2, <2>4, <2>5, <3>1, <3>2, GCSAssumption DEF Accounted
    <3> QED BY <3>3, <3>4, <3>5
  <2>6. CASE work' = [work EXCEPT ![o] = "failed"] /\ UNCHANGED objCh
    <3>1. TypeOK'
      BY <2>1, <2>2, <2>6 DEF TypeOK
    <3>2. Remembered' /\ ClosedBehind'
      BY <2>2, <2>4, <2>6 DEF Remembered, FinishedWasScanned, ClosedBehind, TypeOK
    <3>3. ASSUME NEW x \in Objects PROVE Accounted(x)'
      BY <2>2, <2>4, <2>6, GCSAssumption DEF Accounted, TypeOK
    <3> QED BY <3>1, <3>2, <3>3
  <2> QED BY <2>1, <2>5, <2>6
<1>3. CASE EndListing(b)
  <2>1. TypeOK' /\ Remembered'
    BY <1>3 DEF EndListing, TypeOK, Remembered, FinishedWasScanned
  <2>2. /\ forwarder[b] # "off" /\ lister'[b] = "closed"
        /\ \A c \in Buckets \ {b} : lister'[c] = lister[c]
        /\ unlistable' \subseteq unlistable \cup {b} /\ unlistable \subseteq unlistable'
        /\ errCh' \subseteq unlistable' /\ (unlisted[b] = {} \/ b \in unlistable')
        /\ UNCHANGED <<unlisted, forwarder, objCh, objectCh, source, work>>
    BY <1>3 DEF EndListing, TypeOK, ClosedBehind
  <2>3. ClosedBehind'
    BY <2>2 DEF ClosedBehind
  <2>4. ASSUME NEW o \in Objects PROVE Accounted(o)'
    BY <1>3, <2>2 DEF EndListing, Accounted
  <2> QED BY <2>1, <2>3, <2>4
<1>4. CASE Forward(b)
  <2>1. objCh[b] \in Seq(Objects) /\ objCh[b] # <<>> /\ objectCh \in Seq(Objects)
    BY <1>4 DEF Forward, TypeOK
  <2>2. /\ objCh' = [objCh EXCEPT ![b] = Tail(@)] /\ objectCh' = Append(objectCh, Head(objCh[b]))
        /\ forwarder[b] = "on" /\ source = "range"
        /\ UNCHANGED <<unlisted, lister, forwarder, errCh, unlistable, source, work, cache,
                       persisted, saved, recent, scanned, cut>>
    BY <1>4 DEF Forward, ClosedBehind, TypeOK
  <2>3. Head(objCh[b]) \in Objects /\ Tail(objCh[b]) \in Seq(Objects)
    BY <2>1, Received
  <2>4. TypeOK' /\ Remembered' /\ ClosedBehind'
    BY <2>1, <2>2, <2>3, Sent DEF TypeOK, Remembered, FinishedWasScanned, ClosedBehind
  <2>5. ASSUME NEW x \in Objects PROVE Accounted(x)'
    <3>1. /\ objCh'[b] = Tail(objCh[b])
          /\ \A c \in Buckets \ {b} : objCh'[c] = objCh[c]
      BY <2>2 DEF TypeOK
    <3>2. /\ In(Head(objCh[b]), objectCh') /\ \A y : In(y, objectCh) => In(y, objectCh')
          /\ \A y : In(y, objCh[b]) => y = Head(objCh[b]) \/ In(y, objCh'[b])
      BY <2>1, <2>2, <2>3, <3>1, Sent, Received
    <3> QED BY <2>2, <3>1, <3>2, GCSAssumption DEF Accounted
  <2> QED BY <2>4, <2>5
<1>5. CASE StopForwarding(b)
  BY <1>5 DEF StopForwarding, TypeOK, Remembered, FinishedWasScanned, ClosedBehind, Accounted
<1> QED BY <1>1, <1>2, <1>3, <1>4, <1>5

LEMMA ProcessStep == ScanInv /\ Process => ScanInv'
<1> SUFFICES ASSUME ScanInv, NEW o \in Objects,
                    ProcessObject(o) \/ CutShort(o) \/ ProcessFails(o) \/ SetProgress(o)
             PROVE  ScanInv'
  BY DEF Process
<1> USE DEF ScanInv
<1>1. /\ UNCHANGED listVars /\ UNCHANGED <<objectCh, source>> /\ source # "returned"
      /\ scanned \subseteq scanned' /\ scanned' \subseteq Objects
      /\ cut \subseteq cut' /\ cut' \subseteq Objects
      /\ work' = [work EXCEPT ![o] = work'[o]]
      /\ work'[o] \in {"none", "processed", "failed"}
      /\ work'[o] = "processed" => o \in scanned' \cup cut'
      /\ work'[o] = "none" => o \in scanned' \cup cut'
  BY DEF ProcessObject, CutShort, ProcessFails, SetProgress, TypeOK, ClosedBehind, Remembered
<1>2. KeysOf(scanned \cup cut) \subseteq KeysOf(scanned' \cup cut')
  BY <1>1, KeysGrow
<1>3. /\ cache' \subseteq cache \cup {KeyOf[o]} /\ persisted' \subseteq persisted \cup cache'
      /\ saved' = saved /\ recent' \subseteq recent \cup {KeyOf[o]}
      /\ (cache' # cache => o \in scanned' \cup cut')
  BY DEF ProcessObject, CutShort, ProcessFails, SetProgress, Set, Remembered
<1>4. KeyOf[o] \in Keys /\ (o \in scanned' \cup cut' => KeyOf[o] \in KeysOf(scanned' \cup cut'))
  BY DEF Keys, KeysOf
<1>5. TypeOK'
  BY <1>1, <1>3, <1>4 DEF TypeOK, listVars
<1>6. Remembered'
  <2>1. FinishedWasScanned'
    BY <1>1, <1>2, <1>3, <1>4 DEF Remembered, FinishedWasScanned, KeysOf
  <2> QED BY <1>1, <2>1 DEF Remembered, TypeOK
<1>7. ClosedBehind'
  <2>1. source \notin {"list", "failed", "returned"}
    BY DEF ProcessObject, CutShort, ProcessFails, SetProgress, ClosedBehind
  <2> QED BY <1>1, <2>1 DEF ClosedBehind, listVars
<1>8. ASSUME NEW x \in Objects PROVE Accounted(x)'
  BY <1>1, <1>2, <1>4 DEF Accounted, TypeOK, listVars
<1> QED BY <1>5, <1>6, <1>7, <1>8

LEMMA ChunksStep == ScanInv /\ Chunks => ScanInv'
<1> SUFFICES ASSUME ScanInv, Chunks PROVE ScanInv'
  OBVIOUS
<1> USE DEF ScanInv
<1>1. CASE Receive
  <2> DEFINE o == Head(objectCh)
  <2>1. /\ objectCh \in Seq(Objects) /\ objectCh # <<>> /\ objectCh' = Tail(objectCh)
        /\ source = "range" /\ source' = source
        /\ UNCHANGED listVars /\ UNCHANGED <<cache, persisted, saved, recent, scanned, cut>>
    BY <1>1 DEF Receive, TypeOK
  <2>2. o \in Objects /\ Tail(objectCh) \in Seq(Objects)
        /\ \A x : In(x, objectCh) => x = o \/ In(x, Tail(objectCh))
    BY <2>1, Received
  <2>3. /\ KeyOf[o] \in cache /\ work' = work
        \/ work' = [work EXCEPT ![o] = "processing"]
    BY <1>1 DEF Receive
  <2> HIDE DEF o
  <2>4. TypeOK' /\ Remembered' /\ ClosedBehind'
    <3>1. TypeOK'
      BY <2>1, <2>2, <2>3 DEF TypeOK, listVars
    <3>2. Remembered'
      BY <2>1, <2>2, <2>3 DEF TypeOK, Remembered, FinishedWasScanned
    <3>3. ClosedBehind'
      BY <2>1 DEF ClosedBehind, listVars
    <3> QED BY <3>1, <3>2, <3>3
  <2>5. ASSUME NEW x \in Objects PROVE Accounted(x)'
    <3>1. KeyOf[o] \in cache => KeyOf[o] \in KeysOf(scanned \cup cut)
      BY DEF Remembered, FinishedWasScanned
    <3>2. work[x] # "none" => work'[x] # "none"
      BY <2>2, <2>3 DEF TypeOK
    <3>3. x = o => KeyOf[x] \in KeysOf(scanned \cup cut) \/ work'[x] # "none"
      BY <2>2, <2>3, <3>1 DEF TypeOK
    <3>4. In(x, objectCh) => x = o \/ In(x, objectCh')
      BY <2>1, <2>2
    <3>5. UNCHANGED <<unlisted, objCh, unlistable, scanned, cut>>
      BY <2>1 DEF listVars
    <3>6. Accounted(x)
      OBVIOUS
    <3> QED BY <3>2, <3>3, <3>4, <3>5, <3>6 DEF Accounted
  <2> QED BY <2>4, <2>5
<1>2. CASE RangeEnds
  BY <1>2 DEF RangeEnds, TypeOK, Remembered, FinishedWasScanned, ClosedBehind, Accounted, listVars
<1>3. CASE Return
  BY <1>3 DEF Return, TypeOK, Remembered, FinishedWasScanned, ClosedBehind, Accounted, listVars
<1>4. CASE ListObjects
  BY <1>4 DEF ListObjects, TypeOK, Remembered, FinishedWasScanned, ClosedBehind, Accounted, listVars
<1> QED BY <1>1, <1>2, <1>3, <1>4 DEF Chunks

LEMMA OtherStep == ScanInv /\ (Save \/ StopProcess \/ UNCHANGED vars) => ScanInv'
<1> SUFFICES ASSUME ScanInv, Save \/ StopProcess \/ UNCHANGED vars PROVE ScanInv'
  OBVIOUS
<1> USE DEF ScanInv
<1>1. CASE UNCHANGED vars
  <2>1. UNCHANGED <<listVars, objectCh, source, work, cache, persisted, saved, recent, scanned, cut>>
    BY <1>1 DEF vars
  <2> QED BY <2>1 DEF TypeOK, Remembered, FinishedWasScanned, ClosedBehind, Accounted, listVars
<1>2. CASE Save
  BY <1>2 DEF Save, TypeOK, Remembered, FinishedWasScanned, ClosedBehind, Accounted, listVars
<1>3. CASE StopProcess
  <2>0. <<>> \in Seq(Objects)
    OBVIOUS
  <2>1. TypeOK' /\ Remembered' /\ ClosedBehind'
    <3>1. TypeOK'
      BY <1>3, <2>0 DEF StopProcess, Restarted, TypeOK
    <3>2. Remembered'
      BY <1>3 DEF StopProcess, Restarted, Remembered, FinishedWasScanned
    <3>3. ClosedBehind'
      BY <1>3 DEF StopProcess, Restarted, ClosedBehind
    <3> QED BY <3>1, <3>2, <3>3
  <2>2. ASSUME NEW o \in Objects PROVE Accounted(o)'
    BY <1>3, GCSAssumption DEF StopProcess, Restarted, Accounted
  <2> QED BY <2>1, <2>2
<1> QED BY <1>1, <1>2, <1>3

LEMMA ScanInvariant == Spec => []ScanInv
<1>1. Init => ScanInv
  <2> SUFFICES ASSUME Init PROVE ScanInv
    OBVIOUS
  <2>1. TypeOK /\ Remembered /\ ClosedBehind
    BY DEF Init, TypeOK, Remembered, FinishedWasScanned, ClosedBehind
  <2>2. ASSUME NEW o \in Objects PROVE Accounted(o)
    BY GCSAssumption DEF Init, Accounted
  <2> QED BY <2>1, <2>2 DEF ScanInv
<1>2. ScanInv /\ [Next]_vars => ScanInv'
  BY ListStep, ProcessStep, ChunksStep, OtherStep DEF Next
<1> QED BY <1>1, <1>2, PTL DEF Spec

(***************************************************************************)
(* A key that a new process will skip is that of an object that was        *)
(* scanned, or of an archive that was cut short, however often the scan    *)
(* stops and whenever its progress is saved.                               *)
(***************************************************************************)
THEOREM OnlyScannedIsSkipped == Spec => []FinishedWasScanned
<1>1. ScanInv => FinishedWasScanned
  BY DEF ScanInv, Remembered
<1> QED BY <1>1, ScanInvariant, PTL

(***************************************************************************)
(* A scan that returns has passed over no object but one that could not be *)
(* read, that lies in a bucket that could not be listed, that is an        *)
(* archive cut short, or that has the key of one that was scanned or cut   *)
(* short, if not by this process then by an earlier one.                   *)
(***************************************************************************)
THEOREM NoObjectPassedOver == Spec => []NothingPassedOver
<1>1. ScanInv => NothingPassedOver
  <2> SUFFICES ASSUME ScanInv, source = "returned", NEW o \in Objects
               PROVE  \/ KeyOf[o] \in KeysOf(scanned) \/ KeyOf[o] \in KeysOf(cut)
                      \/ work[o] = "failed" \/ BucketOf[o] \in unlistable
    BY DEF NothingPassedOver
  <2>1. Accounted(o) /\ BucketOf[o] \in Buckets
    BY GCSAssumption DEF ScanInv
  <2>2. ~In(o, <<>>)
    BY DEF In
  <2>3. KeysOf(scanned \cup cut) = KeysOf(scanned) \cup KeysOf(cut)
    BY DEF KeysOf
  <2> QED BY <2>1, <2>2, <2>3 DEF ScanInv, ClosedBehind, TypeOK, Accounted
<1> QED BY <1>1, ScanInvariant, PTL

----------------------------------------------------------------------------
(***************************************************************************)
(* How far the resume info lags.  What is persisted, and what a process    *)
(* starts with, is a multiple of PersistIncrement, so that the cache       *)
(* reaches the next multiple when it has grown by PersistIncrement.        *)
(***************************************************************************)
Whole(S) == \E k \in Nat : Cardinality(S) = k * PersistIncrement
LagInv ==
  /\ persisted \subseteq cache /\ Whole(persisted) /\ Whole(saved)
  /\ Cardinality(cache) < Cardinality(persisted) + PersistIncrement
Lost == cache \ (saved \cup recent)

LEMMA Multiples ==
  ASSUME NEW n \in Nat, NEW k \in Nat
  PROVE  /\ n % PersistIncrement = 0 => \E j \in Nat : n = j * PersistIncrement
         /\ n % PersistIncrement # 0 => n # (k + 1) * PersistIncrement
<1>1. PersistIncrement \in Nat /\ PersistIncrement > 0
  BY GCSAssumption
<1>2. ASSUME n % PersistIncrement = 0 PROVE \E j \in Nat : n = j * PersistIncrement
  <2>1. n = (n \div PersistIncrement) * PersistIncrement
    BY <1>1, <1>2
  <2>2. n \div PersistIncrement \in Nat
    BY <1>1
  <2> QED BY <2>1, <2>2
<1>3. ASSUME NEW j \in Nat, n = j * PersistIncrement PROVE n % PersistIncrement = 0
  BY <1>1, <1>3
<1>4. k + 1 \in Nat
  OBVIOUS
<1> QED BY <1>2, <1>3, <1>4

LEMMA FiniteKeys ==
  ASSUME NEW S \in SUBSET Keys
  PROVE  IsFiniteSet(S) /\ Cardinality(S) \in Nat
<1>1. IsFiniteSet(Keys)
  <2> DEFINE f == [o \in Objects |-> KeyOf[o]]
  <2>1. f \in Surjection(Objects, Keys)
    BY DEF Surjection, Keys
  <2> QED BY <2>1, GCSAssumption, FS_Surjection
<1>2. IsFiniteSet(S)
  BY <1>1, FS_Subset
<1> QED BY <1>2, FS_CardinalityType

LEMMA RestKeeps ==
  ASSUME List \/ Chunks \/ UNCHANGED vars
  PROVE  UNCHANGED <<cache, persisted, saved, recent>>
BY DEF List, StartBucket, ListObject, EndListing, Forward, StopForwarding, Chunks, ListObjects,
       Receive, RangeEnds, Return, vars

\* Set persists the cache as soon as it is PersistIncrement entries ahead.
LEMMA SetLag ==
  ASSUME LagInv, TypeOK, NEW key \in Keys, Set(key), saved' = saved
  PROVE  LagInv'
<1> DEFINE entries == cache \cup {key}
           n == Cardinality(entries)
<1>1. /\ PersistIncrement \in Nat \ {0} /\ n \in Nat /\ Cardinality(cache) \in Nat
      /\ n <= Cardinality(cache) + 1 /\ Cardinality(persisted) \in Nat
  <2>1. /\ entries \in SUBSET Keys /\ cache \in SUBSET Keys /\ persisted \in SUBSET Keys
    BY DEF TypeOK
  <2>2. /\ IsFiniteSet(cache) /\ Cardinality(cache) \in Nat
        /\ n \in Nat /\ Cardinality(persisted) \in Nat
    BY <2>1, FiniteKeys
  <2>3. n = IF key \in cache THEN Cardinality(cache) ELSE Cardinality(cache) + 1
    BY <2>2, FS_AddElement
  <2> QED BY <2>2, <2>3, GCSAssumption
<1>2. cache' = entries /\ persisted' = IF n % PersistIncrement = 0 THEN entries ELSE persisted
  BY DEF Set
<1> HIDE DEF entries
<1>3. CASE n % PersistIncrement = 0
  <2>1. Whole(entries)
    BY <1>1, <1>3, Multiples DEF Whole
  <2>2. cache' = entries /\ persisted' = entries /\ n < n + PersistIncrement
    BY <1>1, <1>2, <1>3
  <2> QED BY <2>1, <2>2 DEF LagInv, Whole
<1>4. CASE n % PersistIncrement # 0
  <2>1. PICK k \in Nat : Cardinality(persisted) = k * PersistIncrement
    BY DEF LagInv, Whole
  <2>2. n # (k + 1) * PersistIncrement
    BY <1>1, <1>4, Multiples
  <2>3. (k + 1) * PersistIncrement = Cardinality(persisted) + PersistIncrement
    BY <1>1, <2>1
  <2>4. n < Cardinality(persisted) + PersistIncrement
    BY <1>1, <2>2, <2>3 DEF LagInv
  <2>5. persisted \subseteq entries
    BY DEF LagInv, entries
  <2> QED BY <1>2, <1>4, <2>4, <2>5 DEF LagInv, Whole
<1> QED BY <1>3, <1>4

LEMMA LagInvariant == Spec => []LagInv
<1>1. Init => LagInv
  <2>1. Cardinality({}) = 0 * PersistIncrement /\ 0 < 0 + PersistIncrement
    BY GCSAssumption, FS_EmptySet
  <2> QED BY <2>1, FS_EmptySet DEF Init, LagInv, Whole
<1>2. LagInv /\ ScanInv /\ [Next]_vars => LagInv'
  <2> SUFFICES ASSUME LagInv, ScanInv, [Next]_vars PROVE LagInv'
    OBVIOUS
  <2>1. ASSUME NEW o \in Objects, SetProgress(o) PROVE LagInv'
    BY <2>1, SetLag DEF SetProgress, ScanInv, Keys
  <2>2. CASE StopProcess
    <3>1. Cardinality(saved) \in Nat
      BY FiniteKeys DEF ScanInv, TypeOK
    <3>2. saved' = saved /\ cache' = saved /\ persisted' = saved
      BY <2>2 DEF StopProcess, Restarted
    <3>3. Cardinality(saved) < Cardinality(saved) + PersistIncrement
      BY <3>1, GCSAssumption
    <3> QED BY <3>2, <3>3 DEF LagInv, Whole
  <2>3. CASE Save
    BY <2>3 DEF Save, LagInv, Whole
  <2>4. CASE List \/ Chunks \/ UNCHANGED vars
    BY <2>4, RestKeeps DEF LagInv, Whole
  <2>5. ASSUME NEW o \in Objects, ProcessObject(o) \/ CutShort(o) \/ ProcessFails(o)
        PROVE  LagInv'
    BY <2>5 DEF ProcessObject, CutShort, ProcessFails, LagInv, Whole
  <2> QED BY <2>1, <2>2, <2>3, <2>4, <2>5 DEF Next, Process
<1> QED BY <1>1, <1>2, ScanInvariant, PTL DEF Spec

(***************************************************************************)
(* A process that stops loses, of the keys it has finished, those since it *)
(* last saved and fewer than PersistIncrement more: saving leaves out no   *)
(* more than the resume info lags behind the cache, and what is finished   *)
(* later is recent.                                                        *)
(***************************************************************************)
THEOREM LossStaysBounded == Spec => []LossBounded
<1>1. Init => LossBounded
  <2>1. Cardinality({}) = 0 /\ PersistIncrement \in Nat /\ PersistIncrement > 0
    BY GCSAssumption, FS_EmptySet
  <2> QED BY <2>1 DEF Init, LossBounded
<1>2. LossBounded /\ LagInv /\ ScanInv /\ [Next]_vars => LossBounded'
  <2> SUFFICES ASSUME LossBounded, LagInv, ScanInv, [Next]_vars PROVE LossBounded'
    OBVIOUS
  <2>0. PersistIncrement \in Nat /\ PersistIncrement > 0
    BY GCSAssumption
  <2>1. ASSUME NEW o \in Objects, SetProgress(o) PROVE LossBounded'
    <3>1. /\ cache' = cache \cup {KeyOf[o]} /\ recent' = recent \cup {KeyOf[o]} /\ saved' = saved
      BY <2>1 DEF SetProgress, Set
    <3>2. Lost' \subseteq Lost /\ Lost \in SUBSET Keys /\ Lost' \in SUBSET Keys
      BY <3>1 DEF Lost, ScanInv, TypeOK
    <3>3. Cardinality(Lost') <= Cardinality(Lost) /\ Cardinality(Lost) \in Nat /\ Cardinality(Lost') \in Nat
      BY <3>2, FiniteKeys, FS_Subset
    <3> QED BY <2>0, <3>3 DEF LossBounded, Lost
  <2>2. CASE StopProcess
    <3>1. cache' \ (saved' \cup recent') = {}
      BY <2>2 DEF StopProcess, Restarted
    <3> QED BY <2>0, <3>1, FS_EmptySet DEF LossBounded
  <2>3. CASE Save
    <3>1. cache' \ (saved' \cup recent') = cache \ persisted
      BY <2>3 DEF Save
    <3>2. /\ IsFiniteSet(cache) /\ Cardinality(cache) \in Nat /\ Cardinality(persisted) \in Nat
          /\ cache \cap persisted = persisted
      BY FiniteKeys DEF LagInv, ScanInv, TypeOK
    <3>3. Cardinality(cache \ persisted) = Cardinality(cache) - Cardinality(persisted)
      BY <3>2, FS_Difference
    <3>4. Cardinality(cache \ persisted) < PersistIncrement
      BY <2>0, <3>2, <3>3 DEF LagInv
    <3> QED BY <3>1, <3>4 DEF LossBounded
  <2>4. CASE List \/ Chunks \/ UNCHANGED vars
    BY <2>4, RestKeeps DEF LossBounded
  <2>5. ASSUME NEW o \in Objects, ProcessObject(o) \/ CutShort(o) \/ ProcessFails(o)
        PROVE  LossBounded'
    BY <2>5 DEF ProcessObject, CutShort, ProcessFails, LossBounded
  <2> QED BY <2>1, <2>2, <2>3, <2>4, <2>5 DEF Next, Process
<1> QED BY <1>1, <1>2, LagInvariant, ScanInvariant, PTL DEF Spec
=============================================================================

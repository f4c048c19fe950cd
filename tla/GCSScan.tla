------------------------------ MODULE GCSScan ------------------------------
(***************************************************************************)
(* The GCS source (pkg/sources/gcs/gcs.go, gcs_manager.go): a goroutine    *)
(* lists each bucket and another forwards what it lists; Chunks scans      *)
(* every object in a goroutine of its own and remembers the MD5 of those   *)
(* that are finished in a cache, which is copied to the resume info at     *)
(* every PersistIncrement-th entry.  A process that stops is started again *)
(* with the resume info that was saved last.                               *)
(*                                                                         *)
(* An object's key is its MD5, which the code takes for its content.       *)
(* Composite objects have none, so that all of them have the empty key.    *)
(*                                                                         *)
(* A cancellation shows only in what the code does on an error: a listing  *)
(* or an object fails, or an archive is cut short.  Each may happen at any *)
(* time, so that no variable says whether the context is done.             *)
(***************************************************************************)
EXTENDS Naturals, Sequences, FiniteSets

CONSTANTS
  Buckets, Objects,
  BucketOf, KeyOf,   \* the bucket of an object, and its MD5
  Archives,          \* objects a handler takes apart
  PersistIncrement,
  Concurrency,       \* the limit of the worker pool
  ChCap, ObjCap,     \* capacities of the channels
  MaxStops           \* bound: processes that stop

ASSUME GCSAssumption ==
  /\ BucketOf \in [Objects -> Buckets] /\ DOMAIN KeyOf = Objects /\ Archives \subseteq Objects
  /\ IsFiniteSet(Objects)
  /\ PersistIncrement \in Nat \ {0} /\ Concurrency \in Nat \ {0}
  /\ {ChCap, ObjCap, MaxStops} \subseteq Nat

VARIABLES
  unlisted,   \* the objects of a bucket the listing has not reached
  lister,     \* the goroutine that lists a bucket: "off", "listing" or "closed"
  forwarder,  \* the goroutine that forwards them: "off", "on" or "done"
  objCh,      \* the channel between them
  errCh,      \* the buckets with an error in their channel
  objectCh,   \* the channel Chunks reads
  source,     \* Chunks: "list", "range", "wait", and "returned" or "failed"
  work,       \* the goroutine of an object: "none", "processing", "processed" or "failed"
  cache,      \* the keys of the memory cache
  persisted,  \* the keys of EncodedResumeInfo
  saved,      \* those of the resume info a new process starts with
  recent,     \* those this process has finished since it last saved
  stops,
  scanned,    \* objects whose content has been scanned, by any process
  cut,        \* archives whose extraction ended early, and that counted as handled
  unlistable  \* buckets whose listing has failed

listVars == <<unlisted, lister, forwarder, objCh, errCh, unlistable>>
vars == <<listVars, objectCh, source, work, cache, persisted, saved, recent, stops,
          scanned, cut>>

Keys == {KeyOf[o] : o \in Objects}

----------------------------------------------------------------------------
(* A new process, whose cache is what was saved.                           *)
Restarted ==
  /\ unlisted' = [b \in Buckets |-> {o \in Objects : BucketOf[o] = b}]
  /\ lister' = [b \in Buckets |-> "off"] /\ forwarder' = [b \in Buckets |-> "off"]
  /\ objCh' = [b \in Buckets |-> <<>>] /\ errCh' = {} /\ unlistable' = {}
  /\ objectCh' = <<>> /\ source' = "list" /\ work' = [o \in Objects |-> "none"]
  /\ cache' = saved /\ persisted' = saved /\ recent' = {}

Init ==
  /\ unlisted = [b \in Buckets |-> {o \in Objects : BucketOf[o] = b}]
  /\ lister = [b \in Buckets |-> "off"] /\ forwarder = [b \in Buckets |-> "off"]
  /\ objCh = [b \in Buckets |-> <<>>] /\ errCh = {} /\ unlistable = {}
  /\ objectCh = <<>> /\ source = "list" /\ work = [o \in Objects |-> "none"]
  /\ cache = {} /\ persisted = {} /\ saved = {} /\ recent = {}
  /\ stops = 0 /\ scanned = {} /\ cut = {}

----------------------------------------------------------------------------
(* ListObjects.                                                            *)

\* The buckets are listed first; if they cannot be, Chunks returns the error.
ListObjects ==
  /\ source = "list"
  /\ source' \in {"range", "failed"}
  /\ UNCHANGED <<listVars, objectCh, work, cache, persisted, saved, recent, stops, scanned, cut>>

\* workerPool.Go: the buckets are taken in any order, as many at a time as the pool allows.
StartBucket(b) ==
  /\ source = "range" /\ forwarder[b] = "off"
  /\ Cardinality({x \in Buckets : forwarder[x] = "on"}) < Concurrency
  /\ forwarder' = [forwarder EXCEPT ![b] = "on"]
  /\ lister' = [lister EXCEPT ![b] = "listing"]
  /\ UNCHANGED <<unlisted, objCh, errCh, unlistable, objectCh, source, work, cache,
                 persisted, saved, recent, stops, scanned, cut>>

\* An object that is not to be scanned, or whose reader cannot be had, is left out.
ListObject(b) ==
  /\ lister[b] = "listing"
  /\ \E o \in unlisted[b] :
       /\ unlisted' = [unlisted EXCEPT ![b] = @ \ {o}]
       /\ \/ /\ Len(objCh[b]) < ObjCap
             /\ objCh' = [objCh EXCEPT ![b] = Append(@, o)] /\ UNCHANGED work
          \/ work' = [work EXCEPT ![o] = "failed"] /\ UNCHANGED objCh
  /\ UNCHANGED <<lister, forwarder, errCh, unlistable, objectCh, source, cache, persisted,
                 saved, recent, stops, scanned, cut>>

\* The iterator is done or has failed: the error is sent before the channel is closed.
EndListing(b) ==
  /\ lister[b] = "listing"
  /\ lister' = [lister EXCEPT ![b] = "closed"]
  /\ \/ unlisted[b] = {} /\ UNCHANGED <<errCh, unlistable>>
     \/ errCh' = errCh \cup {b} /\ unlistable' = unlistable \cup {b}
  /\ UNCHANGED <<unlisted, forwarder, objCh, objectCh, source, work, cache, persisted,
                 saved, recent, stops, scanned, cut>>

Forward(b) ==
  /\ forwarder[b] = "on" /\ objCh[b] # <<>> /\ Len(objectCh) < ChCap
  /\ objCh' = [objCh EXCEPT ![b] = Tail(@)]
  /\ objectCh' = Append(objectCh, Head(objCh[b]))
  /\ UNCHANGED <<unlisted, lister, forwarder, errCh, unlistable, source, work, cache,
                 persisted, saved, recent, stops, scanned, cut>>

\* The closed error channel is read again and again.
StopForwardingSpins(b) ==
  /\ forwarder[b] = "on"
  /\ b \in errCh \/ (lister[b] = "closed" /\ objCh[b] = <<>>)
  /\ errCh' = IF b \in errCh THEN errCh \ {b} ELSE errCh \cup {b}
  /\ UNCHANGED <<forwarder, unlisted, lister, objCh, unlistable, objectCh, source, work,
                 cache, persisted, saved, recent, stops, scanned, cut>>

\* The select takes the error although objects are still in the channel, or finds the
\* channel closed although there is an error.
StopForwarding(b) ==
  /\ forwarder[b] = "on"
  /\ b \in errCh \/ (lister[b] = "closed" /\ objCh[b] = <<>>)
  /\ forwarder' = [forwarder EXCEPT ![b] = "done"]
  /\ UNCHANGED <<unlisted, lister, objCh, errCh, unlistable, objectCh, source, work, cache,
                 persisted, saved, recent, stops, scanned, cut>>

----------------------------------------------------------------------------
(* Chunks.                                                                 *)

Receive ==
  /\ source = "range" /\ objectCh # <<>>
  /\ objectCh' = Tail(objectCh)
  /\ work' = IF KeyOf[Head(objectCh)] \in cache THEN work
             ELSE [work EXCEPT ![Head(objectCh)] = "processing"]
  /\ UNCHANGED <<listVars, source, cache, persisted, saved, recent, stops, scanned, cut>>

\* The content, or all that a handler makes of it, is sent on.
ProcessObject(o) ==
  /\ work[o] = "processing"
  /\ work' = [work EXCEPT ![o] = "processed"]
  /\ scanned' = scanned \cup {o}
  /\ UNCHANGED <<listVars, objectCh, source, cache, persisted, saved, recent, stops, cut>>

(***************************************************************************)
(* The walk of the archive ends early: its 30 seconds are over, an entry   *)
(* is broken or too deep, or the context is done.  The handler closes its  *)
(* channel all the same, and is taken to have handled the file.            *)
(***************************************************************************)
CutShort(o) ==
  /\ work[o] = "processing" /\ o \in Archives
  /\ work' = [work EXCEPT ![o] = "processed"]
  /\ cut' = cut \cup {o}
  /\ UNCHANGED <<listVars, objectCh, source, cache, persisted, saved, recent, stops, scanned>>

ProcessFails(o) ==
  /\ work[o] = "processing"
  /\ work' = [work EXCEPT ![o] = "failed"]
  /\ UNCHANGED <<listVars, objectCh, source, cache, persisted, saved, recent, stops,
                 scanned, cut>>

\* Whether to persist is looked at before the entry is added.
SetCountsFirst(key) ==
  LET entries == cache \cup {key} IN
  /\ cache' = entries
  /\ persisted' = IF Cardinality(cache) % PersistIncrement = 0 THEN cache ELSE persisted
  /\ recent' = recent \cup {key}

\* persistableCache.Set.
Set(key) ==
  LET entries == cache \cup {key} IN
  /\ cache' = entries
  /\ persisted' = IF Cardinality(entries) % PersistIncrement = 0 THEN entries ELSE persisted
  /\ recent' = recent \cup {key}

\* The return after an error is missing.
SetProgressOnError(o) ==
  /\ work[o] \in {"processed", "failed"}
  /\ work' = [work EXCEPT ![o] = "none"]
  /\ Set(KeyOf[o])
  /\ UNCHANGED <<listVars, objectCh, source, saved, stops, scanned, cut>>

\* The goroutine of the object ends; the source's mutex makes this one step.
SetProgress(o) ==
  /\ work[o] = "processed"
  /\ work' = [work EXCEPT ![o] = "none"]
  /\ Set(KeyOf[o])
  /\ UNCHANGED <<listVars, objectCh, source, saved, stops, scanned, cut>>

\* The channel is closed when every bucket has been forwarded, and drained.
RangeEnds ==
  /\ source = "range" /\ objectCh = <<>> /\ \A b \in Buckets : forwarder[b] = "done"
  /\ source' = "wait"
  /\ UNCHANGED <<listVars, objectCh, work, cache, persisted, saved, recent, stops,
                 scanned, cut>>

\* The goroutines are not waited for.
ReturnUnjoined ==
  /\ source = "wait"
  /\ source' = "returned"
  /\ UNCHANGED <<listVars, objectCh, work, cache, persisted, saved, recent, stops,
                 scanned, cut>>

Return ==
  /\ source = "wait" /\ \A o \in Objects : work[o] \notin {"processing", "processed"}
  /\ source' = "returned"
  /\ UNCHANGED <<listVars, objectCh, work, cache, persisted, saved, recent, stops,
                 scanned, cut>>

----------------------------------------------------------------------------
\* Whoever runs the source saves its progress now and then.
Save ==
  /\ saved # persisted \/ recent # {}
  /\ saved' = persisted /\ recent' = {}
  /\ UNCHANGED <<listVars, objectCh, source, work, cache, persisted, stops, scanned, cut>>

StopProcess ==
  /\ stops < MaxStops
  /\ stops' = stops + 1
  /\ Restarted
  /\ UNCHANGED <<saved, scanned, cut>>

List == \E b \in Buckets :
  StartBucket(b) \/ ListObject(b) \/ EndListing(b) \/ Forward(b) \/ StopForwarding(b)
Process == \E o \in Objects :
  ProcessObject(o) \/ CutShort(o) \/ ProcessFails(o) \/ SetProgress(o)
Chunks == ListObjects \/ Receive \/ RangeEnds \/ Return

Next == List \/ Process \/ Chunks \/ Save \/ StopProcess
Spec == Init /\ [][Next]_vars

\* Every goroutine is scheduled; chunks are taken from the source.
FairSpec == Spec /\ WF_vars(List) /\ WF_vars(Process) /\ WF_vars(Chunks)

----------------------------------------------------------------------------
(* Properties.                                                             *)

(***************************************************************************)
(* A process that stops loses, of the keys it has finished, those since it *)
(* last saved, and fewer than PersistIncrement more: what was not in the   *)
(* resume info when it was saved.                                          *)
(***************************************************************************)
LossBounded == Cardinality(cache \ (saved \cup recent)) < PersistIncrement

(***************************************************************************)
(* A key that is remembered as finished, in the cache or in any copy of    *)
(* it, is that of an object that has been scanned, or of an archive that   *)
(* was cut short: no restart skips a key for an object that failed.        *)
(***************************************************************************)
KeysOf(objects) == {KeyOf[o] : o \in objects}
FinishedWasScanned == cache \cup persisted \cup saved \subseteq KeysOf(scanned \cup cut)

(***************************************************************************)
(* When Chunks returns, each object, or one with the same key, has been    *)
(* scanned, by this process or an earlier one, or was an archive that was  *)
(* cut short; or the object could not be read, or is in a bucket that      *)
(* could not be listed to its end.                                         *)
(***************************************************************************)
NothingPassedOver ==
  source = "returned" => \A o \in Objects :
    \/ KeyOf[o] \in KeysOf(scanned) \/ KeyOf[o] \in KeysOf(cut)
    \/ work[o] = "failed" \/ BucketOf[o] \in unlistable

(***************************************************************************)
(* Chunks returns, however small the channels and the pool are, and with   *)
(* any listing or object failing.                                          *)
(***************************************************************************)
ChunksReturns == []<>(source \in {"returned", "failed"})
=============================================================================

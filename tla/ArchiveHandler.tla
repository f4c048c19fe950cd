--------------------------- MODULE ArchiveHandler ---------------------------
(***************************************************************************)
(* How a file is scanned (pkg/handlers/handlers.go, archive.go): HandleFile *)
(* gives an archive to a goroutine that walks it, with a timeout of its    *)
(* own, and reports what comes through archiveChan; a file it refuses is   *)
(* read by the source itself.  Every file that is not an archive, inside   *)
(* one or not, goes through the chunk reader of module Chunker.            *)
(*                                                                         *)
(* A tree lists its nodes in the order the walk meets them: [kind, parent, *)
(* nesting].  A "stream" is compressed data, whose one child is what it    *)
(* decompresses to; a "broken" node cannot be opened; a "skipped" one is   *)
(* left out for its name, and a "binary" one for its type.                 *)
(***************************************************************************)
EXTENDS Chunker, Sequences

CONSTANTS Trees, MaxDepth, ChanCap

Kinds == {"archive", "stream", "text", "binary", "broken", "skipped"}
ASSUME ArchiveAssumption ==
  /\ MaxDepth \in Nat /\ ChanCap \in Nat \ {0}
  /\ Trees \subseteq Seq([kind : Kinds, parent : Nat, nesting : Nat])
  /\ \A t \in Trees : \A i \in DOMAIN t :
       IF i = 1 THEN t[i].nesting = 0
       ELSE /\ t[i].parent \in 1..(i - 1)
            /\ t[t[i].parent].kind \in {"archive", "stream"}
            /\ t[i].nesting = t[t[i].parent].nesting + 1

VARIABLES
  tree, skipArchives,
  walk,         \* the archive's goroutine: "off", "next", "reading" a text, or "closed"
  node,         \* the node it opens next
  depth,        \* the depths it has given to the nodes it has opened
  archiveChan,  \* the chunks in the channel, by the node of each
  handler,      \* HandleFile: "start", "range", "handled" or "refused"
  source,       \* the source then: "wait", "raw" while it reads the file itself, or "done"
  leaves,       \* the texts the walk has read to their end
  cancelled     \* the context of the scan; ctxDone is that of the walk

walkVars == <<walk, node, depth, archiveChan, leaves>>
handleVars == <<tree, skipArchives, walkVars, handler, source, cancelled>>
readerVars == <<fileVars, pos, at, pending, slot, consumer, scanned, failures>>

----------------------------------------------------------------------------
HandleInit ==
  /\ tree \in Trees /\ skipArchives \in BOOLEAN
  /\ walk = "off" /\ node = 1 /\ depth = [i \in DOMAIN tree |-> 0]
  /\ archiveChan = <<>> /\ handler = "start" /\ source = "wait" /\ leaves = {}
  /\ cancelled = FALSE /\ ctxDone = FALSE
  /\ mode = "reader" /\ length = 0 /\ fails = FALSE /\ pos = 0 /\ at = "ended"
  /\ pending = {} /\ slot = {} /\ consumer = "left" /\ scanned = {} /\ failures = 0

\* A chunk reader of the text of a file is started.
ReadText(m) ==
  /\ at = "ended" /\ mode' = m
  /\ length' \in 0..MaxLength /\ fails' \in (IF m = "memory" THEN {FALSE} ELSE BOOLEAN)
  /\ pos' = 0 /\ at' = "read" /\ pending' = {} /\ slot' = {}
  /\ consumer' = "reading" /\ scanned' = {} /\ failures' = 0

----------------------------------------------------------------------------
(* HandleFile.                                                             *)

IsFiletype == tree[1].kind \in {"archive", "stream", "broken"}

FromFile ==
  /\ handler = "start" /\ IsFiletype /\ ~skipArchives
  /\ handler' = "range" /\ walk' = "next"
  /\ UNCHANGED <<tree, skipArchives, node, depth, archiveChan, source, leaves, cancelled,
                 readerVars, ctxDone>>

Refuse ==
  /\ handler = "start" /\ (~IsFiletype \/ skipArchives)
  /\ handler' = "refused"
  /\ UNCHANGED <<tree, skipArchives, walkVars, source, cancelled, readerVars, ctxDone>>

\* The chunk is reported, unless the context is done.
HandleChunk ==
  /\ handler = "range" /\ archiveChan # <<>>
  /\ archiveChan' = Tail(archiveChan)
  /\ \/ UNCHANGED handler
     \/ cancelled /\ handler' = "refused"
  /\ UNCHANGED <<tree, skipArchives, walk, node, depth, leaves, source, cancelled,
                 readerVars, ctxDone>>

\* The closed channel is taken for a file that was handled, why ever it was closed.
HandleClosed ==
  /\ handler = "range" /\ archiveChan = <<>> /\ walk = "closed"
  /\ handler' = "handled"
  /\ UNCHANGED <<tree, skipArchives, walkVars, source, cancelled, readerVars, ctxDone>>

HandleCancelled ==
  /\ handler = "range" /\ cancelled
  /\ handler' = "refused"
  /\ UNCHANGED <<tree, skipArchives, walkVars, source, cancelled, readerVars, ctxDone>>

----------------------------------------------------------------------------
(* The walk: openArchive and extractorHandler.                             *)

\* The extractor's handler does not find the depth in the context.
DepthOfForgotten(i) ==
  IF i = 1 \/ tree[tree[i].parent].kind = "archive" THEN 0 ELSE depth[tree[i].parent] + 1

DepthOf(i) == IF i = 1 THEN 0 ELSE depth[tree[i].parent] + 1

\* Any error ends the walk of the whole archive.
EndWalk ==
  /\ walk' = "closed"
  /\ UNCHANGED <<tree, skipArchives, node, depth, archiveChan, handler, source, leaves,
                 cancelled, readerVars, ctxDone>>

Cannot(i) == ctxDone \/ DepthOf(i) >= MaxDepth \/ tree[i].kind = "broken"
WalkFails ==
  /\ walk = "next" /\ node \in DOMAIN tree
  /\ IF tree[node].kind = "skipped" THEN ctxDone ELSE Cannot(node)
  /\ EndWalk

WalkEnds == walk = "next" /\ node \notin DOMAIN tree /\ EndWalk

Opened(i) ==
  /\ walk = "next" /\ node = i /\ node' = i + 1
  /\ depth' = [depth EXCEPT ![i] = DepthOf(i)]

OpenArchive ==
  /\ node \in DOMAIN tree /\ Opened(node)
  /\ IF tree[node].kind = "skipped" THEN ~ctxDone
     ELSE tree[node].kind # "text" /\ ~Cannot(node)
  /\ UNCHANGED <<tree, skipArchives, walk, archiveChan, handler, source, leaves, cancelled,
                 readerVars, ctxDone>>

handleNonArchiveContent ==
  /\ node \in DOMAIN tree /\ Opened(node)
  /\ tree[node].kind = "text" /\ ~Cannot(node)
  /\ walk' = "reading" /\ ReadText("reader")
  /\ UNCHANGED <<tree, skipArchives, archiveChan, handler, source, leaves, cancelled, ctxDone>>

\* The chunk goes to archiveChan, or the context is done and the walk fails.
WriteChunk ==
  /\ walk = "reading" /\ ReceiveChunk
  /\ IF consumer' = "left" THEN walk' = "closed" /\ UNCHANGED archiveChan
     ELSE /\ Len(archiveChan) < ChanCap
          /\ archiveChan' = Append(archiveChan, node - 1) /\ UNCHANGED walk
  /\ UNCHANGED <<tree, skipArchives, node, depth, handler, source, leaves, cancelled>>

\* An error of the text is logged, and the rest of the archive walked.
WalkReceiveError ==
  /\ walk = "reading" /\ ReceiveError
  /\ UNCHANGED handleVars

TextEnds ==
  /\ walk = "reading" /\ ChunksExhausted
  /\ walk' = "next" /\ leaves' = leaves \cup {node - 1}
  /\ UNCHANGED <<tree, skipArchives, node, depth, archiveChan, handler, source, cancelled>>

----------------------------------------------------------------------------
(* The source of a file: what the handler has refused it reads itself, as  *)
(* a stream, or whole for the engine to cut.                               *)

SourceReads ==
  /\ source = "wait" /\ handler = "refused" /\ walk \in {"off", "closed"}
  /\ source' = "raw" /\ \E m \in {"reader", "memory"} : ReadText(m)
  /\ UNCHANGED <<tree, skipArchives, walkVars, handler, cancelled, ctxDone>>

SourceReceives ==
  /\ source = "raw" /\ Consumer
  /\ source' = IF consumer' = "left" THEN "done" ELSE source
  /\ UNCHANGED <<tree, skipArchives, walkVars, handler, cancelled>>

\* The file was handled, or the context is done before it is read.
SourceDone ==
  /\ source = "wait"
  /\ handler = "handled" \/ (handler = "refused" /\ cancelled)
  /\ source' = "done"
  /\ UNCHANGED <<tree, skipArchives, walkVars, handler, cancelled, readerVars, ctxDone>>

----------------------------------------------------------------------------
\* The timeout of the walk; maxTimeout runs from its start.
Timeout ==
  /\ walk \in {"next", "reading"} /\ ~ctxDone
  /\ ctxDone' = TRUE
  /\ UNCHANGED <<handleVars, readerVars>>

CancelScan ==
  /\ ~cancelled
  /\ cancelled' = TRUE /\ ctxDone' = TRUE
  /\ UNCHANGED <<tree, skipArchives, walkVars, handler, source, readerVars>>

ReadChunks == Reader /\ UNCHANGED handleVars
HandleFile == FromFile \/ Refuse \/ HandleChunk \/ HandleClosed \/ HandleCancelled
Walk == WalkFails \/ WalkEnds \/ OpenArchive \/ handleNonArchiveContent
          \/ WriteChunk \/ WalkReceiveError \/ TextEnds
Source == SourceReads \/ SourceReceives \/ SourceDone

HandleNext == ReadChunks \/ HandleFile \/ Walk \/ Source \/ Timeout \/ CancelScan
HandleSpec == HandleInit /\ [][HandleNext]_<<handleVars, vars>>

\* The goroutines are scheduled; no fairness for the timeout or the cancellation.
HandleFairSpec ==
  HandleSpec /\ WF_<<handleVars, vars>>(ReadChunks) /\ WF_<<handleVars, vars>>(HandleFile)
    /\ WF_<<handleVars, vars>>(Walk) /\ WF_<<handleVars, vars>>(Source)

----------------------------------------------------------------------------
(* Properties.                                                             *)

(***************************************************************************)
(* A file that was handled, within its time, has been scanned: every text  *)
(* the walk can reach, however deep and whatever reading it came to, has   *)
(* gone to the scan, and no other.  What it cannot reach is what lies      *)
(* behind the first node that is broken or too deep.                       *)
(***************************************************************************)
Unopenable(i) == tree[i].kind = "broken" \/ tree[i].nesting >= MaxDepth
Reachable == {i \in DOMAIN tree : tree[i].kind = "text" /\
                \A j \in 1..i : tree[j].kind # "skipped" => ~Unopenable(j)}
HandledMeansScanned ==
  handler = "handled" /\ ~ctxDone => leaves = Reachable /\ archiveChan = <<>>

(***************************************************************************)
(* A claim the code does not keep: the texts of an archive that are not    *)
(* nested too deep are scanned ("Maximum depth of archive to scan").  One  *)
(* that is ends the walk, and those after it are lost.                     *)
(***************************************************************************)
ShallowTextsScanned ==
  handler = "handled" /\ ~ctxDone =>
    \A i \in DOMAIN tree : tree[i].kind = "text" /\ tree[i].nesting < MaxDepth
                             /\ (\A j \in DOMAIN tree : tree[j].kind # "broken") => i \in leaves

(***************************************************************************)
(* The source gets its answer and the goroutines of the walk and of every  *)
(* chunk reader end, whoever stops listening first.                        *)
(***************************************************************************)
HandlerEnds ==
  <>(source = "done" /\ walk \in {"off", "closed"}) /\ []<>(at = "ended")
=============================================================================

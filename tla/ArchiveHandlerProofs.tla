------------------------- MODULE ArchiveHandlerProofs -------------------------
(***************************************************************************)
(* What a file that was handled amounts to, for every tree of nested       *)
(* archives and every maximum depth, and the coverage of the chunk reader  *)
(* when the walk and the source use it for one text after another.         *)
(***************************************************************************)
EXTENDS ArchiveHandler, SequenceTheorems, TLAPS

----------------------------------------------------------------------------
(* The chunk reader on its own: WindowsCovered for every chunk size, every *)
(* peek that fits the buffer and every file, because IInv is inductive and *)
(* implies it.                                                             *)

USE DEF Shorter, TotalSize

\* The invariant holds before anything is read.
LEMMA InitIInv == Init => IInv
<1> SUFFICES ASSUME Init PROVE IInv
  OBVIOUS
<1>1. TypeOK
  <2>1. length \in Nat /\ pos \in 0..length
    BY ChunkerAssumption DEF Init
  <2>2. ctxDone \in BOOLEAN /\ fails \in BOOLEAN
    BY DEF Init
  <2>3. failures \in Nat
    BY DEF Init
  <2> QED BY <2>1, <2>2, <2>3, Zenon DEF Init, TypeOK
<1>2. Chunks
  BY DEF Init, Chunks
<1>3. Windows
  BY DEF Init, Windows
<1> QED BY <1>1, <1>2, <1>3 DEF Init, IInv

\* More chunks cover no fewer texts.
LEMMA WithinMonotone ==
  ASSUME NEW S, NEW T, S \subseteq T, NEW a, NEW b, Within(a, b, S)
  PROVE  Within(a, b, T)
BY DEF Within

\* The goroutine that reads: what it has counted in pos is in its result.
LEMMA ReadChunkIInv == IInv /\ ReadChunk => IInv'
<1> SUFFICES ASSUME IInv, ReadChunk PROVE IInv'
  OBVIOUS
<1> DEFINE n == Shorter(ChunkSize, length - pos)
           err == n < ChunkSize /\ fails
           r == [from |-> pos, upto |-> Shorter(pos + ChunkSize + PeekSize, length),
                 err |-> err, last |-> n < ChunkSize]
<1>1. /\ at = "read" /\ pending' = {r} /\ pos' = (IF err THEN pos ELSE pos + n)
      /\ at' = "send"
      /\ UNCHANGED <<mode, length, fails, slot, consumer, scanned, failures, ctxDone>>
  <2>1. pos + TotalSize = pos + ChunkSize + PeekSize
    BY ChunkerAssumption DEF IInv, TypeOK
  <2> QED BY <2>1 DEF ReadChunk, fileVars
<1>2. /\ pos \in Nat /\ length \in Nat /\ pos <= length
      /\ n \in Nat /\ n <= length - pos /\ n <= ChunkSize
      /\ n < ChunkSize => n = length - pos
      /\ ChunkSize \in Nat /\ PeekSize \in Nat /\ fails \in BOOLEAN
  BY ChunkerAssumption DEF IInv, TypeOK
<1> HIDE DEF n
<1>3. r \in ChunkResults /\ r.from = pos /\ r.err = err /\ r.last = (n < ChunkSize)
      /\ r.upto = Shorter(pos + ChunkSize + PeekSize, length)
  BY <1>2 DEF ChunkResults
<1> HIDE DEF r
<1>4. TypeOK'
  BY <1>1, <1>2, <1>3 DEF IInv, TypeOK
<1>5. Chunks'
  BY <1>1 DEF IInv, Chunks
<1>6. ASSUME ~ctxDone PROVE Windows'
  <2> SUFFICES ASSUME NEW a \in 0..(pos' - 1), NEW b \in a..length', b - a <= PeekSize + 1
               PROVE  Within(a, b, scanned' \cup slot' \cup pending')
    BY DEF Windows
  <2>1. CASE a \in 0..(pos - 1)
    <3>1. b \in a..length
      BY <1>1
    <3>2. Within(a, b, scanned \cup slot \cup pending)
      BY <1>6, <2>1, <3>1 DEF IInv, Windows
    <3>3. scanned \cup slot \cup pending \subseteq scanned' \cup slot' \cup pending'
      BY <1>1 DEF IInv, Chunks
    <3> QED BY <3>2, <3>3, WithinMonotone
  <2>2. CASE a \notin 0..(pos - 1)
    <3>1. ~err /\ pos <= a /\ a < pos + n /\ b <= length
      BY <1>1, <1>2, <2>2
    <3>2. b <= r.upto
      BY <1>2, <1>3, <3>1
    <3> QED BY <1>1, <1>3, <3>1, <3>2 DEF Within
  <2> QED BY <2>1, <2>2
<1>7. n < ChunkSize => AtEnd'
  BY <1>1, <1>2 DEF AtEnd
<1> QED
  BY <1>1, <1>3, <1>4, <1>5, <1>6, <1>7 DEF IInv

\* A small piece of data is passed on whole.
LEMMA PassWholeIInv == IInv /\ PassWhole => IInv'
<1> SUFFICES ASSUME IInv, PassWhole PROVE IInv'
  OBVIOUS
<1> DEFINE r == [from |-> 0, upto |-> length, err |-> FALSE, last |-> TRUE]
<1>1. /\ at = "read" /\ pending' = {r} /\ pos' = length /\ at' = "send" /\ ~fails
      /\ UNCHANGED <<mode, length, fails, slot, consumer, scanned, failures, ctxDone>>
  BY DEF PassWhole, fileVars, IInv, TypeOK
<1>2. r \in ChunkResults /\ r.from = 0 /\ r.upto = length /\ ~r.err
  BY DEF ChunkResults, IInv, TypeOK
<1> HIDE DEF r
<1>3. TypeOK' /\ Chunks' /\ AtEnd'
  BY <1>1, <1>2 DEF IInv, TypeOK, Chunks, AtEnd
<1>4. Windows'
  <2> SUFFICES ASSUME NEW a \in 0..(pos' - 1), NEW b \in a..length'
               PROVE  Within(a, b, pending')
    BY WithinMonotone DEF Windows
  <2> QED BY <1>1, <1>2 DEF Within, IInv, TypeOK
<1> QED BY <1>1, <1>3, <1>4 DEF IInv
\* Cancelling only weakens what the invariant says.
LEMMA CancelIInv == IInv /\ Cancel => IInv'
BY DEF IInv, Cancel, TypeOK, Chunks, fileVars

\* A result moves from pending to the channel.
LEMMA SendIInv == IInv /\ Send => IInv'
<1> SUFFICES ASSUME IInv, Send PROVE IInv'
  OBVIOUS
<1>1. PICK r \in pending : pending = {r}
  BY DEF IInv, Chunks, Send
<1>2. TypeOK' /\ Chunks'
  BY <1>1 DEF IInv, TypeOK, Chunks, Send, fileVars
<1>3. scanned \cup slot \cup pending = (scanned \cup slot \cup pending)'
  BY DEF Send
<1>4. ASSUME ~ctxDone PROVE Windows'
  BY <1>3, <1>4 DEF IInv, Windows, Send, fileVars
<1>5. ASSUME ~ctxDone, at' = "ended" PROVE AtEnd'
  BY <1>5 DEF IInv, AtEnd, Send, fileVars
<1> QED BY <1>1, <1>2, <1>4, <1>5 DEF IInv, Send, fileVars, TypeOK

\* The goroutine meets the end, or is cancelled, and the consumer its results.
LEMMA OthersIInv ==
  IInv /\ (ReadEnd \/ SendCancelled \/ ReceiveChunk \/ ChunksExhausted) => IInv'
<1> SUFFICES ASSUME IInv, ReadEnd \/ SendCancelled \/ ReceiveChunk \/ ChunksExhausted
             PROVE  IInv'
  OBVIOUS
<1>1. CASE ReadEnd
  BY <1>1, ChunkerAssumption DEF IInv, TypeOK, Chunks, Windows, AtEnd, ReadEnd, fileVars
<1>2. CASE SendCancelled
  BY <1>2 DEF IInv, TypeOK, Chunks, SendCancelled, fileVars
<1>3. CASE ReceiveChunk
  <2>1. TypeOK' /\ Chunks'
    BY <1>3 DEF IInv, TypeOK, Chunks, ReceiveChunk, fileVars
  <2>2. ASSUME ~ctxDone
        PROVE  scanned \cup slot \cup pending = (scanned \cup slot \cup pending)'
    BY <1>3, <2>2 DEF ReceiveChunk
  <2> QED BY <1>3, <2>1, <2>2 DEF IInv, Windows, AtEnd, ReceiveChunk, fileVars
<1>4. CASE ChunksExhausted
  BY <1>4 DEF IInv, TypeOK, Chunks, Windows, AtEnd, ChunksExhausted, fileVars
<1> QED BY <1>1, <1>2, <1>3, <1>4

\* What is dropped with an error never counted as covered.
LEMMA ReceiveErrorIInv == IInv /\ ReceiveError => IInv'
<1> SUFFICES ASSUME IInv, ReceiveError PROVE IInv'
  OBVIOUS
<1>1. TypeOK' /\ Chunks'
  BY DEF IInv, TypeOK, Chunks, ReceiveError, fileVars
<1>2. ASSUME NEW a, NEW b, Within(a, b, scanned \cup slot \cup pending)
      PROVE  Within(a, b, (scanned \cup slot \cup pending)')
  <2>1. \A s \in slot : s.err
    BY DEF IInv, Chunks, ReceiveError
  <2> QED BY <1>2, <2>1 DEF Within, ReceiveError
<1>3. ASSUME ~ctxDone PROVE Windows'
  BY <1>2, <1>3 DEF IInv, Windows, ReceiveError, fileVars
<1> QED BY <1>1, <1>3 DEF IInv, AtEnd, ReceiveError, fileVars

THEOREM Invariance == Spec => []IInv
<1>1. IInv /\ [Next]_vars => IInv'
  <2> SUFFICES ASSUME IInv, [Next]_vars PROVE IInv'
    OBVIOUS
  <2>1. CASE Reader
    BY <2>1, PassWholeIInv, ReadChunkIInv, SendIInv, OthersIInv DEF Reader
  <2>2. CASE Consumer
    BY <2>2, ReceiveErrorIInv, OthersIInv DEF Consumer
  <2>3. CASE Cancel
    BY <2>3, CancelIInv
  <2>4. CASE UNCHANGED vars
    BY <2>4 DEF vars, IInv, TypeOK, Chunks, Windows, AtEnd
  <2> QED BY <2>1, <2>2, <2>3, <2>4 DEF Next, Terminated
<1> QED BY InitIInv, <1>1, PTL DEF Spec

(***************************************************************************)
(* No text of up to PeekSize + 1 bytes falls between the chunks of         *)
(* readInChunks or Chunker, for any sizes and any length of file.          *)
(***************************************************************************)
THEOREM NoWindowLost == Spec => []WindowsCovered
<1>1. IInv => WindowsCovered
  <2> SUFFICES ASSUME IInv, consumer = "left", ~ctxDone
               PROVE  Windows /\ AtEnd /\ slot = {} /\ pending = {}
    BY DEF WindowsCovered, Windows, AtEnd, IInv, TypeOK
  <2> QED BY DEF IInv, Chunks
<1> QED BY Invariance, <1>1, PTL

HIDE DEF Shorter, TotalSize

----------------------------------------------------------------------------
(* The chunk reader keeps its invariant whoever starts and consumes it.    *)

\* A reader that is started, or has not been, has covered what it has read.
LEMMA StartIInv ==
  /\ HandleInit => IInv
  /\ \A m \in {"reader", "memory"} : ReadText(m) /\ ctxDone' = ctxDone /\ ctxDone \in BOOLEAN => IInv'
<1>1. ASSUME HandleInit PROVE IInv
  <2>1. fails \in BOOLEAN /\ ctxDone \in BOOLEAN
    BY <1>1 DEF HandleInit
  <2>2. TypeOK
    BY <1>1, <2>1 DEF HandleInit, TypeOK
  <2>3. Chunks /\ Windows /\ AtEnd
    BY <1>1 DEF HandleInit, Chunks, Windows, AtEnd
  <2> QED BY <1>1, <2>2, <2>3 DEF HandleInit, IInv
<1>2. ASSUME NEW m \in {"reader", "memory"}, ReadText(m), ctxDone' = ctxDone, ctxDone \in BOOLEAN
      PROVE  IInv'
  <2>1. length' \in Nat /\ pos' = 0
    BY <1>2, ChunkerAssumption DEF ReadText
  <2>2. fails' \in BOOLEAN /\ (mode' = "memory" => ~fails')
    BY <1>2 DEF ReadText
  <2>3. TypeOK' /\ Chunks'
    BY <1>2, <2>1, <2>2 DEF ReadText, TypeOK, Chunks
  <2>4. Windows'
    BY <2>1 DEF Windows
  <2> QED BY <1>2, <2>2, <2>3, <2>4 DEF ReadText, IInv
<1> QED BY <1>1, <1>2

\* A context that is done only weakens what the invariant says.
LEMMA DoneIInv ==
  ASSUME IInv, UNCHANGED readerVars, ctxDone' \in {ctxDone, TRUE}
  PROVE  IInv'
<1>1. ctxDone' \in BOOLEAN /\ (~ctxDone' => ~ctxDone)
  BY DEF IInv, TypeOK
<1>2. TypeOK' /\ Chunks' /\ (Windows => Windows') /\ (AtEnd => AtEnd')
  BY <1>1 DEF IInv, TypeOK, Chunks, Windows, AtEnd, readerVars, fileVars
<1>3. UNCHANGED <<mode, fails, at, pending, slot, consumer>>
  BY DEF readerVars, fileVars
<1>4. ~ctxDone' => /\ Windows' /\ (at' = "ended" \/ (\E r \in pending' : r.last) => AtEnd')
                   /\ (consumer' = "left" => at' = "ended" /\ slot' = {})
  BY <1>1, <1>2, <1>3 DEF IInv
<1>5. mode' = "memory" => ~fails'
  BY <1>3 DEF IInv
<1> QED BY <1>2, <1>4, <1>5 DEF IInv

(***************************************************************************)
(* No text of up to PeekSize + 1 bytes falls between the chunks of a file, *)
(* or of a file in an archive.                                             *)
(***************************************************************************)
THEOREM NoWindowOfAFileLost == HandleSpec => []WindowsCovered
<1>1. IInv /\ [HandleNext]_<<handleVars, vars>> => IInv'
  <2> SUFFICES ASSUME IInv, [HandleNext]_<<handleVars, vars>> PROVE IInv'
    OBVIOUS
  <2>1. CASE ReadChunks
    BY <2>1, PassWholeIInv, ReadChunkIInv, SendIInv, OthersIInv DEF ReadChunks, Reader
  <2>2. CASE Walk \/ Source
    <3>1. CASE WriteChunk \/ WalkReceiveError \/ TextEnds \/ SourceReceives
      BY <3>1, ReceiveErrorIInv, OthersIInv
         DEF WriteChunk, WalkReceiveError, TextEnds, SourceReceives, Consumer
    <3>2. CASE handleNonArchiveContent \/ SourceReads
      BY <3>2, StartIInv DEF handleNonArchiveContent, SourceReads, IInv, TypeOK
    <3>3. CASE WalkFails \/ WalkEnds \/ OpenArchive \/ SourceDone
      BY <3>3, DoneIInv DEF WalkFails, WalkEnds, OpenArchive, SourceDone, EndWalk
    <3> QED BY <2>2, <3>1, <3>2, <3>3 DEF Walk, Source
  <2>3. CASE HandleFile \/ Timeout \/ CancelScan
    BY <2>3, DoneIInv DEF HandleFile, FromFile, Refuse, HandleChunk, HandleClosed,
                          HandleCancelled, Timeout, CancelScan
  <2>4. CASE UNCHANGED <<handleVars, vars>>
    BY <2>4, DoneIInv DEF vars, readerVars, fileVars
  <2> QED BY <2>1, <2>2, <2>3, <2>4 DEF HandleNext
<1>2. IInv => WindowsCovered
  <2> SUFFICES ASSUME IInv, consumer = "left", ~ctxDone
               PROVE  Windows /\ AtEnd /\ slot = {} /\ pending = {}
    BY DEF WindowsCovered, Windows, AtEnd, IInv, TypeOK
  <2> QED BY DEF IInv, Chunks
<1> QED BY StartIInv, <1>1, <1>2, PTL DEF HandleSpec

----------------------------------------------------------------------------
(***************************************************************************)
(* The walk.  Behind it lie only nodes it could open, at the depth they    *)
(* are nested at, and of those it has read every text; a walk that has     *)
(* ended in time met the end of the archive or a node it could not open.   *)
(***************************************************************************)
Unread == IF walk = "reading" THEN {node - 1} ELSE {}
WalkInv ==
  /\ tree \in Trees /\ node \in Nat \ {0} /\ depth \in [DOMAIN tree -> Nat]
  /\ \A i \in DOMAIN tree : i < node => depth[i] = tree[i].nesting
  /\ \A i \in DOMAIN tree : i < node /\ tree[i].kind # "skipped" => ~Unopenable(i)
  /\ walk \in {"off", "next", "reading", "closed"}
  /\ walk = "off" => node = 1 /\ leaves = {}
  /\ walk = "reading" => node - 1 \in DOMAIN tree /\ tree[node - 1].kind = "text"
  /\ ~ctxDone => /\ leaves = {i \in DOMAIN tree : i < node /\ tree[i].kind = "text"} \ Unread
                 /\ walk = "closed" /\ node \in DOMAIN tree =>
                      tree[node].kind # "skipped" /\ Unopenable(node)
  /\ handler = "start" => walk = "off"
  /\ handler = "handled" => walk = "closed" /\ archiveChan = <<>>

\* The depth a node is given is how deep it is nested.
LEMMA DepthIsNesting ==
  ASSUME WalkInv, node \in DOMAIN tree
  PROVE  DepthOf(node) = tree[node].nesting /\ tree[node].nesting \in Nat
<1>1. tree \in Seq([kind : Kinds, parent : Nat, nesting : Nat])
  BY ArchiveAssumption DEF WalkInv
<1>2. DOMAIN tree = 1..Len(tree) /\ Len(tree) \in Nat /\ tree[node].nesting \in Nat
  <2>1. DOMAIN tree = 1..Len(tree) /\ Len(tree) \in Nat
    BY <1>1
  <2>2. tree[node] \in [kind : Kinds, parent : Nat, nesting : Nat]
    BY <1>1, <2>1, ElementOfSeq
  <2> QED BY <2>1, <2>2
<1>3. CASE node = 1
  BY <1>2, <1>3, ArchiveAssumption DEF DepthOf, WalkInv
<1>4. CASE node # 1
  <2>1. /\ tree[node].parent \in 1..(node - 1)
        /\ tree[node].nesting = tree[tree[node].parent].nesting + 1
    BY <1>4, ArchiveAssumption DEF WalkInv
  <2>2. tree[node].parent \in DOMAIN tree /\ tree[node].parent < node
    <3> DEFINE q == tree[node].parent
    <3>1. node \in 1..Len(tree) /\ q \in 1..(node - 1)
      BY <1>2, <2>1
    <3> HIDE DEF q
    <3>2. q \in 1..Len(tree) /\ q < node
      BY <1>2, <3>1
    <3> QED BY <1>2, <3>2 DEF q
  <2> QED BY <1>2, <1>4, <2>1, <2>2 DEF DepthOf, WalkInv
<1> QED BY <1>3, <1>4

\* A node that is opened is behind the walk from then on.
LEMMA OpenedWalk ==
  ASSUME WalkInv, node \in DOMAIN tree, Opened(node), tree' = tree,
         tree[node].kind # "skipped" => ~Cannot(node)
  PROVE  /\ node' = node + 1 /\ node' \in Nat \ {0} /\ depth' \in [DOMAIN tree -> Nat]
         /\ \A i \in DOMAIN tree : i < node' => depth'[i] = tree[i].nesting
         /\ \A i \in DOMAIN tree : i < node' /\ tree[i].kind # "skipped" => ~Unopenable(i)
<1>1. DepthOf(node) = tree[node].nesting /\ tree[node].nesting \in Nat
  BY DepthIsNesting
<1>2. \A i \in DOMAIN tree : i \in Nat
  BY ArchiveAssumption DEF WalkInv
<1>3. \A i \in DOMAIN tree : i < node + 1 => i < node \/ i = node
  BY <1>2 DEF WalkInv
<1>4. node' = node + 1 /\ depth' = [depth EXCEPT ![node] = DepthOf(node)]
  BY DEF Opened
<1>5. tree[node].kind # "skipped" => ~Unopenable(node)
  BY <1>1, ArchiveAssumption DEF Cannot, Unopenable
<1> QED BY <1>1, <1>3, <1>4, <1>5 DEF WalkInv

\* What is behind the walk, and what it has left of it.
LEMMA WalkStep == WalkInv /\ Walk => WalkInv'
<1> SUFFICES ASSUME WalkInv, Walk PROVE WalkInv'
  OBVIOUS
<1>0. UNCHANGED <<tree, handler, ctxDone>> /\ handler # "start" /\ walk # "closed"
  BY DEF Walk, WalkFails, WalkEnds, EndWalk, OpenArchive, handleNonArchiveContent, WriteChunk,
         WalkReceiveError, TextEnds, handleVars, walkVars, readerVars, ReadText, ReceiveChunk,
         ReceiveError, ChunksExhausted, WalkInv, Opened
<1>1. \A i \in DOMAIN tree : i \in Nat
  BY ArchiveAssumption DEF WalkInv
<1>2. CASE WalkFails
  <2>1. node \in DOMAIN tree => DepthOf(node) = tree[node].nesting
    BY DepthIsNesting
  <2> QED BY <1>0, <1>2, <2>1 DEF WalkFails, EndWalk, Cannot, WalkInv, Unread, Unopenable
<1>3. CASE WalkEnds
  BY <1>0, <1>3 DEF WalkEnds, EndWalk, WalkInv, Unread, Unopenable
<1>4. CASE OpenArchive
  <2>1. /\ node \in DOMAIN tree /\ Opened(node) /\ walk = "next" /\ walk' = "next"
        /\ leaves' = leaves /\ tree[node].kind # "text"
        /\ tree[node].kind # "skipped" => ~Cannot(node)
    BY <1>4 DEF OpenArchive, Opened
  <2>2. /\ node' = node + 1 /\ node' \in Nat \ {0} /\ depth' \in [DOMAIN tree -> Nat]
        /\ \A i \in DOMAIN tree : i < node' => depth'[i] = tree[i].nesting
        /\ \A i \in DOMAIN tree : i < node' /\ tree[i].kind # "skipped" => ~Unopenable(i)
    BY <1>0, <2>1, OpenedWalk
  <2>3. \A i \in DOMAIN tree : tree[i].kind = "text" => (i < node' <=> i < node)
    BY <1>1, <2>1, <2>2 DEF WalkInv
  <2>4. ~ctxDone' => leaves' = {i \in DOMAIN tree : i < node' /\ tree[i].kind = "text"}
    BY <1>0, <2>1, <2>3 DEF WalkInv, Unread
  <2> QED BY <1>0, <2>1, <2>2, <2>4 DEF WalkInv, Unread, Unopenable
<1>5. CASE handleNonArchiveContent
  <2>1. /\ node \in DOMAIN tree /\ Opened(node) /\ walk = "next" /\ walk' = "reading"
        /\ leaves' = leaves /\ tree[node].kind = "text" /\ ~Cannot(node)
    BY <1>5 DEF handleNonArchiveContent, Opened
  <2>2. /\ node' = node + 1 /\ node' \in Nat \ {0} /\ depth' \in [DOMAIN tree -> Nat]
        /\ \A i \in DOMAIN tree : i < node' => depth'[i] = tree[i].nesting
        /\ \A i \in DOMAIN tree : i < node' /\ tree[i].kind # "skipped" => ~Unopenable(i)
    BY <1>0, <2>1, OpenedWalk
  <2>3. node' - 1 = node
    BY <2>2 DEF WalkInv
  <2>4. \A i \in DOMAIN tree : i < node' /\ i # node <=> i < node
    BY <1>1, <2>2 DEF WalkInv
  <2>5. ~ctxDone' => leaves' = {i \in DOMAIN tree : i < node' /\ tree[i].kind = "text"} \ {node}
    BY <1>0, <2>1, <2>4 DEF WalkInv, Unread
  <2> QED BY <1>0, <2>1, <2>2, <2>3, <2>5 DEF WalkInv, Unread, Unopenable
<1>6. CASE WriteChunk
  <2>1. /\ UNCHANGED <<node, depth, leaves>> /\ walk = "reading"
        /\ walk' = "reading" \/ (walk' = "closed" /\ ctxDone)
    <3>1. consumer' = "left" => ctxDone
      BY <1>6 DEF WriteChunk, ReceiveChunk
    <3> QED BY <1>6, <3>1 DEF WriteChunk
  <2>2. handler # "handled"
    BY <2>1 DEF WalkInv
  <2> QED BY <1>0, <2>1, <2>2 DEF WalkInv, Unread, Unopenable
<1>7. CASE WalkReceiveError
  BY <1>0, <1>7 DEF WalkReceiveError, handleVars, walkVars, WalkInv, Unread, Unopenable
<1>8. CASE TextEnds
  <2>1. /\ UNCHANGED <<node, depth>> /\ walk = "reading" /\ walk' = "next"
        /\ leaves' = leaves \cup {node - 1}
    BY <1>8 DEF TextEnds
  <2>2. node - 1 \in DOMAIN tree /\ tree[node - 1].kind = "text" /\ node - 1 < node
    BY <2>1 DEF WalkInv
  <2>3. ~ctxDone' => leaves' = {i \in DOMAIN tree : i < node' /\ tree[i].kind = "text"}
    BY <1>0, <2>1, <2>2 DEF WalkInv, Unread
  <2> QED BY <1>0, <2>1, <2>3 DEF WalkInv, Unread, Unopenable
<1> QED BY <1>2, <1>3, <1>4, <1>5, <1>6, <1>7, <1>8 DEF Walk

LEMMA OthersStep ==
  WalkInv /\ [HandleNext]_<<handleVars, vars>> /\ ~Walk => WalkInv'
<1> SUFFICES ASSUME WalkInv, [HandleNext]_<<handleVars, vars>>, ~Walk PROVE WalkInv'
  OBVIOUS
<1>1. CASE ReadChunks \/ Source \/ CancelScan \/ Timeout \/ UNCHANGED <<handleVars, vars>>
  <2>1. UNCHANGED <<tree, walk, node, depth, archiveChan, leaves, handler>>
        /\ (~ctxDone' => ~ctxDone)
    BY <1>1 DEF ReadChunks, Source, SourceReads, SourceReceives, SourceDone, CancelScan, Timeout,
                handleVars, walkVars, vars, Reader, PassWhole, ReadChunk, ReadEnd, Send,
                SendCancelled, Consumer, ReceiveError, ReceiveChunk, ChunksExhausted
  <2> QED BY <2>1 DEF WalkInv, Unread, Unopenable
<1>2. CASE FromFile
  BY <1>2 DEF FromFile, WalkInv, Unread, Unopenable
<1>3. CASE Refuse \/ HandleClosed \/ HandleCancelled
  BY <1>3 DEF Refuse, HandleClosed, HandleCancelled, walkVars, WalkInv, Unread, Unopenable
<1>4. CASE HandleChunk
  BY <1>4 DEF HandleChunk, WalkInv, Unread, Unopenable
<1> QED BY <1>1, <1>2, <1>3, <1>4 DEF HandleNext, HandleFile

(***************************************************************************)
(* A file that was handled, within its time, has been scanned, whatever    *)
(* the nesting of its archives.                                            *)
(***************************************************************************)
THEOREM HandledIsScanned == HandleSpec => []HandledMeansScanned
<1>1. HandleInit => WalkInv
  <2> SUFFICES ASSUME HandleInit PROVE WalkInv
    OBVIOUS
  <2>1. \A i \in DOMAIN tree : ~(i < 1)
    BY ArchiveAssumption DEF HandleInit
  <2> QED BY <2>1 DEF HandleInit, WalkInv, Unread
<1>2. WalkInv /\ [HandleNext]_<<handleVars, vars>> => WalkInv'
  BY WalkStep, OthersStep
<1>3. WalkInv => HandledMeansScanned
  <2> SUFFICES ASSUME WalkInv, handler = "handled", ~ctxDone
               PROVE  leaves = Reachable /\ archiveChan = <<>>
    BY DEF HandledMeansScanned
  <2>1. leaves = {i \in DOMAIN tree : i < node /\ tree[i].kind = "text"} /\ archiveChan = <<>>
    BY DEF WalkInv, Unread
  <2>2. DOMAIN tree = 1..Len(tree) /\ Len(tree) \in Nat
    BY ArchiveAssumption DEF WalkInv
  <2>3. ASSUME NEW i \in DOMAIN tree, i < node, tree[i].kind = "text" PROVE i \in Reachable
    <3>1. \A j \in 1..i : j \in DOMAIN tree /\ j < node
      BY <2>2, <2>3 DEF WalkInv
    <3> QED BY <2>3, <3>1 DEF WalkInv, Reachable
  <2>4. ASSUME NEW i \in Reachable PROVE i < node
    <3>1. i \in DOMAIN tree /\ \A j \in 1..i : tree[j].kind # "skipped" => ~Unopenable(j)
      BY <2>4 DEF Reachable
    <3>2. SUFFICES ASSUME node <= i PROVE FALSE
      BY <2>2, <3>1 DEF WalkInv
    <3>3. node \in 1..i /\ node \in DOMAIN tree
      BY <2>2, <3>1, <3>2 DEF WalkInv
    <3> QED BY <3>1, <3>3 DEF WalkInv
  <2> QED BY <2>1, <2>3, <2>4 DEF Reachable
<1> QED BY <1>1, <1>2, <1>3, PTL DEF HandleSpec
=============================================================================

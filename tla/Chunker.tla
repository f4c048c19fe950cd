------------------------------ MODULE Chunker ------------------------------
(***************************************************************************)
(* pkg/sources/chunker.go: data is cut into chunks of ChunkSize bytes, each *)
(* followed by a peek at the next PeekSize bytes, so that a secret across  *)
(* a boundary is whole in one of them.  A goroutine reads and a consumer   *)
(* scans; a byte is its position in the file.                              *)
(***************************************************************************)
EXTENDS Naturals, FiniteSets

CONSTANTS ChunkSize, PeekSize, MaxLength \* bound: bytes of a file

\* The buffer of the bufio.Reader, ChunkSize bytes, must hold a whole peek.
ASSUME ChunkerAssumption ==
  /\ ChunkSize \in Nat \ {0} /\ PeekSize \in 0..ChunkSize /\ MaxLength \in Nat

VARIABLES
  mode,      \* "reader": readInChunks of a stream; "memory": Chunker
  length,    \* bytes the file yields before its end or its failure
  fails,     \* whether it then fails, rather than ends
  pos,       \* bytes read successfully
  at,        \* the goroutine: "read", "send", "ended"
  pending,   \* the result it is about to send
  slot,      \* the channel, of capacity 1
  consumer,  \* "reading" or "left"
  scanned,   \* the chunks the consumer has passed on
  failures,  \* the errors it has seen
  ctxDone

vars == <<mode, length, fails, pos, at, pending, slot, consumer, scanned, failures,
          ctxDone>>
fileVars == <<mode, length, fails>>

TotalSize == ChunkSize + PeekSize
ChunkResults == [from : Nat, upto : Nat, err : BOOLEAN, last : BOOLEAN]

Init ==
  /\ mode \in {"reader", "memory"} /\ length \in 0..MaxLength /\ fails \in BOOLEAN
  /\ mode = "memory" => ~fails
  /\ pos = 0 /\ at = "read" /\ pending = {} /\ slot = {}
  /\ consumer = "reading" /\ scanned = {} /\ failures = 0 /\ ctxDone = FALSE

Shorter(m, n) == IF m <= n THEN m ELSE n

\* Chunker, when the whole chunk is small enough to be passed on as it is.
PassWhole ==
  /\ mode = "memory" /\ at = "read" /\ pos = 0 /\ length <= TotalSize
  /\ pending' = {[from |-> 0, upto |-> length, err |-> FALSE, last |-> TRUE]}
  /\ pos' = length /\ at' = "send"
  /\ UNCHANGED <<fileVars, slot, consumer, scanned, failures, ctxDone>>

\* WindowsCovered, faulty variant: the next chunk starts behind the peek.
ReadChunkSkipsPeek ==
  LET n == Shorter(ChunkSize, length - pos)
      err == n < ChunkSize /\ fails
      upto == Shorter(pos + TotalSize, length)
  IN
  /\ at = "read" /\ (n > 0 \/ err)
  /\ mode = "memory" => length > TotalSize
  /\ pending' = {[from |-> pos, upto |-> upto, err |-> err, last |-> n < ChunkSize]}
  /\ pos' = IF err THEN pos ELSE upto
  /\ at' = "send"
  /\ UNCHANGED <<fileVars, slot, consumer, scanned, failures, ctxDone>>

\* io.ReadFull and the peek.  A read that comes up short has met the end or
\* the failure of the file; its result, if it has anything to say, is the last.
ReadChunk ==
  LET n == Shorter(ChunkSize, length - pos)
      err == n < ChunkSize /\ fails
  IN
  /\ at = "read" /\ (n > 0 \/ err)
  /\ mode = "memory" => length > TotalSize
  /\ pending' = {[from |-> pos, upto |-> Shorter(pos + TotalSize, length), err |-> err,
                  last |-> n < ChunkSize]}
  /\ pos' = IF err THEN pos ELSE pos + n
  /\ at' = "send"
  /\ UNCHANGED <<fileVars, slot, consumer, scanned, failures, ctxDone>>

\* Nothing was read: the goroutine closes the channel.
ReadEnd ==
  /\ at = "read" /\ pos = length /\ ~fails
  /\ mode = "memory" => length > TotalSize
  /\ at' = "ended"
  /\ UNCHANGED <<fileVars, pos, pending, slot, consumer, scanned, failures, ctxDone>>

\* ReaderEnds, faulty variant: the send does not select on the context.
SendCancelledWaits ==
  /\ mode = "reader" /\ at = "send" /\ ctxDone /\ slot # {}
  /\ UNCHANGED vars

\* The channel has room; a result that ends the loop is the last.
Send ==
  /\ at = "send" /\ slot = {}
  /\ slot' = pending /\ pending' = {}
  /\ at' = IF \E r \in pending : r.last THEN "ended" ELSE "read"
  /\ UNCHANGED <<fileVars, pos, consumer, scanned, failures, ctxDone>>

\* The context wins the select, which it may even if the channel has room.
SendCancelled ==
  /\ mode = "reader" /\ at = "send" /\ ctxDone
  /\ at' = "ended" /\ pending' = {}
  /\ UNCHANGED <<fileVars, pos, slot, consumer, scanned, failures, ctxDone>>

\* Every consumer logs or returns the error, and drops the data beside it.
ReceiveError ==
  /\ consumer = "reading" /\ \E r \in slot : r.err
  /\ slot' = {} /\ failures' = failures + 1
  /\ UNCHANGED <<fileVars, pos, at, pending, consumer, scanned, ctxDone>>

\* The chunk is written on, or the context is done and the consumer returns.
ReceiveChunk ==
  /\ consumer = "reading" /\ \E r \in slot : ~r.err
  /\ slot' = {}
  /\ \/ scanned' = scanned \cup slot /\ UNCHANGED consumer
     \/ mode = "reader" /\ ctxDone /\ consumer' = "left" /\ UNCHANGED scanned
  /\ UNCHANGED <<fileVars, pos, at, pending, failures, ctxDone>>

\* The channel is closed and drained.
ChunksExhausted ==
  /\ consumer = "reading" /\ at = "ended" /\ slot = {}
  /\ consumer' = "left"
  /\ UNCHANGED <<fileVars, pos, at, pending, slot, scanned, failures, ctxDone>>

Cancel ==
  /\ mode = "reader" /\ ~ctxDone
  /\ ctxDone' = TRUE
  /\ UNCHANGED <<fileVars, pos, at, pending, slot, consumer, scanned, failures>>

Reader == PassWhole \/ ReadChunk \/ ReadEnd \/ Send \/ SendCancelled
Consumer == ReceiveError \/ ReceiveChunk \/ ChunksExhausted
Terminated == at = "ended" /\ consumer = "left" /\ UNCHANGED vars

Next == Reader \/ Consumer \/ Cancel \/ Terminated

Spec == Init /\ [][Next]_vars

\* Both goroutines are scheduled; consumers read until they return.
FairSpec == Spec /\ WF_vars(Reader) /\ WF_vars(Consumer)

----------------------------------------------------------------------------
(* Properties.                                                             *)

TypeOK ==
  /\ mode \in {"reader", "memory"} /\ length \in Nat /\ fails \in BOOLEAN
  /\ pos \in 0..length /\ at \in {"read", "send", "ended"}
  /\ pending \in SUBSET ChunkResults /\ slot \in SUBSET ChunkResults
  /\ consumer \in {"reading", "left"} /\ scanned \in SUBSET ChunkResults
  /\ failures \in Nat /\ ctxDone \in BOOLEAN

Within(a, b, chunks) == \E r \in chunks : ~r.err /\ r.from <= a /\ b <= r.upto

(***************************************************************************)
(* A text of up to PeekSize + 1 bytes is whole in some chunk the consumer  *)
(* passes on, wherever it lies, unless the scan is cancelled.  A file that *)
(* fails is covered but for what its failing read returned, fewer than     *)
(* ChunkSize bytes.                                                        *)
(***************************************************************************)
WindowsCovered ==
  consumer = "left" /\ ~ctxDone =>
    /\ \A a \in 0..(pos - 1) : \A b \in a..length :
         b - a <= PeekSize + 1 => Within(a, b, scanned)
    /\ IF fails THEN length < pos + ChunkSize ELSE length = pos

\* A failure of the file reaches the consumer, once, and ends the loop.
ErrorReportedOnce ==
  /\ failures <= 1
  /\ consumer = "left" /\ ~ctxDone => failures = IF fails THEN 1 ELSE 0

\* The goroutine ends although its consumer stops reading when the context is
\* done (TestReadInChunksWithCancellation).
ReaderEnds == <>(at = "ended")

(***************************************************************************)
(* The inductive invariant of WindowsCovered: texts that start before pos  *)
(* are whole in a chunk that is scanned, in the channel or about to be     *)
(* sent; the goroutine stops only at the end of the file; and the consumer *)
(* leaves an uncancelled scan only when nothing is left for it.            *)
(***************************************************************************)
Windows == \A a \in 0..(pos - 1) : \A b \in a..length :
             b - a <= PeekSize + 1 => Within(a, b, scanned \cup slot \cup pending)
AtEnd == IF fails THEN length < pos + ChunkSize ELSE length = pos
Chunks == /\ \A r, s \in slot : r = s
          /\ at # "send" => pending = {}
          /\ at = "send" => \E r \in pending : pending = {r}
IInv ==
  /\ TypeOK /\ Chunks /\ (mode = "memory" => ~fails)
  /\ ~ctxDone =>
       /\ Windows
       /\ at = "ended" \/ (\E r \in pending : r.last) => AtEnd
       /\ consumer = "left" => at = "ended" /\ slot = {}
=============================================================================

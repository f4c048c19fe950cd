---------------------------- MODULE SpoolWriter ----------------------------
(***************************************************************************)
(* The content writers of large diffs                                      *)
(* (pkg/writers/buffered_file_writer/bufferedfilewriter.go and             *)
(* pkg/writers/buffer/buffer.go): a BufferedFileWriter gathers text in a   *)
(* buffer of a shared pool and moves to a temporary file when the text     *)
(* exceeds the threshold.  A parser creates, fills and closes its writers  *)
(* one after another; the goroutine that scans the diffs reads them, at    *)
(* its own pace, while later ones are filled.  Repositories are scanned    *)
(* concurrently, each with a parser of its own, and the pool is one for    *)
(* the process.                                                            *)
(*                                                                         *)
(* A piece of text is [by, no, len]: its writer, its number and its length *)
(* in bytes.  Two writers that use one buffer at once race; of the         *)
(* outcomes only the interleavings of whole pieces are modelled, and no    *)
(* property speaks of the text of such writers.                            *)
(***************************************************************************)
EXTENDS Naturals, Sequences, FiniteSets, SequencesExt

CONSTANTS
  Writers,
  Parsers, ParserOf,  \* the goroutine that fills each writer
  Buffers,            \* buffers that may come to exist
  None,
  Threshold,          \* BufferedFileWriter.threshold
  MaxCap,             \* a buffer that has grown over it does not go back to the pool
  Lengths,            \* lengths of a write
  MaxWrites           \* bound: writes of all writers

Pieces == [by : Writers, no : Nat, len : Nat]

ASSUME SpoolAssumption ==
  /\ ParserOf \in [Writers -> Parsers]
  /\ None \notin Buffers /\ None \notin Seq(Pieces)
  /\ {Threshold, MaxCap, MaxWrites} \subseteq Nat /\ Lengths \subseteq Nat \ {0}

VARIABLES
  phase,   \* "new", "write", "read", "open" (being read), "closed", or "failed" to open
  buf,     \* the buffer of a writer, which is never forgotten
  file,    \* the text in its temporary file, or None
  onDisk,  \* the writers whose temporary file is in the directory
  size,    \* BufferedFileWriter.size
  text,    \* the text in each buffer
  large,   \* the buffers that have grown over MaxCap
  pool,    \* the buffers in the pool
  fresh,   \* the buffers not yet made
  wrote,   \* what was given to each writer, in order
  failed,  \* the writers one of whose writes, or whose closing, has failed
  mixed,   \* the writers that have shared their buffer, or got it with text in it
  got      \* what was read back

spoolVars == <<phase, buf, file, onDisk, size, text, large, pool, fresh, wrote, failed, mixed, got>>

Length(s) == FoldLeft(LAMBDA n, piece : n + piece.len, 0, s)

----------------------------------------------------------------------------
SpoolInit ==
  /\ phase = [w \in Writers |-> "new"]
  /\ buf = [w \in Writers |-> None] /\ file = [w \in Writers |-> None]
  /\ onDisk = {} /\ size = [w \in Writers |-> 0]
  /\ text = [b \in Buffers |-> <<>>] /\ large = {}
  /\ pool = {} /\ fresh = Buffers
  /\ wrote = [w \in Writers |-> <<>>] /\ failed = {} /\ mixed = {}
  /\ got = [w \in Writers |-> <<>>]

\* A writer that may still write, or whose text is still to be read from its buffer.
Uses(w) == phase[w] = "write" \/ (phase[w] \in {"read", "open"} /\ file[w] = None)
Users(b) == {w \in Writers : Uses(w) /\ buf[w] = b}

(***************************************************************************)
(* A buffer of the pool, or a new one: sync.Pool may drop what it holds    *)
(* and keeps a pool for each processor.  Get does not reset it.            *)
(***************************************************************************)
New(w) ==
  /\ phase[w] = "new"
  /\ \A v \in Writers : ParserOf[v] = ParserOf[w] => phase[v] # "write"
  /\ \E b \in pool \cup fresh :
       /\ buf' = [buf EXCEPT ![w] = b]
       /\ pool' = pool \ {b} /\ fresh' = fresh \ {b}
       /\ mixed' = IF Users(b) = {} /\ text[b] = <<>> THEN mixed ELSE mixed \cup Users(b) \cup {w}
  /\ phase' = [phase EXCEPT ![w] = "write"]
  /\ UNCHANGED <<file, onDisk, size, text, large, wrote, failed, got>>

\* A large buffer is replaced by a new one, and stays as it is with whoever still has it.
PoolAfterPut(b) == IF b \in large THEN pool ELSE pool \cup {b}
TextAfterPut(b) == IF b \in large THEN text ELSE [text EXCEPT ![b] = <<>>]

\* The parser gives w a piece of n bytes.
Piece(w, n) == [by |-> w, no |-> Len(wrote[w]) + 1, len |-> n]
Writes == FoldSet(LAMBDA w, n : Len(wrote[w]) + n, 0, Writers)
Given(w, n) ==
  /\ phase[w] = "write" /\ Writes < MaxWrites
  /\ wrote' = [wrote EXCEPT ![w] = Append(@, Piece(w, n))]
  /\ size' = [size EXCEPT ![w] = @ + n]
  /\ UNCHANGED <<phase, buf, fresh, mixed, got>>

FitsBuffer(w, n) == Length(text[buf[w]]) + n <= Threshold

WriteBuffer(w, n) ==
  /\ Given(w, n) /\ FitsBuffer(w, n)
  /\ text' = [text EXCEPT ![buf[w]] = Append(@, Piece(w, n))]
  /\ large' = IF Length(text[buf[w]]) + n > MaxCap THEN large \cup {buf[w]} ELSE large
  /\ UNCHANGED <<file, onDisk, pool, failed>>

\* The piece is written before the text it comes after.
TransferBehind(w, ending) ==
  /\ file[w] = None
  /\ file' = [file EXCEPT ![w] = ending \o text[buf[w]]]
  /\ onDisk' = onDisk \cup {w}
  /\ text' = [text EXCEPT ![buf[w]] = <<>>]
  /\ pool' = IF text[buf[w]] = <<>> THEN pool ELSE PoolAfterPut(buf[w])

\* The text in the buffer, if any, moves to a new file, and the buffer to the pool.
Transfer(w, ending) ==
  /\ file[w] = None
  /\ file' = [file EXCEPT ![w] = text[buf[w]] \o ending]
  /\ onDisk' = onDisk \cup {w}
  /\ text' = [text EXCEPT ![buf[w]] = <<>>]
  /\ pool' = IF text[buf[w]] = <<>> THEN pool ELSE PoolAfterPut(buf[w])

WriteSwitch(w, n) ==
  /\ Given(w, n) /\ ~FitsBuffer(w, n)
  /\ Transfer(w, <<Piece(w, n)>>)
  /\ UNCHANGED <<large, failed>>

WriteFile(w, n) ==
  /\ Given(w, n) /\ ~FitsBuffer(w, n) /\ file[w] # None
  /\ file' = [file EXCEPT ![w] = Append(@, Piece(w, n))]
  /\ UNCHANGED <<onDisk, text, large, pool, failed>>

(***************************************************************************)
(* The piece cannot be written to the file, or the file not be created; or *)
(* the text in the buffer cannot be moved to it; or it can, but not the    *)
(* piece behind it.                                                        *)
(***************************************************************************)
WriteFails(w, n) ==
  /\ Given(w, n) /\ ~FitsBuffer(w, n)
  /\ failed' = failed \cup {w}
  /\ \/ UNCHANGED <<file, onDisk, text, pool>>
     \/ /\ file[w] = None /\ text[buf[w]] # <<>>
        /\ file' = [file EXCEPT ![w] = <<>>] /\ onDisk' = onDisk \cup {w}
        /\ UNCHANGED <<text, pool>>
     \/ Transfer(w, <<>>)
  /\ UNCHANGED large

\* What is in the buffer goes to the file, whoever wrote it.
CloseForWriting(w) ==
  /\ phase[w] = "write"
  /\ phase' = [phase EXCEPT ![w] = "read"]
  /\ IF file[w] = None THEN UNCHANGED <<file, text>>
     ELSE /\ file' = [file EXCEPT ![w] = @ \o text[buf[w]]]
          /\ text' = [text EXCEPT ![buf[w]] = <<>>]
  /\ UNCHANGED <<buf, onDisk, size, large, pool, fresh, wrote, failed, mixed, got>>

\* The file cannot take it: the error is logged, and the text stays in the buffer.
CloseForWritingFails(w) ==
  /\ phase[w] = "write" /\ file[w] # None /\ text[buf[w]] # <<>>
  /\ phase' = [phase EXCEPT ![w] = "read"]
  /\ failed' = failed \cup {w}
  /\ UNCHANGED <<buf, file, onDisk, size, text, large, pool, fresh, wrote, mixed, got>>

\* The buffer goes back to the pool before it has been read.
ReadCloserPutsEarly(w) ==
  /\ phase[w] = "read"
  /\ phase' = [phase EXCEPT ![w] = IF file[w] # None /\ w \notin onDisk THEN "failed" ELSE "open"]
  /\ pool' = IF file[w] = None THEN pool \cup {buf[w]} ELSE pool
  /\ UNCHANGED <<buf, file, onDisk, size, text, large, fresh, wrote, failed, mixed, got>>

\* A file that is not in the directory any more cannot be opened.
ReadCloser(w) ==
  /\ phase[w] = "read"
  /\ phase' = [phase EXCEPT ![w] = IF file[w] # None /\ w \notin onDisk THEN "failed" ELSE "open"]
  /\ UNCHANGED <<buf, file, onDisk, size, text, large, pool, fresh, wrote, failed, mixed, got>>

(***************************************************************************)
(* The reader of a buffer looks at its bytes when they are read, and gives *)
(* the buffer back when it is closed; that of a file deletes the file.     *)
(***************************************************************************)
Close(w) ==
  /\ phase[w] = "open"
  /\ phase' = [phase EXCEPT ![w] = "closed"]
  /\ got' = [got EXCEPT ![w] = IF file[w] = None THEN text[buf[w]] ELSE file[w]]
  /\ IF file[w] = None
     THEN /\ pool' = PoolAfterPut(buf[w]) /\ text' = TextAfterPut(buf[w])
          /\ UNCHANGED onDisk
     ELSE onDisk' = onDisk \ {w} /\ UNCHANGED <<pool, text>>
  /\ UNCHANGED <<buf, file, size, large, fresh, wrote, failed, mixed>>

Write(w) ==
  \E n \in Lengths : WriteBuffer(w, n) \/ WriteSwitch(w, n) \/ WriteFails(w, n) \/ WriteFile(w, n)

SpoolStep(w) ==
  New(w) \/ Write(w) \/ CloseForWriting(w) \/ CloseForWritingFails(w) \/ ReadCloser(w) \/ Close(w)

SpoolSpec == SpoolInit /\ [][\E w \in Writers : SpoolStep(w)]_spoolVars

\* The process ends: its writers and its pool are gone, their files stay.
SpoolGone ==
  /\ phase' = [w \in Writers |-> "new"]
  /\ buf' = [w \in Writers |-> None] /\ file' = [w \in Writers |-> None]
  /\ size' = [w \in Writers |-> 0]
  /\ text' = [b \in Buffers |-> <<>>] /\ large' = {}
  /\ pool' = {} /\ fresh' = Buffers
  /\ wrote' = [w \in Writers |-> <<>>] /\ failed' = {} /\ mixed' = {}
  /\ got' = [w \in Writers |-> <<>>]
  /\ UNCHANGED onDisk

----------------------------------------------------------------------------
(* Properties.                                                             *)

SpoolTypeOK ==
  /\ phase \in [Writers -> {"new", "write", "read", "open", "closed", "failed"}]
  /\ buf \in [Writers -> Buffers \cup {None}]
  /\ \A w \in Writers : phase[w] # "new" => buf[w] \in Buffers
  /\ file \in [Writers -> Seq(Pieces) \cup {None}] /\ onDisk \subseteq Writers
  /\ size \in [Writers -> Nat] /\ failed \subseteq Writers /\ mixed \subseteq Writers
  /\ text \in [Buffers -> Seq(Pieces)]
  /\ wrote \in [Writers -> Seq(Pieces)] /\ got \in [Writers -> Seq(Pieces)]
  /\ large \subseteq Buffers /\ pool \subseteq Buffers /\ fresh \subseteq Buffers

(***************************************************************************)
(* However many parsers share the pool, no buffer is the only home of the  *)
(* text of two writers: of two that use one, one has switched to a file.   *)
(* While a writer uses a buffer the pool does not have it, and what the    *)
(* pool has is empty, but for that of a writer that has switched, which    *)
(* Put its buffer and kept it.                                             *)
(***************************************************************************)
SoleUser ==
  /\ \A v, w \in Writers : v # w /\ Uses(v) /\ Uses(w) /\ buf[v] = buf[w] =>
       file[v] # None \/ file[w] # None
  /\ \A w \in Writers : Uses(w) /\ buf[w] \in pool => file[w] # None
  /\ \A b \in pool : text[b] # <<>> => \E w \in Writers : buf[w] = b /\ file[w] # None

(***************************************************************************)
(* What is read back is what was written, each piece once and in order,    *)
(* but for an end of at most Threshold bytes, in order too, which text     *)
(* written behind it may have overtaken: what the emptied buffer took when *)
(* more than Threshold bytes had been written.  That of a writer which had *)
(* its buffer to itself and none of whose writes has failed.               *)
(***************************************************************************)
InOrder(s) == \A i, j \in DOMAIN s : i < j => s[i].no < s[j].no
Late(s, all) ==
  Length(s) <= Threshold /\ \A i \in DOMAIN s : Length(SubSeq(all, 1, s[i].no - 1)) > Threshold
Restores(s, all) ==
  /\ Len(s) = Len(all) /\ ToSet(s) = ToSet(all)
  /\ \E k \in 0..Len(s) :
       LET end == SubSeq(s, k + 1, Len(s))
       IN InOrder(SubSeq(s, 1, k)) /\ InOrder(end) /\ Late(end, all)
ReadBackWhole ==
  \A w \in Writers : phase[w] = "closed" /\ w \notin failed \cup mixed => Restores(got[w], wrote[w])

(***************************************************************************)
(* A claim the code does not keep: "This ensures all the data is in one    *)
(* place - either entirely in the buffer or the file", and is read in the  *)
(* order it was written.                                                   *)
(***************************************************************************)
ReadBackInOrder ==
  \A w \in Writers : phase[w] = "closed" /\ w \notin failed \cup mixed => got[w] = wrote[w]

(***************************************************************************)
(* Another: a buffer that is used is not shared, and comes empty.  It is   *)
(* so only while one parser fills the writers and no write fails.          *)
(***************************************************************************)
BuffersNeverShared == mixed = {}
=============================================================================

--------------------------- MODULE CleanTempProofs ---------------------------
(***************************************************************************)
(* What a buffer of the pool and a file of the shared directory may be     *)
(* taken from, for any number of parsers, writers, buffers, processes and  *)
(* cleaners.                                                               *)
(***************************************************************************)
EXTENDS CleanTemp, FoldTheorems, TLAPS

----------------------------------------------------------------------------
(* The types of the spooled text.                                          *)

LEMMA InitTypes == SpoolInit => SpoolTypeOK
BY SpoolAssumption DEF SpoolInit, SpoolTypeOK

LEMMA PutTypes ==
  ASSUME SpoolTypeOK, NEW b \in Buffers
  PROVE  PoolAfterPut(b) \subseteq Buffers /\ TextAfterPut(b) \in [Buffers -> Seq(Pieces)]
BY DEF SpoolTypeOK, PoolAfterPut, TextAfterPut

LEMMA AppendType ==
  ASSUME SpoolTypeOK, NEW w \in Writers, NEW n \in Lengths, NEW s \in Seq(Pieces)
  PROVE  /\ Piece(w, n) \in Pieces /\ Append(s, Piece(w, n)) \in Seq(Pieces)
         /\ Append(s, Piece(w, n)) # None /\ <<Piece(w, n)>> \in Seq(Pieces)
<1>1. Piece(w, n) \in Pieces
  BY SpoolAssumption DEF Piece, Pieces, SpoolTypeOK
<1>2. Append(s, Piece(w, n)) \in Seq(Pieces) /\ <<Piece(w, n)>> \in Seq(Pieces)
  BY <1>1
<1> QED BY <1>1, <1>2, SpoolAssumption

\* The switch to a file.
LEMMA TransferTypes ==
  ASSUME SpoolTypeOK, NEW w \in Writers, phase[w] = "write", NEW s \in Seq(Pieces), Transfer(w, s)
  PROVE  /\ file' \in [Writers -> Seq(Pieces) \cup {None}] /\ onDisk' \subseteq Writers
         /\ text' \in [Buffers -> Seq(Pieces)]
         /\ pool' \subseteq Buffers /\ pool' \subseteq pool \cup {buf[w]}
         /\ file'[w] = text[buf[w]] \o s /\ file'[w] # None /\ text'[buf[w]] = <<>>
         /\ \A v \in Writers : v # w => file'[v] = file[v]
         /\ \A b \in Buffers : b # buf[w] => text'[b] = text[b]
<1> HIDE DEF Pieces
<1>1. buf[w] \in Buffers /\ text[buf[w]] \in Seq(Pieces)
  BY DEF SpoolTypeOK
<1> DEFINE t == text[buf[w]] \o s
<1>2. t \in Seq(Pieces) /\ <<>> \in Seq(Pieces)
  BY <1>1, ConcatProperties
<1>3. file' = [file EXCEPT ![w] = t]
  BY DEF Transfer
<1> HIDE DEF t
<1>4. file' \in [Writers -> Seq(Pieces) \cup {None}] /\ file'[w] = t
      /\ \A v \in Writers : v # w => file'[v] = file[v]
  BY <1>2, <1>3 DEF SpoolTypeOK
<1>5. t # None
  BY <1>2, SpoolAssumption
<1>6. /\ onDisk' \subseteq Writers /\ pool' \subseteq Buffers /\ pool' \subseteq pool \cup {buf[w]}
      /\ text' \in [Buffers -> Seq(Pieces)] /\ text'[buf[w]] = <<>>
      /\ \A b \in Buffers : b # buf[w] => text'[b] = text[b]
  BY <1>1, <1>2 DEF Transfer, PoolAfterPut, SpoolTypeOK
<1>7. file'[w] = text[buf[w]] \o s
  BY <1>4 DEF t
<1> QED BY <1>4, <1>5, <1>6, <1>7

LEMMA WriteTypes ==
  ASSUME SpoolTypeOK, NEW w \in Writers, NEW n \in Lengths,
         WriteBuffer(w, n) \/ WriteSwitch(w, n) \/ WriteFails(w, n) \/ WriteFile(w, n)
  PROVE  SpoolTypeOK'
<1>1. Piece(w, n) \in Pieces /\ n \in Nat
  BY SpoolAssumption DEF Piece, Pieces, SpoolTypeOK
<1>2. /\ Given(w, n) /\ buf[w] \in Buffers /\ phase[w] = "write"
      /\ wrote' = [wrote EXCEPT ![w] = Append(@, Piece(w, n))]
      /\ size' = [size EXCEPT ![w] = @ + n]
      /\ UNCHANGED <<phase, buf, fresh, mixed, got>>
  BY DEF Given, SpoolTypeOK, WriteBuffer, WriteSwitch, WriteFails, WriteFile
<1>3. Append(text[buf[w]], Piece(w, n)) \in Seq(Pieces) /\ wrote' \in [Writers -> Seq(Pieces)]
      /\ size' \in [Writers -> Nat]
  BY <1>1, <1>2 DEF SpoolTypeOK
<1>4. <<Piece(w, n)>> \in Seq(Pieces) /\ <<>> \in Seq(Pieces)
  BY <1>1
<1> HIDE DEF Pieces
<1>5. CASE WriteBuffer(w, n)
  BY <1>2, <1>3, <1>5 DEF WriteBuffer, SpoolTypeOK
<1>6. CASE WriteSwitch(w, n)
  <2>1. /\ file' \in [Writers -> Seq(Pieces) \cup {None}] /\ onDisk' \subseteq Writers
        /\ text' \in [Buffers -> Seq(Pieces)] /\ pool' \subseteq Buffers
    BY <1>2, <1>4, <1>6, TransferTypes DEF WriteSwitch
  <2> QED BY <1>2, <1>3, <1>6, <2>1 DEF WriteSwitch, SpoolTypeOK
<1>7. CASE WriteFails(w, n)
  <2>1. /\ file' \in [Writers -> Seq(Pieces) \cup {None}] /\ onDisk' \subseteq Writers
        /\ text' \in [Buffers -> Seq(Pieces)] /\ pool' \subseteq Buffers
    <3>1. CASE Transfer(w, <<>>)
      BY <1>2, <1>4, <3>1, TransferTypes
    <3>2. CASE ~Transfer(w, <<>>)
      <4>1. /\ text' = text /\ pool' = pool /\ onDisk' \in {onDisk, onDisk \cup {w}}
            /\ file' = file \/ file' = [file EXCEPT ![w] = <<>>]
        BY <1>7, <3>2 DEF WriteFails
      <4>2. file' \in [Writers -> Seq(Pieces) \cup {None}]
        <5>1. <<>> \in Seq(Pieces) /\ file \in [Writers -> Seq(Pieces) \cup {None}]
          BY DEF SpoolTypeOK
        <5> QED BY <4>1, <5>1
      <4> QED BY <4>1, <4>2 DEF SpoolTypeOK
    <3> QED BY <3>1, <3>2
  <2> QED BY <1>2, <1>3, <1>7, <2>1 DEF WriteFails, SpoolTypeOK
<1>8. CASE WriteFile(w, n)
  <2>1. file[w] \in Seq(Pieces)
    BY <1>8 DEF WriteFile, SpoolTypeOK
  <2>2. Append(file[w], Piece(w, n)) \in Seq(Pieces)
    BY <1>1, <2>1
  <2> QED BY <1>2, <1>3, <1>8, <2>2 DEF WriteFile, SpoolTypeOK
<1> QED BY <1>5, <1>6, <1>7, <1>8

LEMMA StepTypes ==
  ASSUME SpoolTypeOK, NEW w \in Writers, SpoolStep(w)
  PROVE  SpoolTypeOK'
<1>1. CASE New(w)
  BY <1>1 DEF New, Users, SpoolTypeOK
<1>2. CASE Write(w)
  BY <1>2, WriteTypes DEF Write
<1>3. CASE CloseForWriting(w)
  <2>1. file[w] # None => file[w] \o text[buf[w]] \in Seq(Pieces)
    BY <1>3, ConcatProperties DEF CloseForWriting, SpoolTypeOK
  <2>2. <<>> \in Seq(Pieces) /\ buf[w] \in Buffers
    BY <1>3 DEF CloseForWriting, SpoolTypeOK
  <2>3. file' \in [Writers -> Seq(Pieces) \cup {None}] /\ text' \in [Buffers -> Seq(Pieces)]
    BY <1>3, <2>1, <2>2 DEF CloseForWriting, SpoolTypeOK
  <2> QED BY <1>3, <2>3 DEF CloseForWriting, SpoolTypeOK
<1>4. CASE CloseForWritingFails(w)
  BY <1>4 DEF CloseForWritingFails, SpoolTypeOK
<1>5. CASE ReadCloser(w)
  BY <1>5 DEF ReadCloser, SpoolTypeOK
<1>6. CASE Close(w)
  <2>1. (IF file[w] = None THEN text[buf[w]] ELSE file[w]) \in Seq(Pieces) /\ buf[w] \in Buffers
    BY <1>6 DEF Close, SpoolTypeOK
  <2> QED BY <1>6, <2>1, PutTypes DEF Close, SpoolTypeOK
<1> QED BY <1>1, <1>2, <1>3, <1>4, <1>5, <1>6 DEF SpoolStep

----------------------------------------------------------------------------
(* The buffers.  SoleUser is inductive with the types it needs and with    *)
(* the facts that a buffer some writer has had is not a new one, and that  *)
(* a new writer has no file.                                               *)

BuffersInv ==
  /\ SpoolTypeOK /\ SoleUser
  /\ \A w \in Writers : IF phase[w] = "new" THEN file[w] = None ELSE buf[w] \notin fresh

\* A new writer takes a buffer that nobody uses, or only writers that have switched.
LEMMA NewBuffers ==
  ASSUME BuffersInv, NEW w \in Writers, New(w)
  PROVE  BuffersInv'
<1>1. PICK b \in pool \cup fresh :
        buf' = [buf EXCEPT ![w] = b] /\ pool' = pool \ {b} /\ fresh' = fresh \ {b}
  BY DEF New
<1>2. /\ phase[w] = "new" /\ phase' = [phase EXCEPT ![w] = "write"]
      /\ file' = file /\ text' = text /\ file[w] = None
  BY DEF New, BuffersInv
<1>3. SpoolTypeOK'
  BY StepTypes DEF BuffersInv, SpoolStep
<1>4. ASSUME NEW v \in Writers, Uses(v), buf[v] = b PROVE file[v] # None
  BY <1>1, <1>4 DEF BuffersInv, SoleUser, Uses
<1>5. ASSUME NEW v \in Writers, v # w
      PROVE  (Uses(v)' <=> Uses(v)) /\ buf'[v] = buf[v] /\ phase'[v] = phase[v]
  BY <1>1, <1>2, <1>5 DEF Uses, BuffersInv, SpoolTypeOK
<1>6. buf'[w] = b /\ b \notin pool' /\ b \notin fresh' /\ phase'[w] = "write"
  BY <1>1, <1>2 DEF BuffersInv, SpoolTypeOK
<1>7. (\A v, x \in Writers : v # x /\ Uses(v) /\ Uses(x) /\ buf[v] = buf[x] =>
         file[v] # None \/ file[x] # None)'
  BY <1>2, <1>4, <1>5, <1>6 DEF BuffersInv, SoleUser
<1>8. (\A v \in Writers : Uses(v) /\ buf[v] \in pool => file[v] # None)'
  BY <1>1, <1>2, <1>5, <1>6 DEF BuffersInv, SoleUser
<1>9. ASSUME NEW c \in pool', text'[c] # <<>>
      PROVE  \E v \in Writers : buf'[v] = c /\ file'[v] # None
  <2>1. PICK v \in Writers : buf[v] = c /\ file[v] # None
    BY <1>1, <1>2, <1>9 DEF BuffersInv, SoleUser
  <2> QED BY <1>2, <1>5, <2>1
<1>10. (\A v \in Writers : IF phase[v] = "new" THEN file[v] = None ELSE buf[v] \notin fresh)'
  BY <1>1, <1>2, <1>5, <1>6 DEF BuffersInv
<1> QED BY <1>3, <1>7, <1>8, <1>9, <1>10 DEF BuffersInv, SoleUser

(***************************************************************************)
(* Any other step leaves a writer its buffer: only the text of w's own     *)
(* changes, a buffer comes to the pool empty, from w, which had no file    *)
(* and now has one or has been closed, and no file is forgotten.           *)
(***************************************************************************)
Settles(w) ==
  /\ buf' = buf /\ fresh' = fresh /\ phase[w] # "new"
  /\ \A v \in Writers : (phase'[v] = "new" <=> phase[v] = "new") /\ (Uses(v)' => Uses(v))
  /\ \A v \in Writers : v # w => file'[v] = file[v]
  /\ file[w] # None => file'[w] # None
  /\ pool' \subseteq pool \cup {buf[w]}
  /\ buf[w] \in pool' \ pool =>
       /\ Uses(w) /\ file[w] = None /\ text'[buf[w]] = <<>>
       /\ file'[w] # None \/ ~Uses(w)'
  /\ \A b \in Buffers : b # buf[w] => text'[b] = text[b]
  /\ Uses(w) \/ text'[buf[w]] = text[buf[w]]

LEMMA SettledBuffers ==
  ASSUME BuffersInv, SpoolTypeOK', NEW w \in Writers, Settles(w)
  PROVE  BuffersInv'
<1>1. ASSUME NEW v \in Writers, file[v] # None PROVE file'[v] # None
  BY <1>1 DEF Settles
<1>2. (\A v, x \in Writers : v # x /\ Uses(v) /\ Uses(x) /\ buf[v] = buf[x] =>
         file[v] # None \/ file[x] # None)'
  BY <1>1 DEF BuffersInv, SoleUser, Settles
<1>3. ASSUME NEW v \in Writers, Uses(v)', buf[v] \in pool' PROVE file'[v] # None
  <2>1. Uses(v)
    BY <1>3 DEF Settles
  <2>2. CASE buf[v] \in pool
    BY <1>1, <2>1, <2>2 DEF BuffersInv, SoleUser
  <2>3. CASE buf[v] \notin pool
    <3>1. buf[v] = buf[w] /\ Uses(w) /\ file[w] = None /\ (file'[w] # None \/ ~Uses(w)')
      BY <1>3, <2>3 DEF Settles
    <3>2. CASE v = w
      BY <1>3, <3>1, <3>2
    <3>3. CASE v # w
      BY <1>1, <2>1, <3>1, <3>3 DEF BuffersInv, SoleUser
    <3> QED BY <3>2, <3>3
  <2> QED BY <2>2, <2>3
<1>4. ASSUME NEW c \in pool', text'[c] # <<>>
      PROVE  \E v \in Writers : buf[v] = c /\ file'[v] # None
  <2>1. c \in pool /\ c \in Buffers
    BY <1>4 DEF Settles, SpoolTypeOK
  <2>2. CASE text'[c] = text[c]
    <3>1. PICK v \in Writers : buf[v] = c /\ file[v] # None
      BY <1>4, <2>1, <2>2 DEF BuffersInv, SoleUser
    <3> QED BY <1>1, <3>1
  <2>3. CASE text'[c] # text[c]
    <3>1. c = buf[w] /\ Uses(w)
      BY <2>1, <2>3 DEF Settles
    <3> QED BY <1>1, <2>1, <3>1 DEF BuffersInv, SoleUser
  <2> QED BY <2>2, <2>3
<1>5. (\A v \in Writers : IF phase[v] = "new" THEN file[v] = None ELSE buf[v] \notin fresh)'
  BY DEF BuffersInv, Settles
<1>6. buf' = buf
  BY DEF Settles
<1> QED BY <1>2, <1>3, <1>4, <1>5, <1>6 DEF BuffersInv, SoleUser

\* A write leaves the buffers where they are, but for the switch to a file.
LEMMA WriteSettles ==
  ASSUME BuffersInv, NEW w \in Writers, NEW n \in Lengths,
         WriteBuffer(w, n) \/ WriteSwitch(w, n) \/ WriteFails(w, n) \/ WriteFile(w, n)
  PROVE  Settles(w)
<1>1. phase' = phase /\ buf' = buf /\ fresh' = fresh /\ phase[w] = "write" /\ Uses(w)
  BY DEF WriteBuffer, WriteSwitch, WriteFails, WriteFile, Given, Uses
<1>2. SpoolTypeOK /\ buf[w] \in Buffers /\ <<Piece(w, n)>> \in Seq(Pieces) /\ <<>> \in Seq(Pieces)
  BY <1>1, AppendType DEF BuffersInv, SpoolTypeOK
<1>3. ASSUME NEW s \in Seq(Pieces), Transfer(w, s) PROVE Settles(w)
  <2>1. file[w] = None
    BY <1>3 DEF Transfer
  <2>2. /\ pool' \subseteq pool \cup {buf[w]} /\ file'[w] # None /\ text'[buf[w]] = <<>>
        /\ \A v \in Writers : v # w => file'[v] = file[v]
        /\ \A b \in Buffers : b # buf[w] => text'[b] = text[b]
    BY <1>1, <1>2, <1>3, TransferTypes
  <2>3. \A v \in Writers : Uses(v)' => Uses(v)
    BY <1>1, <2>1, <2>2 DEF Uses
  <2> QED BY <1>1, <2>1, <2>2, <2>3 DEF Settles
<1>4. CASE WriteFile(w, n)
  <2>1. file[w] # None /\ file[w] \in Seq(Pieces)
    BY <1>2, <1>4 DEF WriteFile, SpoolTypeOK
  <2>2. Append(file[w], Piece(w, n)) # None
    BY <1>2, <2>1, AppendType
  <2>3. /\ file'[w] # None /\ pool' = pool /\ text' = text
        /\ \A v \in Writers : v # w => file'[v] = file[v]
    BY <1>2, <1>4, <2>2 DEF WriteFile, SpoolTypeOK
  <2> QED BY <1>1, <2>1, <2>3 DEF Settles, Uses
<1>5. CASE WriteBuffer(w, n)
  BY <1>1, <1>2, <1>5 DEF WriteBuffer, Settles, Uses, SpoolTypeOK
<1>6. CASE WriteFails(w, n) /\ ~Transfer(w, <<>>)
  <2>1. /\ pool' = pool /\ text' = text /\ (file[w] # None => file'[w] # None)
        /\ \A v \in Writers : v # w => file'[v] = file[v]
        /\ file' = file \/ (file[w] = None /\ file'[w] = <<>>)
    BY <1>2, <1>6 DEF WriteFails, SpoolTypeOK
  <2>2. <<>> # None
    BY <1>2, SpoolAssumption
  <2>3. \A v \in Writers : Uses(v)' => Uses(v)
    BY <1>1, <2>1 DEF Uses
  <2> QED BY <1>1, <2>1, <2>3 DEF Settles
<1>7. CASE WriteSwitch(w, n)
  BY <1>2, <1>3, <1>7 DEF WriteSwitch
<1> QED BY <1>2, <1>3, <1>4, <1>5, <1>6, <1>7

LEMMA CloseSettles ==
  ASSUME BuffersInv, NEW w \in Writers,
         CloseForWriting(w) \/ CloseForWritingFails(w) \/ ReadCloser(w) \/ Close(w)
  PROVE  Settles(w)
<1>1. SpoolTypeOK /\ phase[w] # "new" /\ buf[w] \in Buffers /\ buf' = buf /\ fresh' = fresh
  BY DEF BuffersInv, SpoolTypeOK, CloseForWriting, CloseForWritingFails, ReadCloser, Close
<1>2. CASE CloseForWriting(w)
  <2>1. /\ phase[w] = "write" /\ phase'[w] = "read" /\ pool' = pool
        /\ \A v \in Writers : v # w => phase'[v] = phase[v] /\ file'[v] = file[v]
        /\ \A b \in Buffers : b # buf[w] => text'[b] = text[b]
        /\ file[w] = None => file' = file
    BY <1>1, <1>2 DEF CloseForWriting, SpoolTypeOK
  <2>2. file[w] # None => file'[w] # None
    <3>1. file[w] # None => file[w] \o text[buf[w]] \in Seq(Pieces)
      BY <1>1, ConcatProperties DEF SpoolTypeOK
    <3> QED BY <1>1, <1>2, <3>1, SpoolAssumption DEF CloseForWriting, SpoolTypeOK
  <2>3. \A v \in Writers : Uses(v)' => Uses(v)
    BY <2>1, <2>2 DEF Uses
  <2> QED BY <1>1, <2>1, <2>2, <2>3 DEF Settles, Uses
<1>3. CASE CloseForWritingFails(w) \/ ReadCloser(w)
  <2>1. /\ UNCHANGED <<file, pool, text>>
        /\ \A v \in Writers : v # w => phase'[v] = phase[v]
        /\ \/ phase[w] = "write" /\ phase'[w] = "read"
           \/ phase[w] = "read" /\ phase'[w] = "open"
           \/ phase[w] = "read" /\ phase'[w] = "failed"
    BY <1>1, <1>3 DEF CloseForWritingFails, ReadCloser, SpoolTypeOK
  <2>2. \A v \in Writers : Uses(v)' => Uses(v)
    BY <2>1 DEF Uses
  <2> QED BY <1>1, <2>1, <2>2 DEF Settles
<1>4. CASE Close(w)
  <2>1. /\ phase[w] = "open" /\ phase'[w] = "closed" /\ file' = file
        /\ \A v \in Writers : v # w => phase'[v] = phase[v]
    BY <1>1, <1>4 DEF Close, SpoolTypeOK
  <2>2. \A v \in Writers : Uses(v)' => Uses(v) /\ v # w
    BY <2>1 DEF Uses
  <2>3. /\ pool' \subseteq pool \cup {buf[w]}
        /\ \A b \in Buffers : b # buf[w] => text'[b] = text[b]
        /\ buf[w] \in pool' \ pool => file[w] = None /\ text'[buf[w]] = <<>>
        /\ file[w] # None => text' = text
    BY <1>1, <1>4 DEF Close, PoolAfterPut, TextAfterPut, SpoolTypeOK
  <2> QED BY <1>1, <2>1, <2>2, <2>3 DEF Settles, Uses
<1> QED BY <1>2, <1>3, <1>4

LEMMA StepSettles ==
  ASSUME BuffersInv, NEW w \in Writers, SpoolStep(w), ~New(w)
  PROVE  Settles(w)
BY WriteSettles, CloseSettles DEF SpoolStep, Write

LEMMA StepBuffers ==
  ASSUME BuffersInv, NEW w \in Writers, SpoolStep(w)
  PROVE  BuffersInv'
<1>1. SpoolTypeOK'
  BY StepTypes DEF BuffersInv
<1> QED BY <1>1, NewBuffers, StepSettles, SettledBuffers

\* The end of its process empties the spool, and nobody else but removes its files.
LEMMA SpoolOthers ==
  ASSUME [Next]_vars, ~HostStep
  PROVE  \/ SpoolGone
         \/ /\ UNCHANGED <<phase, buf, file, size, text, large, pool, fresh, wrote, failed, mixed, got>>
            /\ onDisk' \subseteq onDisk
BY DEF Next, Start, End, MkdirTemp, RemoveOwn, CleanTempArtifacts, ListProcesses, OpenDir,
       KeepEntry, RemoveEntry, EndOfDir, spoolVars, vars

LEMMA GoneTypes == SpoolTypeOK /\ SpoolGone => SpoolTypeOK'
BY SpoolAssumption DEF SpoolGone, SpoolTypeOK

LEMMA OthersBuffers ==
  ASSUME BuffersInv, [Next]_vars, ~HostStep
  PROVE  BuffersInv'
<1>1. CASE SpoolGone
  BY <1>1, GoneTypes DEF SpoolGone, BuffersInv, SoleUser, Uses
<1>2. CASE ~SpoolGone
  BY <1>2, SpoolOthers DEF BuffersInv, SpoolTypeOK, SoleUser, Uses
<1> QED BY <1>1, <1>2

LEMMA InitBuffers == Init => BuffersInv
BY InitTypes DEF Init, SpoolInit, BuffersInv, SoleUser, Uses

(***************************************************************************)
(* No buffer is the only home of the text of two writers, whichever        *)
(* parsers fill them; the pool does not have the buffer of a writer that   *)
(* has not switched to a file, nor text but that of one that has.          *)
(***************************************************************************)
THEOREM BuffersNotShared == Spec => []SoleUser
<1>1. BuffersInv /\ [Next]_vars => BuffersInv'
  BY StepBuffers, OthersBuffers DEF HostStep
<1>2. BuffersInv => SoleUser
  BY DEF BuffersInv
<1> QED BY <1>1, <1>2, InitBuffers, PTL DEF Spec

----------------------------------------------------------------------------
(* The length of a text, in bytes.                                         *)

AddPiece == [p \in Nat \X Pieces |-> p[1] + p[2].len]

LEMMA AddPieceIs ==
  /\ AddPiece \in [Nat \X Pieces -> Nat]
  /\ \A n \in Nat, e \in Pieces : AddPiece[<<n, e>>] = n + e.len
BY DEF AddPiece, Pieces

\* Length adds the pieces up one by one.
LEMMA LengthSteps ==
  ASSUME NEW q \in Seq(Pieces)
  PROVE  \E g \in [SUBSET (1..Len(q)) -> Nat] : Traces(g, AddPiece, 0, q) /\ g[1..Len(q)] = Length(q)
<1> HIDE DEF Pieces
<1> DEFINE n == Len(q)
           IsSum(g) == g = [s \in SUBSET (1..n) |-> IF s = {} THEN 0 ELSE g[s \ {Max(s)}] + q[Max(s)].len]
<1>1. n \in Nat /\ DOMAIN q = 1..n /\ \A i \in 1..n : q[i] \in Pieces
  OBVIOUS
<1>2. PICK g \in [SUBSET (1..n) -> Nat] : Traces(g, AddPiece, 0, q)
  BY AddPieceIs, FoldSteps
<1>3. ASSUME NEW s \in SUBSET (1..n), s # {}
      PROVE  g[s] = g[s \ {Max(s)}] + q[Max(s)].len
  <2>1. g[s] = AddPiece[<<g[s \ {Max(s)}], q[Max(s)]>>] /\ s \ {Max(s)} \in SUBSET (1..n) /\ Max(s) \in 1..n
    BY <1>1, <1>2, <1>3 DEF Traces
  <2>2. g[s \ {Max(s)}] \in Nat /\ q[Max(s)] \in Pieces
    BY <1>1, <2>1
  <2> QED BY <2>1, <2>2, AddPieceIs
<1>4. g[{}] = 0
  BY <1>2 DEF Traces
<1>5. IsSum(g)
  BY <1>3, <1>4
<1> DEFINE sum == CHOOSE k : IsSum(k)
<1>6. Length(q) = sum[1..n]
  BY <1>1 DEF Length, FoldLeft, MapThenFoldSet
<1>7. IsSum(sum)
  <2> HIDE DEF IsSum
  <2> QED BY <1>5
<1>8. sum[1..n] = g[1..n]
  <2> HIDE DEF n, sum
  <2>1. sum[{}] = 0 /\ \A s \in SUBSET (1..n) : s # {} => sum[s] = sum[s \ {Max(s)}] + q[Max(s)].len
    BY <1>7
  <2> HIDE DEF IsSum
  <2>2. \A s \in SUBSET (1..n) : s # {} /\ sum[s \ {Max(s)}] = g[s \ {Max(s)}] => sum[s] = g[s]
    BY <1>3, <2>1
  <2> QED BY <1>1, <1>4, <2>1, <2>2, FoldSame
<1> QED BY <1>2, <1>6, <1>8 DEF n

LEMMA LengthIs ==
  /\ Length(<<>>) = 0
  /\ \A q \in Seq(Pieces) : Length(q) \in Nat
  /\ \A q \in Seq(Pieces), e \in Pieces : Length(Append(q, e)) = Length(q) + e.len
<1> DEFINE D == Pieces
<1>0. \A e \in D : e.len \in Nat
  BY DEF Pieces
<1> HIDE DEF D
<1>1. Length(<<>>) = 0
  <2>1. <<>> \in Seq(Pieces) /\ Len(<<>>) = 0
    OBVIOUS
  <2>2. PICK g : Traces(g, AddPiece, 0, <<>>) /\ g[1..Len(<<>>)] = Length(<<>>)
    BY <2>1, LengthSteps
  <2> QED BY <2>1, <2>2 DEF Traces
<1>2. ASSUME NEW q \in Seq(D) PROVE Length(q) \in Nat
  <2>1. PICK g \in [SUBSET (1..Len(q)) -> Nat] : g[1..Len(q)] = Length(q)
    BY LengthSteps DEF D
  <2> QED BY <2>1
<1>3. ASSUME NEW q \in Seq(D), NEW e \in D PROVE Length(Append(q, e)) = Length(q) + e.len
  <2> DEFINE r == Append(q, e)
             N == Nat
  <2>1. r \in Seq(D) /\ Longer(r, q, e)
    BY DEF Longer
  <2> HIDE DEF r
  <2>2. PICK g : Traces(g, AddPiece, 0, q) /\ g[1..Len(q)] = Length(q)
    BY LengthSteps DEF D
  <2>3. PICK h : Traces(h, AddPiece, 0, r) /\ h[1..Len(r)] = Length(r)
    BY <2>1, LengthSteps DEF D
  <2>4. AddPiece \in [N \X D -> N] /\ 0 \in N
    BY AddPieceIs DEF D
  <2> HIDE DEF N
  <2>5. Folded(h, r) = Applied(AddPiece, Folded(g, q), e)
    BY <2>1, <2>2, <2>3, <2>4, FoldAppend
  <2>6. Length(q) \in Nat /\ Applied(AddPiece, Length(q), e) = Length(q) + e.len
    BY <1>2, AddPieceIs DEF Applied, D
  <2>7. Length(r) = Length(q) + e.len
    BY <2>2, <2>3, <2>5, <2>6 DEF Folded
  <2> QED BY <2>7 DEF r
<1> QED BY <1>1, <1>2, <1>3 DEF D

----------------------------------------------------------------------------
(* What is read back from a file and a buffer.                             *)

LEMMA TextAppended ==
  ASSUME NEW s \in Seq(Pieces), NEW e \in Pieces
  PROVE  ToSet(Append(s, e)) = ToSet(s) \cup {e} /\ Len(Append(s, e)) = Len(s) + 1 /\ Len(s) \in Nat
<1> HIDE DEF Pieces
<1>1. /\ Len(Append(s, e)) = Len(s) + 1 /\ Append(s, e)[Len(s) + 1] = e
      /\ \A i \in 1..Len(s) : Append(s, e)[i] = s[i]
      /\ DOMAIN s = 1..Len(s) /\ DOMAIN Append(s, e) = 1..(Len(s) + 1) /\ Len(s) \in Nat
  OBVIOUS
<1>2. ASSUME NEW i \in 1..(Len(s) + 1) PROVE Append(s, e)[i] \in ToSet(s) \cup {e}
  BY <1>1 DEF ToSet
<1>3. ASSUME NEW i \in 1..Len(s) PROVE s[i] \in ToSet(Append(s, e))
  <2>1. i \in 1..(Len(s) + 1) /\ Append(s, e)[i] = s[i]
    BY <1>1
  <2> QED BY <1>1, <2>1 DEF ToSet
<1>4. e \in ToSet(Append(s, e))
  <2>1. Len(s) + 1 \in 1..(Len(s) + 1)
    BY <1>1
  <2> QED BY <1>1, <2>1 DEF ToSet
<1> QED BY <1>1, <1>2, <1>3, <1>4 DEF ToSet

LEMMA TextJoined ==
  ASSUME NEW s \in Seq(Pieces), NEW t \in Seq(Pieces)
  PROVE  /\ s \o t \in Seq(Pieces) /\ Len(s \o t) = Len(s) + Len(t)
         /\ ToSet(s \o t) = ToSet(s) \cup ToSet(t)
<1> HIDE DEF Pieces
<1>1. /\ s \o t \in Seq(Pieces)
      /\ Len(s \o t) = Len(s) + Len(t) /\ DOMAIN (s \o t) = 1..(Len(s) + Len(t))
      /\ \A i \in 1..(Len(s) + Len(t)) :
           (s \o t)[i] = IF i <= Len(s) THEN s[i] ELSE t[i - Len(s)]
      /\ Len(s) \in Nat /\ Len(t) \in Nat /\ DOMAIN s = 1..Len(s) /\ DOMAIN t = 1..Len(t)
  BY ConcatProperties
<1>2. ASSUME NEW i \in 1..(Len(s) + Len(t)) PROVE (s \o t)[i] \in ToSet(s) \cup ToSet(t)
  <2>1. i <= Len(s) => i \in 1..Len(s)
    BY <1>1
  <2>2. ~(i <= Len(s)) => i - Len(s) \in 1..Len(t)
    BY <1>1
  <2> QED BY <1>1, <2>1, <2>2 DEF ToSet
<1>3. ASSUME NEW i \in 1..Len(s) PROVE s[i] \in ToSet(s \o t)
  <2>1. i \in 1..(Len(s) + Len(t)) /\ i <= Len(s)
    BY <1>1
  <2> QED BY <1>1, <2>1 DEF ToSet
<1>4. ASSUME NEW i \in 1..Len(t) PROVE t[i] \in ToSet(s \o t)
  <2>1. i + Len(s) \in 1..(Len(s) + Len(t)) /\ ~(i + Len(s) <= Len(s)) /\ (i + Len(s)) - Len(s) = i
    BY <1>1
  <2>2. (s \o t)[i + Len(s)] = t[i]
    BY <1>1, <2>1
  <2> QED BY <1>1, <2>1, <2>2 DEF ToSet
<1> QED BY <1>1, <1>2, <1>3, <1>4 DEF ToSet

\* The pieces of a writer carry their positions.
Numbered(u) == \A i \in 1..Len(u) : u[i].no = i

\* The text s of a file and the text t of a buffer have come out of u.
Spooled(s, t, u) ==
  /\ Len(s) + Len(t) = Len(u) /\ ToSet(s) \cup ToSet(t) = ToSet(u)
  /\ InOrder(s) /\ InOrder(t) /\ Late(t, u) /\ Length(u) > Threshold

LEMMA NumberedAppended ==
  ASSUME NEW u \in Seq(Pieces), NEW e \in Pieces, Numbered(u), e.no = Len(u) + 1
  PROVE  Numbered(Append(u, e))
<1> HIDE DEF Pieces
<1>1. /\ Len(Append(u, e)) = Len(u) + 1 /\ Append(u, e)[Len(u) + 1] = e /\ Len(u) \in Nat
      /\ \A i \in 1..Len(u) : Append(u, e)[i] = u[i]
  OBVIOUS
<1>2. ASSUME NEW i \in 1..(Len(u) + 1) PROVE i \in 1..Len(u) \/ i = Len(u) + 1
  BY <1>1
<1> QED BY <1>1, <1>2 DEF Numbered

LEMMA NumberedInOrder ==
  ASSUME NEW u \in Seq(Pieces), Numbered(u)
  PROVE  InOrder(u) /\ \A p \in ToSet(u) : p.no \in 1..Len(u)
<1> HIDE DEF Pieces
<1>1. DOMAIN u = 1..Len(u)
  OBVIOUS
<1> QED BY <1>1 DEF Numbered, InOrder, ToSet

\* What comes last belongs last.
LEMMA OrderAppended ==
  ASSUME NEW s \in Seq(Pieces), NEW u \in Seq(Pieces), NEW e \in Pieces,
         Numbered(u), e.no = Len(u) + 1, ToSet(s) \subseteq ToSet(u), InOrder(s)
  PROVE  InOrder(Append(s, e))
<1>1. /\ Append(s, e)[Len(s) + 1] = e /\ Len(s) \in Nat /\ Len(u) \in Nat
      /\ \A i \in 1..Len(s) : Append(s, e)[i] = s[i]
      /\ DOMAIN s = 1..Len(s) /\ DOMAIN Append(s, e) = 1..(Len(s) + 1)
  <2> HIDE DEF Pieces
  <2> QED OBVIOUS
<1>2. ASSUME NEW i \in 1..Len(s) PROVE s[i].no < e.no
  <2>1. s[i].no \in 1..Len(u)
    BY <1>1, NumberedInOrder DEF ToSet
  <2> QED BY <1>1, <2>1
<1>3. ASSUME NEW i \in 1..(Len(s) + 1), NEW j \in 1..(Len(s) + 1), i < j
      PROVE  Append(s, e)[i].no < Append(s, e)[j].no
  <2>1. i \in 1..Len(s) /\ (j \in 1..Len(s) \/ j = Len(s) + 1)
    BY <1>1, <1>3
  <2>2. CASE j \in 1..Len(s)
    BY <1>1, <1>3, <2>1, <2>2 DEF InOrder
  <2>3. CASE j = Len(s) + 1
    <3>1. Append(s, e)[j] = e /\ Append(s, e)[i] = s[i]
      BY <1>1, <2>1, <2>3
    <3> QED BY <1>2, <2>1, <3>1
  <2> QED BY <2>1, <2>2, <2>3
<1> QED BY <1>1, <1>3 DEF InOrder

LEMMA SameBeginning ==
  ASSUME NEW u \in Seq(Pieces), NEW e \in Pieces, NEW k \in 0..Len(u)
  PROVE  SubSeq(Append(u, e), 1, k) = SubSeq(u, 1, k)
<1> DEFINE D == Pieces
<1>1. u \in Seq(D) /\ e \in D /\ <<e>> \in Seq(D)
  OBVIOUS
<1> HIDE DEF D
<1>2. CASE k = 0
  BY <1>2, SubSeqEmpty
<1>3. CASE k # 0
  <2>1. k \in 1..Len(u) /\ 1 \in 1..Len(u)
    BY <1>1, <1>3
  <2>2. Append(u, e) = u \o <<e>>
    BY <1>1, AppendIsConcat
  <2>3. SubSeq(u \o <<e>>, 1, k) = SubSeq(u, 1, k)
    BY <1>1, <2>1, SubSeqOfConcat1
  <2> QED BY <2>2, <2>3
<1> QED BY <1>2, <1>3

LEMMA LateAppended ==
  ASSUME NEW t \in Seq(Pieces), NEW u \in Seq(Pieces), NEW e \in Pieces,
         Numbered(u), ToSet(t) \subseteq ToSet(u), Late(t, u)
  PROVE  Late(t, Append(u, e))
<1>1. ASSUME NEW i \in DOMAIN t
      PROVE  SubSeq(Append(u, e), 1, t[i].no - 1) = SubSeq(u, 1, t[i].no - 1)
  <2>1. t[i].no \in 1..Len(u)
    BY NumberedInOrder DEF ToSet
  <2>2. t[i].no - 1 \in 0..Len(u)
    BY <2>1
  <2> QED BY <2>2, SameBeginning
<1> QED BY <1>1 DEF Late

\* A piece that the emptied buffer takes.
LEMMA SpooledBuffer ==
  ASSUME NEW s \in Seq(Pieces), NEW t \in Seq(Pieces), NEW u \in Seq(Pieces), NEW e \in Pieces,
         Numbered(u), e.no = Len(u) + 1, Spooled(s, t, u), Length(t) + e.len <= Threshold
  PROVE  Spooled(s, Append(t, e), Append(u, e))
<1>1. /\ Len(Append(t, e)) = Len(t) + 1 /\ Len(Append(u, e)) = Len(u) + 1
      /\ Len(s) \in Nat /\ Len(t) \in Nat /\ Len(u) \in Nat
      /\ ToSet(Append(t, e)) = ToSet(t) \cup {e} /\ ToSet(Append(u, e)) = ToSet(u) \cup {e}
  BY TextAppended
<1>2. /\ Length(Append(t, e)) = Length(t) + e.len /\ Length(Append(u, e)) = Length(u) + e.len
      /\ Length(u) \in Nat /\ e.len \in Nat /\ Threshold \in Nat
  BY LengthIs, SpoolAssumption DEF Pieces
<1>3. Len(s) + Len(Append(t, e)) = Len(Append(u, e))
  BY <1>1 DEF Spooled
<1>4. ToSet(s) \cup ToSet(Append(t, e)) = ToSet(Append(u, e))
  BY <1>1 DEF Spooled
<1>5. InOrder(s) /\ InOrder(Append(t, e))
  BY OrderAppended DEF Spooled
<1>6. Length(Append(u, e)) > Threshold
  BY <1>2 DEF Spooled
<1>7. Late(Append(t, e), Append(u, e))
  <2>1. Late(t, Append(u, e))
    BY LateAppended DEF Spooled
  <2>2. ASSUME NEW i \in 1..(Len(t) + 1)
        PROVE  Length(SubSeq(Append(u, e), 1, Append(t, e)[i].no - 1)) > Threshold
    <3>1. CASE i \in 1..Len(t)
      <4>1. Append(t, e)[i] = t[i] /\ i \in DOMAIN t
        <5> HIDE DEF Pieces
        <5> QED BY <3>1
      <4> QED BY <2>1, <4>1 DEF Late
    <3>2. CASE i = Len(t) + 1
      <4>1. Append(t, e)[i] = e
        <5> HIDE DEF Pieces
        <5> QED BY <3>2
      <4>2. e.no - 1 = Len(u) /\ Len(u) \in 0..Len(u)
        BY <1>1
      <4>3. SubSeq(Append(u, e), 1, Len(u)) = SubSeq(u, 1, Len(u))
        BY <4>2, SameBeginning
      <4>4. SubSeq(u, 1, Len(u)) = u
        <5> HIDE DEF Pieces
        <5> QED BY SubSeqFull
      <4> QED BY <4>1, <4>2, <4>3, <4>4 DEF Spooled
    <3> QED BY <1>1, <2>2, <3>1, <3>2
  <2>3. DOMAIN Append(t, e) = 1..(Len(t) + 1)
    <3> HIDE DEF Pieces
    <3> QED OBVIOUS
  <2> QED BY <1>2, <2>2, <2>3 DEF Late
<1> QED BY <1>3, <1>4, <1>5, <1>6, <1>7 DEF Spooled

\* A piece that goes to the file.
LEMMA SpooledFile ==
  ASSUME NEW s \in Seq(Pieces), NEW t \in Seq(Pieces), NEW u \in Seq(Pieces), NEW e \in Pieces,
         Numbered(u), e.no = Len(u) + 1, Spooled(s, t, u)
  PROVE  Spooled(Append(s, e), t, Append(u, e))
<1>1. /\ Len(Append(s, e)) = Len(s) + 1 /\ Len(Append(u, e)) = Len(u) + 1
      /\ Len(s) \in Nat /\ Len(t) \in Nat /\ Len(u) \in Nat
      /\ ToSet(Append(s, e)) = ToSet(s) \cup {e} /\ ToSet(Append(u, e)) = ToSet(u) \cup {e}
  BY TextAppended
<1>2. /\ Length(Append(u, e)) = Length(u) + e.len
      /\ Length(u) \in Nat /\ e.len \in Nat /\ Threshold \in Nat
  BY LengthIs, SpoolAssumption DEF Pieces
<1>3. Len(Append(s, e)) + Len(t) = Len(Append(u, e))
  BY <1>1 DEF Spooled
<1>4. ToSet(Append(s, e)) \cup ToSet(t) = ToSet(Append(u, e))
  BY <1>1 DEF Spooled
<1>5. InOrder(Append(s, e)) /\ InOrder(t)
  BY OrderAppended DEF Spooled
<1>6. Late(t, Append(u, e)) /\ Length(Append(u, e)) > Threshold
  <2>1. Late(t, Append(u, e))
    BY LateAppended DEF Spooled
  <2>2. Length(u) > Threshold
    BY DEF Spooled
  <2>3. Length(Append(u, e)) > Threshold
    BY <1>2, <2>2
  <2> QED BY <2>1, <2>3
<1> QED BY <1>3, <1>4, <1>5, <1>6 DEF Spooled

\* The piece with which the writer switches.
LEMMA SpooledSwitch ==
  ASSUME NEW u \in Seq(Pieces), NEW e \in Pieces, Numbered(u), e.no = Len(u) + 1,
         Length(u) + e.len > Threshold
  PROVE  Spooled(Append(u, e), <<>>, Append(u, e))
<1>1. Length(Append(u, e)) = Length(u) + e.len /\ Length(<<>>) = 0 /\ Threshold \in Nat
  BY LengthIs, SpoolAssumption
<1>2. Len(Append(u, e)) \in Nat /\ Len(<<>>) = 0 /\ DOMAIN <<>> = {} /\ ToSet(<<>>) = {}
  <2> HIDE DEF Pieces
  <2> QED BY DEF ToSet
<1>3. InOrder(Append(u, e))
  BY NumberedInOrder, OrderAppended
<1>4. InOrder(<<>>) /\ Late(<<>>, Append(u, e))
  BY <1>1, <1>2 DEF InOrder, Late
<1> QED BY <1>1, <1>2, <1>3, <1>4 DEF Spooled

LEMMA SpooledRestores ==
  ASSUME NEW s \in Seq(Pieces), NEW t \in Seq(Pieces), NEW u \in Seq(Pieces), Spooled(s, t, u)
  PROVE  Restores(s \o t, u)
<1> HIDE DEF Pieces
<1> DEFINE k == Len(s)
           end == SubSeq(s \o t, k + 1, Len(s \o t))
<1>1. /\ s \o t \in Seq(Pieces) /\ Len(s \o t) = k + Len(t) /\ k \in Nat /\ Len(t) \in Nat
      /\ ToSet(s \o t) = ToSet(s) \cup ToSet(t)
  BY TextJoined
<1>2. SubSeq(s \o t, 1, k) = s
  <2>1. SubSeq(s, 1, k) = s
    BY SubSeqFull
  <2>2. CASE k = 0
    <3>1. s = <<>>
      BY <2>2
    <3> QED BY <2>2, <3>1, SubSeqEmpty
  <2>3. CASE k # 0
    <3>1. k \in 1..k /\ 1 \in 1..k
      BY <1>1, <2>3
    <3>2. SubSeq(s \o t, 1, k) = SubSeq(s, 1, k)
      BY <3>1, SubSeqOfConcat1
    <3> QED BY <2>1, <3>2
  <2> QED BY <2>2, <2>3
<1>3. end = t
  <2>1. SubSeq(t, 1, Len(t)) = t
    BY SubSeqFull
  <2>2. CASE Len(t) = 0
    <3>1. t = <<>>
      BY <2>2
    <3>2. Len(s \o t) < k + 1 /\ k + 1 \in Int /\ Len(s \o t) \in Int
      BY <1>1, <2>2
    <3>3. end = <<>>
      BY <3>2, SubSeqEmpty
    <3> QED BY <3>1, <3>3
  <2>3. CASE Len(t) # 0
    <3>1. /\ k + 1 \in k + 1 .. k + Len(t) /\ k + Len(t) \in k + 1 .. k + Len(t)
          /\ (k + 1) - k = 1 /\ (k + Len(t)) - k = Len(t)
      BY <1>1, <2>3
    <3>2. SubSeq(s \o t, k + 1, k + Len(t)) = SubSeq(t, (k + 1) - k, (k + Len(t)) - k)
      BY <3>1, SubSeqOfConcat2
    <3> QED BY <1>1, <2>1, <3>1, <3>2
  <2> QED BY <2>2, <2>3
<1>4. k \in 0..Len(s \o t)
  BY <1>1
<1>5. InOrder(s) /\ InOrder(t) /\ Late(t, u)
  BY DEF Spooled
<1>6. Len(s \o t) = Len(u) /\ ToSet(s \o t) = ToSet(u)
  BY <1>1 DEF Spooled
<1>7. InOrder(SubSeq(s \o t, 1, k)) /\ InOrder(end) /\ Late(end, u)
  BY <1>2, <1>3, <1>5
<1> QED BY <1>4, <1>6, <1>7 DEF Restores

LEMMA NumberedRestores ==
  ASSUME NEW u \in Seq(Pieces), Numbered(u)
  PROVE  Restores(u, u)
<1> HIDE DEF Pieces
<1>1. SubSeq(u, 1, Len(u)) = u /\ Len(u) \in 0..Len(u)
  BY SubSeqFull
<1>2. SubSeq(u, Len(u) + 1, Len(u)) = <<>>
  BY SubSeqEmpty
<1>3. Length(<<>>) = 0 /\ Threshold \in Nat /\ DOMAIN <<>> = {}
  BY LengthIs, SpoolAssumption
<1>4. InOrder(u) /\ InOrder(<<>>) /\ Late(<<>>, u)
  BY <1>3, NumberedInOrder DEF InOrder, Late
<1>5. /\ InOrder(SubSeq(u, 1, Len(u))) /\ InOrder(SubSeq(u, Len(u) + 1, Len(u)))
      /\ Late(SubSeq(u, Len(u) + 1, Len(u)), u)
  BY <1>1, <1>2, <1>4
<1> QED BY <1>1, <1>5 DEF Restores

----------------------------------------------------------------------------
(***************************************************************************)
(* The text of a writer that shares its buffer with nobody: what it was    *)
(* given is in its file and its buffer until it is closed.                 *)
(***************************************************************************)
Alone(w) == \A v \in Writers : v # w /\ Uses(v) => buf[v] # buf[w]
Kept(w) ==
  /\ phase[w] = "new" => wrote[w] = <<>>
  /\ Uses(w) /\ w \notin mixed => Alone(w)
  /\ w \notin failed \cup mixed =>
       /\ Numbered(wrote[w])
       /\ phase[w] = "write" /\ file[w] # None => Spooled(file[w], text[buf[w]], wrote[w])
       /\ Uses(w) /\ file[w] = None => text[buf[w]] = wrote[w]
       /\ phase[w] \in {"read", "open"} /\ file[w] # None => Restores(file[w], wrote[w])
       /\ phase[w] = "closed" => Restores(got[w], wrote[w])
TextInv == BuffersInv /\ \A w \in Writers : Kept(w)

\* A writer whose variables stay, and whose buffer does if it is used, keeps its text.
LEMMA KeptByOthers ==
  ASSUME NEW v \in Writers, Kept(v),
         phase'[v] = phase[v], buf'[v] = buf[v], file'[v] = file[v], wrote'[v] = wrote[v],
         got'[v] = got[v], v \in failed' <=> v \in failed, mixed \subseteq mixed',
         Uses(v) /\ v \notin mixed' => Alone(v)' /\ text'[buf[v]] = text[buf[v]]
  PROVE  Kept(v)'
<1>1. Uses(v)' <=> Uses(v)
  BY DEF Uses
<1>2. phase[v] = "write" => Uses(v)
  BY DEF Uses
<1>3. v \notin mixed' => v \notin mixed
  OBVIOUS
<1>4. Uses(v)' /\ v \notin mixed' => Alone(v)'
  BY <1>1
<1>5. phase'[v] = "new" => wrote'[v] = <<>>
  BY DEF Kept
<1>6. ASSUME v \notin (failed \cup mixed)'
      PROVE  /\ Numbered(wrote[v])
             /\ phase[v] = "write" /\ file[v] # None => Spooled(file[v], text'[buf[v]], wrote[v])
             /\ Uses(v) /\ file[v] = None => text'[buf[v]] = wrote[v]
             /\ phase[v] \in {"read", "open"} /\ file[v] # None => Restores(file[v], wrote[v])
             /\ phase[v] = "closed" => Restores(got[v], wrote[v])
  BY <1>2, <1>3, <1>6 DEF Kept
<1> QED BY <1>1, <1>4, <1>5, <1>6 DEF Kept

LEMMA NewText ==
  ASSUME TextInv, NEW w \in Writers, New(w)
  PROVE  TextInv'
<1>0. BuffersInv' /\ SpoolTypeOK
  BY NewBuffers DEF TextInv, BuffersInv
<1>1. PICK b \in pool \cup fresh :
        /\ buf' = [buf EXCEPT ![w] = b]
        /\ mixed' = IF Users(b) = {} /\ text[b] = <<>> THEN mixed ELSE mixed \cup Users(b) \cup {w}
  BY DEF New
<1>2. /\ phase[w] = "new" /\ phase' = [phase EXCEPT ![w] = "write"] /\ file[w] = None
      /\ UNCHANGED <<file, text, wrote, failed, got>>
  BY DEF New, TextInv, BuffersInv
<1>3. phase'[w] = "write" /\ buf'[w] = b
  BY <1>0, <1>1, <1>2 DEF SpoolTypeOK
<1>4. ASSUME NEW v \in Writers, v # w
      PROVE  phase'[v] = phase[v] /\ buf'[v] = buf[v] /\ (Uses(v)' <=> Uses(v))
  BY <1>0, <1>1, <1>2, <1>4 DEF Uses, SpoolTypeOK
<1>5. Kept(w)'
  <2>1. w \notin mixed' => Users(b) = {} /\ text[b] = <<>>
    BY <1>1
  <2>2. w \notin mixed' => Alone(w)'
    BY <1>3, <1>4, <2>1 DEF Alone, Users
  <2>3. wrote[w] = <<>>
    BY <1>2 DEF TextInv, Kept
  <2>4. Numbered(wrote[w])
    BY <2>3 DEF Numbered
  <2>5. phase'[w] # "new" /\ phase'[w] \notin {"read", "open", "closed"}
    BY <1>3
  <2>6. file'[w] = None /\ wrote'[w] = wrote[w] /\ text'[buf'[w]] = text[b]
    BY <1>2, <1>3
  <2> QED BY <2>1, <2>2, <2>3, <2>4, <2>5, <2>6 DEF Kept
<1>6. ASSUME NEW v \in Writers, v # w PROVE Kept(v)'
  <2>1. phase'[v] = phase[v] /\ buf'[v] = buf[v]
    BY <1>4, <1>6
  <2>2. ASSUME Uses(v), v \notin mixed' PROVE Alone(v)'
    <3>1. v \notin mixed /\ v \notin Users(b)
      BY <1>1, <2>2
    <3>2. buf[v] # b /\ Alone(v)
      BY <2>2, <3>1 DEF Users, TextInv, Kept
    <3>3. ASSUME NEW x \in Writers, x # v, Uses(x)' PROVE buf'[x] # buf'[v]
      <4>1. CASE x = w
        BY <1>3, <2>1, <3>2, <4>1
      <4>2. CASE x # w
        BY <1>4, <2>1, <3>2, <3>3, <4>2 DEF Alone
      <4> QED BY <4>1, <4>2
    <3> QED BY <3>3 DEF Alone
  <2>3. mixed \subseteq mixed'
    BY <1>1
  <2> QED BY <1>2, <2>1, <2>2, <2>3, KeptByOthers DEF TextInv
<1> QED BY <1>0, <1>5, <1>6 DEF TextInv

\* A step that settles leaves the other writers their text.
LEMMA OtherWriters ==
  ASSUME TextInv, NEW w \in Writers, Settles(w), mixed' = mixed,
         failed \subseteq failed', failed' \subseteq failed \cup {w},
         NEW v \in Writers, v # w, phase'[v] = phase[v], wrote'[v] = wrote[v], got'[v] = got[v]
  PROVE  Kept(v)'
<1>1. Uses(v) => buf[v] \in Buffers
  BY DEF TextInv, BuffersInv, SpoolTypeOK, Uses
<1>2. ASSUME Uses(v), v \notin mixed PROVE Alone(v)' /\ text'[buf[v]] = text[buf[v]]
  <2>1. Alone(v)
    BY <1>2 DEF TextInv, Kept
  <2>2. Alone(v)'
    BY <2>1 DEF Alone, Settles
  <2>3. text'[buf[v]] = text[buf[v]]
    BY <1>1, <1>2, <2>1 DEF Alone, Settles
  <2> QED BY <2>2, <2>3
<1> QED BY <1>2, KeptByOthers DEF TextInv, Settles

LEMMA WriteText ==
  ASSUME TextInv, NEW w \in Writers, Write(w)
  PROVE  TextInv'
<1>0. BuffersInv' /\ SpoolTypeOK /\ BuffersInv
  BY StepBuffers DEF TextInv, BuffersInv, SpoolStep
<1>1. PICK n \in Lengths :
        WriteBuffer(w, n) \/ WriteSwitch(w, n) \/ WriteFails(w, n) \/ WriteFile(w, n)
  BY DEF Write
<1>2. Settles(w)
  BY <1>0, <1>1, WriteSettles
<1> DEFINE e == Piece(w, n)
           t == text[buf[w]]
           u == wrote[w]
<1>3. /\ phase[w] = "write" /\ UNCHANGED <<phase, buf, fresh, mixed, got>> /\ Uses(w)
      /\ wrote' = [wrote EXCEPT ![w] = Append(@, e)]
  BY <1>1 DEF WriteBuffer, WriteSwitch, WriteFails, WriteFile, Given, Uses
<1>4. /\ t \in Seq(Pieces) /\ u \in Seq(Pieces) /\ e \in Pieces /\ buf[w] \in Buffers
      /\ wrote'[w] = Append(u, e) /\ <<e>> \in Seq(Pieces) /\ e.no = Len(u) + 1 /\ e.len = n
      /\ file[w] # None => file[w] \in Seq(Pieces)
  <2>1. t \in Seq(Pieces) /\ u \in Seq(Pieces) /\ buf[w] \in Buffers /\ (file[w] # None => file[w] \in Seq(Pieces))
    BY <1>0, <1>3 DEF SpoolTypeOK
  <2>2. e \in Pieces /\ <<e>> \in Seq(Pieces)
    BY <1>0, <2>1, AppendType
  <2>3. e.no = Len(u) + 1 /\ e.len = n
    BY DEF Piece
  <2>4. wrote'[w] = Append(u, e)
    BY <1>0, <1>3 DEF SpoolTypeOK
  <2> QED BY <2>1, <2>2, <2>3, <2>4
<1>5. failed \subseteq failed' /\ failed' \subseteq failed \cup {w}
  BY <1>1 DEF WriteBuffer, WriteSwitch, WriteFails, WriteFile
<1>6. ASSUME NEW v \in Writers, v # w PROVE Kept(v)'
  <2>1. wrote'[v] = wrote[v]
    BY <1>0, <1>3, <1>6 DEF SpoolTypeOK
  <2> QED BY <1>2, <1>3, <1>5, <1>6, <2>1, OtherWriters
<1>7. w \notin mixed => Alone(w)'
  <2>1. w \notin mixed => Alone(w)
    BY <1>3 DEF TextInv, Kept
  <2> QED BY <1>2, <2>1 DEF Alone, Settles
<1>8. ASSUME w \notin failed' \cup mixed
      PROVE  /\ Numbered(wrote'[w])
             /\ file'[w] # None => Spooled(file'[w], text'[buf[w]], wrote'[w])
             /\ file'[w] = None => text'[buf[w]] = wrote'[w]
  <2>1. /\ Numbered(u) /\ (file[w] = None => t = u)
        /\ file[w] # None => Spooled(file[w], t, u)
    BY <1>3, <1>5, <1>8 DEF TextInv, Kept
  <2> HIDE DEF e
  <2>2. Numbered(Append(u, e))
    BY <1>4, <2>1, NumberedAppended
  <2>3. CASE WriteBuffer(w, n)
    <3>1. file' = file /\ text'[buf[w]] = Append(t, e) /\ Length(t) + n <= Threshold
      BY <1>0, <1>4, <2>3 DEF WriteBuffer, FitsBuffer, SpoolTypeOK, e
    <3>2. CASE file[w] = None
      BY <1>4, <2>1, <2>2, <3>1, <3>2
    <3>3. CASE file[w] # None
      <4>1. file[w] \in Seq(Pieces) /\ Spooled(file[w], t, u)
        BY <1>4, <2>1, <3>3
      <4>2. Spooled(file[w], Append(t, e), Append(u, e))
        BY <1>4, <2>1, <3>1, <4>1, SpooledBuffer
      <4> QED BY <1>4, <2>2, <3>1, <3>3, <4>2
    <3> QED BY <3>2, <3>3
  <2>4. CASE WriteSwitch(w, n)
    <3>1. Transfer(w, <<e>>) /\ ~(Length(t) + n <= Threshold) /\ file[w] = None
      BY <2>4 DEF WriteSwitch, FitsBuffer, Transfer, e
    <3>2. file'[w] = t \o <<e>> /\ file'[w] # None /\ text'[buf[w]] = <<>>
      BY <1>0, <1>3, <1>4, <3>1, TransferTypes
    <3>3. t \o <<e>> = Append(u, e)
      <4> HIDE DEF Pieces
      <4> QED BY <1>4, <2>1, <3>1, AppendIsConcat
    <3>4. Length(u) + e.len > Threshold
      <4>1. Length(u) \in Nat /\ n \in Nat /\ Threshold \in Nat
        BY <1>4, LengthIs, SpoolAssumption
      <4> QED BY <1>4, <2>1, <3>1, <4>1
    <3>5. Spooled(Append(u, e), <<>>, Append(u, e))
      BY <1>4, <2>1, <3>4, SpooledSwitch
    <3> QED BY <1>4, <2>2, <3>2, <3>3, <3>5
  <2>5. CASE WriteFile(w, n)
    <3>1. file'[w] = Append(file[w], e) /\ text'[buf[w]] = t /\ file[w] # None
      BY <1>0, <2>5 DEF WriteFile, SpoolTypeOK, e
    <3>2. file[w] \in Seq(Pieces) /\ Spooled(file[w], t, u)
      BY <1>4, <2>1, <3>1
    <3>3. Spooled(Append(file[w], e), t, Append(u, e))
      BY <1>4, <2>1, <3>2, SpooledFile
    <3>4. Append(file[w], e) # None
      BY <1>0, <3>2, AppendType DEF e
    <3> QED BY <1>4, <2>2, <3>1, <3>3, <3>4
  <2>6. CASE WriteFails(w, n)
    BY <1>8, <2>6 DEF WriteFails
  <2> QED BY <1>1, <2>3, <2>4, <2>5, <2>6
<1>9. Kept(w)'
  <2>1. phase'[w] \notin {"new", "read", "open", "closed"} /\ buf'[w] = buf[w] /\ mixed' = mixed
    BY <1>3
  <2> QED BY <1>7, <1>8, <2>1 DEF Kept
<1> QED BY <1>0, <1>6, <1>9 DEF TextInv

LEMMA CloseForWritingText ==
  ASSUME TextInv, NEW w \in Writers, CloseForWriting(w) \/ CloseForWritingFails(w)
  PROVE  TextInv'
<1>0. BuffersInv' /\ SpoolTypeOK /\ BuffersInv
  BY StepBuffers DEF TextInv, BuffersInv, SpoolStep
<1>1. Settles(w)
  BY <1>0, CloseSettles
<1>2. /\ phase[w] = "write" /\ phase' = [phase EXCEPT ![w] = "read"] /\ Uses(w)
      /\ UNCHANGED <<buf, wrote, mixed, got>> /\ buf[w] \in Buffers
      /\ text[buf[w]] \in Seq(Pieces) /\ wrote[w] \in Seq(Pieces)
      /\ failed \subseteq failed' /\ failed' \subseteq failed \cup {w}
  BY <1>0 DEF CloseForWriting, CloseForWritingFails, SpoolTypeOK, Uses
<1>3. phase'[w] = "read" /\ \A v \in Writers : v # w => phase'[v] = phase[v]
  BY <1>0, <1>2 DEF SpoolTypeOK
<1>4. ASSUME NEW v \in Writers, v # w PROVE Kept(v)'
  BY <1>1, <1>2, <1>3, <1>4, OtherWriters
<1>5. w \notin mixed => Alone(w)'
  <2>1. w \notin mixed => Alone(w)
    BY <1>2 DEF TextInv, Kept
  <2> QED BY <1>1, <2>1 DEF Alone, Settles
<1>6. ASSUME w \notin failed' \cup mixed
      PROVE  /\ Numbered(wrote[w])
             /\ file'[w] # None => Restores(file'[w], wrote[w])
             /\ file'[w] = None => text'[buf[w]] = wrote[w]
  <2>1. CloseForWriting(w)
    BY <1>6 DEF CloseForWritingFails
  <2>2. /\ Numbered(wrote[w]) /\ (file[w] = None => text[buf[w]] = wrote[w])
        /\ file[w] # None => Spooled(file[w], text[buf[w]], wrote[w])
    BY <1>2, <1>6 DEF TextInv, Kept
  <2>3. CASE file[w] = None
    BY <2>1, <2>2, <2>3 DEF CloseForWriting
  <2>4. CASE file[w] # None
    <3>1. file[w] \in Seq(Pieces) /\ file'[w] = file[w] \o text[buf[w]]
      BY <1>0, <2>1, <2>4 DEF CloseForWriting, SpoolTypeOK
    <3>2. Restores(file[w] \o text[buf[w]], wrote[w])
      BY <1>2, <2>2, <2>4, <3>1, SpooledRestores
    <3>3. file'[w] # None
      BY <1>1, <2>4 DEF Settles
    <3> QED BY <2>2, <3>1, <3>2, <3>3
  <2> QED BY <2>3, <2>4
<1>7. Kept(w)'
  BY <1>2, <1>3, <1>5, <1>6 DEF Kept
<1> QED BY <1>0, <1>4, <1>7 DEF TextInv

LEMMA ReadText ==
  ASSUME TextInv, NEW w \in Writers, ReadCloser(w) \/ Close(w)
  PROVE  TextInv'
<1>0. BuffersInv' /\ SpoolTypeOK /\ BuffersInv
  BY StepBuffers DEF TextInv, BuffersInv, SpoolStep
<1>1. Settles(w)
  BY <1>0, CloseSettles
<1>2. /\ UNCHANGED <<buf, file, wrote, failed, mixed>>
      /\ \A v \in Writers : v # w => phase'[v] = phase[v] /\ got'[v] = got[v]
      /\ phase[w] \in {"read", "open"} /\ wrote[w] \in Seq(Pieces)
  BY <1>0 DEF ReadCloser, Close, SpoolTypeOK
<1>3. ASSUME NEW v \in Writers, v # w PROVE Kept(v)'
  BY <1>1, <1>2, <1>3, OtherWriters
<1>4. ASSUME Uses(w)', w \notin mixed PROVE Alone(w)'
  <2>1. Alone(w)
    BY <1>1, <1>4 DEF TextInv, Kept, Settles
  <2> QED BY <1>1, <2>1 DEF Alone, Settles
<1>5. CASE ReadCloser(w)
  <2>1. phase'[w] \in {"open", "failed"} /\ (phase'[w] = "failed" => file[w] # None) /\ text' = text
    BY <1>0, <1>5 DEF ReadCloser, SpoolTypeOK
  <2>2. Uses(w)' => Uses(w)
    BY <1>1 DEF Settles
  <2>3. ASSUME w \notin failed \cup mixed
        PROVE  /\ Numbered(wrote[w])
               /\ Uses(w) /\ file[w] = None => text[buf[w]] = wrote[w]
               /\ file[w] # None => Restores(file[w], wrote[w])
    BY <1>2, <2>3 DEF TextInv, Kept
  <2>4. Kept(w)'
    BY <1>2, <1>4, <2>1, <2>2, <2>3 DEF Kept
  <2> QED BY <1>0, <1>3, <2>4 DEF TextInv
<1>6. CASE Close(w)
  <2>1. /\ phase[w] = "open" /\ phase'[w] = "closed"
        /\ got'[w] = IF file[w] = None THEN text[buf[w]] ELSE file[w]
    BY <1>0, <1>6 DEF Close, SpoolTypeOK
  <2>2. ASSUME w \notin failed \cup mixed
        PROVE  Numbered(wrote[w]) /\ Restores(got'[w], wrote[w])
    <3>1. /\ Numbered(wrote[w])
          /\ file[w] = None => text[buf[w]] = wrote[w]
          /\ file[w] # None => Restores(file[w], wrote[w])
      BY <2>1, <2>2 DEF TextInv, Kept, Uses
    <3> QED BY <1>2, <2>1, <3>1, NumberedRestores
  <2>3. ~Uses(w)'
    BY <2>1 DEF Uses
  <2>4. Kept(w)'
    BY <1>2, <2>1, <2>2, <2>3 DEF Kept
  <2> QED BY <1>0, <1>3, <2>4 DEF TextInv
<1> QED BY <1>5, <1>6

LEMMA OthersText ==
  ASSUME TextInv, [Next]_vars, ~HostStep
  PROVE  TextInv'
<1>1. BuffersInv'
  BY OthersBuffers DEF TextInv
<1>2. CASE SpoolGone
  BY <1>1, <1>2 DEF SpoolGone, TextInv, Kept, Numbered, Uses
<1>3. CASE ~SpoolGone
  <2>1. UNCHANGED <<phase, buf, file, text, wrote, failed, mixed, got>>
    BY <1>3, SpoolOthers
  <2> QED BY <1>1, <2>1 DEF TextInv, Kept, Alone, Uses
<1> QED BY <1>2, <1>3

(***************************************************************************)
(* What is read back from a writer that had its buffer to itself and none  *)
(* of whose writes failed is what it was given, each piece once and in     *)
(* order but for an end of at most Threshold bytes, in order too: for any  *)
(* number of parsers, any threshold and any lengths of the pieces.         *)
(***************************************************************************)
THEOREM TextReadBack == Spec => []ReadBackWhole
<1>1. Init => TextInv
  BY InitBuffers DEF Init, SpoolInit, TextInv, Kept, Numbered, Uses
<1>2. TextInv /\ [Next]_vars => TextInv'
  BY NewText, WriteText, CloseForWritingText, ReadText, OthersText DEF HostStep, SpoolStep
<1>3. TextInv => ReadBackWhole
  BY DEF TextInv, Kept, ReadBackWhole
<1> QED BY <1>1, <1>2, <1>3, PTL DEF Spec

----------------------------------------------------------------------------
(***************************************************************************)
(* Where sharing can come from.  The text in a buffer that can be handed   *)
(* out is that of a writer being filled, until a write or a closing fails. *)
(***************************************************************************)
OneParserOnly == \A v, w \in Writers : ParserOf[v] = ParserOf[w]
SoloInv ==
  /\ BuffersInv
  /\ failed = {} =>
       /\ mixed = {}
       /\ \A b \in pool \cup fresh :
            text[b] = <<>> \/ \E w \in Writers : phase[w] = "write" /\ buf[w] = b

LEMMA SoloNew ==
  ASSUME OneParserOnly, SoloInv, NEW w \in Writers, New(w)
  PROVE  SoloInv'
<1>1. PICK b \in pool \cup fresh :
        /\ buf' = [buf EXCEPT ![w] = b] /\ pool' = pool \ {b} /\ fresh' = fresh \ {b}
        /\ mixed' = IF Users(b) = {} /\ text[b] = <<>> THEN mixed ELSE mixed \cup Users(b) \cup {w}
  BY DEF New
<1>2. UNCHANGED <<text, failed>> /\ \A v \in Writers : phase[v] # "write"
  BY DEF New, OneParserOnly
<1>3. Users(b) = {}
  BY <1>1, <1>2 DEF Users, Uses, SoloInv, BuffersInv, SoleUser
<1>4. BuffersInv'
  BY NewBuffers DEF SoloInv
<1> QED BY <1>1, <1>2, <1>3, <1>4 DEF SoloInv

LEMMA SoloStep ==
  ASSUME SoloInv, NEW w \in Writers, SpoolStep(w), ~New(w)
  PROVE  SoloInv'
<1>1. BuffersInv /\ BuffersInv' /\ Settles(w) /\ SpoolTypeOK /\ SpoolTypeOK'
  BY StepBuffers, StepSettles DEF SoloInv, BuffersInv
<1>2. mixed' = mixed /\ failed \subseteq failed'
  BY DEF SpoolStep, Write, WriteBuffer, WriteSwitch, WriteFails, WriteFile, Given, CloseForWriting,
         CloseForWritingFails, ReadCloser, Close
<1> SUFFICES ASSUME failed' = {}, NEW c \in pool' \cup fresh', text'[c] # <<>>
             PROVE  \E v \in Writers : phase'[v] = "write" /\ buf'[v] = c
  BY <1>1, <1>2 DEF SoloInv
<1>3. c \in pool \cup fresh /\ c \in Buffers /\ buf' = buf
  BY <1>1 DEF Settles, SpoolTypeOK
<1>4. text[c] = <<>> \/ \E v \in Writers : phase[v] = "write" /\ buf[v] = c
  BY <1>2, <1>3 DEF SoloInv
<1>5. CASE Write(w)
  <2>1. phase' = phase /\ phase[w] = "write"
    BY <1>5 DEF Write, WriteBuffer, WriteSwitch, WriteFails, WriteFile, Given
  <2>2. c # buf[w] => text'[c] = text[c]
    BY <1>1, <1>3 DEF Settles
  <2> QED BY <1>3, <1>4, <2>1, <2>2
<1>6. CASE CloseForWriting(w)
  <2>1. /\ phase[w] = "write" /\ text'[c] = text[c]
        /\ \A v \in Writers : v # w => phase'[v] = phase[v]
        /\ file[w] # None => text'[buf[w]] = <<>>
    BY <1>1, <1>3, <1>6 DEF CloseForWriting, SpoolTypeOK
  <2>2. PICK v \in Writers : phase[v] = "write" /\ buf[v] = c
    BY <1>4, <2>1
  <2>3. buf[w] # c
    BY <1>1, <1>3, <2>1 DEF BuffersInv, SoleUser, Uses
  <2> QED BY <1>3, <2>1, <2>2, <2>3
<1>7. CASE ReadCloser(w) \/ Close(w)
  <2>1. /\ \A v \in Writers : phase[v] = "write" => phase'[v] = "write"
        /\ text'[c] = text[c]
    BY <1>1, <1>3, <1>7 DEF ReadCloser, Close, TextAfterPut, SpoolTypeOK
  <2> QED BY <1>3, <1>4, <2>1
<1>8. ~CloseForWritingFails(w)
  BY DEF CloseForWritingFails
<1> QED BY <1>5, <1>6, <1>7, <1>8 DEF SpoolStep

(***************************************************************************)
(* While one parser fills the writers and nothing fails, no buffer is      *)
(* shared, and every writer gets an empty one: what the process needs for  *)
(* TextReadBack to be about all its writers.                               *)
(***************************************************************************)
THEOREM SharingHasACause ==
  ASSUME OneParserOnly
  PROVE  Spec => [](failed = {} => BuffersNeverShared)
<1>1. Init => SoloInv
  BY InitBuffers DEF Init, SpoolInit, SoloInv
<1>2. SoloInv /\ [Next]_vars => SoloInv'
  <2> SUFFICES ASSUME SoloInv, [Next]_vars PROVE SoloInv'
    OBVIOUS
  <2>1. CASE HostStep
    BY <2>1, SoloNew, SoloStep DEF HostStep
  <2>2. CASE ~HostStep
    <3>1. BuffersInv'
      BY <2>2, OthersBuffers DEF SoloInv
    <3>2. CASE SpoolGone
      BY <3>1, <3>2 DEF SpoolGone, SoloInv
    <3>3. CASE ~SpoolGone
      <4>1. UNCHANGED <<phase, buf, text, pool, fresh, failed, mixed>>
        BY <2>2, <3>3, SpoolOthers
      <4> QED BY <3>1, <4>1 DEF SoloInv
    <3> QED BY <3>2, <3>3
  <2> QED BY <2>1, <2>2
<1>3. SoloInv => (failed = {} => BuffersNeverShared)
  BY DEF SoloInv, BuffersNeverShared
<1> QED BY <1>1, <1>2, <1>3, PTL DEF Spec

----------------------------------------------------------------------------
(* The directory.                                                          *)

\* Host's files are records of their own kind.
LEMMA Kinds ==
  /\ \A w \in Writers : [w |-> w] \in Files /\ Maker([w |-> w]) = Host
  /\ \A e \in [by : Procs \ {Host}, dir : BOOLEAN] : e \notin Files /\ Maker(e) = e.by
<1>1. \A e \in [by : Procs \ {Host}, dir : BOOLEAN] : e \notin Files
  <2> SUFFICES ASSUME NEW e \in [by : Procs \ {Host}, dir : BOOLEAN], e \in Files
               PROVE  FALSE
    OBVIOUS
  <2>1. DOMAIN e = {"w"}
    BY DEF Files
  <2>2. DOMAIN e = {"by", "dir"}
    OBVIOUS
  <2> QED BY <2>1, <2>2
<1>2. \A w \in Writers : [w |-> w] \in Files
  BY DEF Files
<1> QED BY <1>1, <1>2 DEF Maker, IsSpoolFile

LEMMA PresentTypes ==
  ASSUME CleanTypeOK
  PROVE  Present \subseteq Artifacts /\ \A e \in Artifacts : Maker(e) \in Procs
BY Kinds, CleanAssumption DEF CleanTypeOK, Present, Artifacts, Files, Maker, IsSpoolFile

(***************************************************************************)
(* What every step does to the processes and to the directory: a pid stays *)
(* with its process, which ends for good, and only a running process makes *)
(* anything.                                                               *)
(***************************************************************************)
Steady ==
  /\ \A p \in Started : p \in Started' /\ pid'[p] = pid[p]
  /\ \A p \in Procs : status[p] = "gone" => status'[p] = "gone"
  /\ \A e \in Present' \ Present : e \in Artifacts /\ Maker(e) \in Running

LEMMA SpoolFiles ==
  ASSUME NEW w \in Writers, SpoolStep(w)
  PROVE  /\ onDisk' \subseteq onDisk \cup {w}
         /\ \A v \in onDisk \ onDisk' : phase[v] = "open"
<1>1. CASE New(w) \/ CloseForWriting(w) \/ CloseForWritingFails(w) \/ ReadCloser(w)
  BY <1>1 DEF New, CloseForWriting, CloseForWritingFails, ReadCloser
<1>2. CASE Write(w)
  BY <1>2 DEF Write, WriteBuffer, WriteSwitch, WriteFails, WriteFile, Transfer
<1>3. CASE Close(w)
  BY <1>3 DEF Close
<1> QED BY <1>1, <1>2, <1>3 DEF SpoolStep

LEMMA NextSteady ==
  ASSUME CleanInv, [Next]_vars
  PROVE  Steady
<1> USE DEF CleanInv
<1>1. ASSUME NEW p \in Procs, Start(p) PROVE Steady
  BY <1>1 DEF Start, Steady, Started, CleanTypeOK, Present, spoolVars
<1>2. ASSUME NEW p \in Procs, End(p) PROVE Steady
  BY <1>2 DEF End, SpoolGone, Steady, Started, CleanTypeOK, Present, spoolVars
<1>3. ASSUME NEW p \in Procs, MkdirTemp(p) PROVE Steady
  <2>1. PICK d \in BOOLEAN : made' = made \cup {[by |-> p, dir |-> d]}
    BY <1>3 DEF MkdirTemp
  <2>2. [by |-> p, dir |-> d] \in Artifacts /\ Maker([by |-> p, dir |-> d]) = p /\ p \in Running
    BY <1>3, Kinds DEF MkdirTemp, Artifacts
  <2> QED BY <1>3, <2>1, <2>2 DEF MkdirTemp, Steady, Started, Present, spoolVars
<1>4. ASSUME NEW p \in Procs, RemoveOwn(p) PROVE Steady
  BY <1>4 DEF RemoveOwn, Steady, Started, Present, spoolVars
<1>5. CASE HostStep
  <2>1. PICK w \in Writers : SpoolStep(w)
    BY <1>5 DEF HostStep
  <2>2. Host \in Running /\ UNCHANGED <<status, pid, made>>
    BY <1>5 DEF HostStep, cleanVars
  <2>3. onDisk' \subseteq onDisk \cup {w}
    BY <2>1, SpoolFiles
  <2>4. \A e \in Present' \ Present : e = [w |-> w]
    BY <2>2, <2>3 DEF Present
  <2> QED BY <2>2, <2>4, Kinds DEF Steady, Started, Artifacts
<1>6. ASSUME NEW c \in Cleaners, CleanTempArtifacts(c) PROVE Steady
  <2>1. UNCHANGED <<status, pid>> /\ onDisk' \subseteq onDisk /\ made' \subseteq made
    BY <1>6 DEF CleanTempArtifacts, ListProcesses, OpenDir, KeepEntry, RemoveEntry, EndOfDir,
                spoolVars
  <2> QED BY <2>1 DEF Steady, Started, Present
<1>7. CASE UNCHANGED vars
  BY <1>7 DEF vars, spoolVars, Steady, Started, Present
<1> QED BY <1>1, <1>2, <1>3, <1>4, <1>5, <1>6, <1>7 DEF Next

----------------------------------------------------------------------------
(* The cleaners.                                                           *)

\* A cleaner that a step leaves alone keeps its part of the invariant.
LEMMA Untouched ==
  ASSUME CleanInv, Steady, NEW c \in Cleaners,
         cleaning'[c] = cleaning[c], pids'[c] = pids[c], entries'[c] = entries[c],
         seen'[c] = seen[c], orphans'[c] = orphans[c], before'[c] = before[c]
  PROVE  Listed(c)' /\ Read(c)'
<1>1. \A e \in orphans[c] : e \in Artifacts /\ Maker(e) \in Procs
  BY PresentTypes DEF CleanInv, CleanTypeOK
<1>2. Listed(c) /\ Read(c)
  BY DEF CleanInv
<1>3. Listed(c)'
  BY <1>1, <1>2 DEF Listed, Steady
<1>4. ASSUME cleaning[c] = "reading", NEW e \in orphans[c], e \in Present'
      PROVE  e \in Present /\ pid'[Maker(e)] = pid[Maker(e)]
  <2>1. status[Maker(e)] = "gone" /\ Maker(e) \in Procs
    BY <1>1, <1>2, <1>4 DEF Listed
  <2> QED BY <1>4, <2>1 DEF Steady, Running, Started
<1>5. Read(c)'
  BY <1>2, <1>4 DEF Read, Live
<1> QED BY <1>3, <1>5

\* One that is not at work has nothing to keep.
LEMMA AtRest ==
  ASSUME NEW c \in Cleaners, cleaning'[c] \in {"idle", "stopped"}, seen'[c] = {}
  PROVE  Listed(c)' /\ Read(c)'
BY DEF Listed, Read

LEMMA Forgets ==
  ASSUME NEW cs \in SUBSET Cleaners, Forget(cs)
  PROVE  /\ \A f \in {pids', entries', seen', orphans', before'} : DOMAIN f = Cleaners
         /\ \A c \in cs : seen'[c] = {}
         /\ \A c \in Cleaners \ cs :
              /\ pids'[c] = pids[c] /\ entries'[c] = entries[c] /\ seen'[c] = seen[c]
              /\ orphans'[c] = orphans[c] /\ before'[c] = before[c]
         /\ CleanTypeOK => /\ {entries', seen', orphans'} \subseteq [Cleaners -> SUBSET Artifacts]
                           /\ before' \in [Cleaners -> SUBSET Procs]
BY DEF Forget, CleanTypeOK

LEMMA StepCleanTypes ==
  ASSUME CleanInv, [Next]_vars, SpoolTypeOK, SpoolTypeOK'
  PROVE  CleanTypeOK'
<1> USE DEF CleanInv
<1>0. onDisk' \subseteq Writers
  BY DEF SpoolTypeOK
<1>1. ASSUME NEW p \in Procs, Start(p) PROVE CleanTypeOK'
  BY <1>0, <1>1 DEF Start, CleanTypeOK, cleanVars, Artifacts, Files
<1>2. ASSUME NEW p \in Procs, End(p) PROVE CleanTypeOK'
  <2> DEFINE cs == {c \in Cleaners : OwnerOf[c] = p}
  <2>1. Forget(cs)
    BY <1>2 DEF End
  <2>2. /\ {entries', seen', orphans'} \subseteq [Cleaners -> SUBSET Artifacts]
        /\ before' \in [Cleaners -> SUBSET Procs] /\ DOMAIN pids' = Cleaners
    BY <2>1, Forgets
  <2> QED BY <1>0, <1>2, <2>2 DEF End, CleanTypeOK, Artifacts, Files
<1>3. ASSUME NEW p \in Procs, MkdirTemp(p) PROVE CleanTypeOK'
  <2>1. PICK d \in BOOLEAN : made' = made \cup {[by |-> p, dir |-> d]}
    BY <1>3 DEF MkdirTemp
  <2>2. made' \subseteq [by : Procs \ {Host}, dir : BOOLEAN]
    BY <1>3, <2>1 DEF MkdirTemp, CleanTypeOK
  <2> QED BY <1>0, <1>3, <2>2 DEF MkdirTemp, CleanTypeOK, cleanVars, Artifacts, Files
<1>4. ASSUME NEW p \in Procs, RemoveOwn(p) PROVE CleanTypeOK'
  BY <1>0, <1>4 DEF RemoveOwn, CleanTypeOK, cleanVars, Artifacts, Files
<1>5. CASE HostStep
  BY <1>0, <1>5 DEF HostStep, CleanTypeOK, cleanVars, Artifacts, Files
<1>6. ASSUME NEW c \in Cleaners, CleanTempArtifacts(c) PROVE CleanTypeOK'
  <2>1. Present \subseteq Artifacts /\ Running \subseteq Procs
    BY PresentTypes DEF Running
  <2>2. Unseen(c) \subseteq Artifacts
    BY <2>1 DEF Unseen, CleanTypeOK
  <2>3. Artifacts' = Artifacts
    BY DEF Artifacts, Files
  <2>4. CASE ListProcesses(c)
    BY <1>0, <2>1, <2>3, <2>4 DEF ListProcesses, CleanTypeOK
  <2>5. CASE OpenDir(c)
    BY <1>0, <2>1, <2>3, <2>5 DEF OpenDir, CleanTypeOK
  <2>6. CASE KeepEntry(c)
    BY <1>0, <2>2, <2>3, <2>6 DEF KeepEntry, CleanTypeOK
  <2>7. CASE RemoveEntry(c)
    <3>1. PICK e \in Unseen(c) :
            /\ made' = made \ {e}
            /\ \/ seen' = [seen EXCEPT ![c] = @ \cup {e}]
                  /\ UNCHANGED <<cleaning, pids, entries, orphans, before>>
               \/ cleaning' = [cleaning EXCEPT ![c] = "stopped"] /\ Forget({c})
      BY <2>7 DEF RemoveEntry
    <3>2. UNCHANGED <<status, pid>>
      BY <2>7 DEF RemoveEntry
    <3>3. CASE seen' = [seen EXCEPT ![c] = @ \cup {e}]
               /\ UNCHANGED <<cleaning, pids, entries, orphans, before>>
      BY <1>0, <2>2, <2>3, <3>1, <3>2, <3>3 DEF CleanTypeOK
    <3>4. CASE cleaning' = [cleaning EXCEPT ![c] = "stopped"] /\ Forget({c})
      BY <1>0, <2>3, <3>1, <3>2, <3>4, Forgets DEF CleanTypeOK
    <3> QED BY <3>1, <3>3, <3>4
  <2>8. CASE EndOfDir(c)
    BY <1>0, <2>3, <2>8, Forgets DEF EndOfDir, CleanTypeOK
  <2> QED BY <1>6, <2>4, <2>5, <2>6, <2>7, <2>8 DEF CleanTempArtifacts
<1>7. CASE UNCHANGED vars
  BY <1>0, <1>7 DEF vars, cleanVars, CleanTypeOK, Artifacts, Files
<1> QED BY <1>1, <1>2, <1>3, <1>4, <1>5, <1>6, <1>7 DEF Next

\* What a step of the cleaner itself does to its own part.
LEMMA OwnStep ==
  ASSUME CleanInv, Steady, NEW c \in Cleaners, CleanTempArtifacts(c)
  PROVE  Listed(c)' /\ Read(c)'
<1> USE DEF CleanInv
<1>1. Listed(c) /\ Read(c) /\ Running \subseteq Started
  BY DEF Running, Started
<1>2. CASE ListProcesses(c)
  <2>1. /\ cleaning'[c] = "listed" /\ seen'[c] = {} /\ before'[c] = Running
        /\ orphans'[c] = {e \in Present : Maker(e) \notin Running}
        /\ pids'[c] = {pid[p] : p \in SameName(c)} /\ UNCHANGED <<status, pid>>
    BY <1>1, <1>2 DEF ListProcesses, Cleans, Read, CleanTypeOK
  <2>2. \A e \in orphans'[c] : status[Maker(e)] = "gone"
    BY <2>1 DEF Started, Running, CleanTypeOK
  <2> QED BY <1>1, <2>1, <2>2 DEF Listed, Read, SameName, Started
<1>3. CASE OpenDir(c)
  <2>1. /\ cleaning[c] = "listed" /\ cleaning'[c] = "reading" /\ entries'[c] = Present
        /\ Present' = Present /\ UNCHANGED <<status, pid, pids, seen, orphans, before>>
    BY <1>3 DEF OpenDir, Cleans, CleanTypeOK, Present, spoolVars
  <2> QED BY <1>1, <2>1 DEF Listed, Read, Started
<1>4. CASE KeepEntry(c)
  <2>1. PICK e \in Unseen(c) : Live(c, e) /\ seen' = [seen EXCEPT ![c] = @ \cup {e}]
    BY <1>4 DEF KeepEntry
  <2>2. /\ cleaning[c] = "reading" /\ Present' = Present
        /\ UNCHANGED <<status, pid, cleaning, pids, entries, orphans, before>>
    BY <1>4 DEF KeepEntry, Cleans, Present, spoolVars
  <2>3. seen'[c] = seen[c] \cup {e}
    BY <2>1 DEF CleanTypeOK
  <2> QED BY <1>1, <2>1, <2>2, <2>3 DEF Listed, Read, Live, Started
<1>5. CASE RemoveEntry(c)
  <2>1. PICK e \in Unseen(c) :
          /\ onDisk' = {w \in onDisk : e # [w |-> w]} /\ made' = made \ {e}
          /\ \/ seen' = [seen EXCEPT ![c] = @ \cup {e}]
                /\ UNCHANGED <<cleaning, pids, entries, orphans, before>>
             \/ cleaning' = [cleaning EXCEPT ![c] = "stopped"] /\ Forget({c})
    BY <1>5 DEF RemoveEntry
  <2>2. cleaning[c] = "reading" /\ UNCHANGED <<status, pid>>
    BY <1>5 DEF RemoveEntry, Cleans
  <2>3. CASE cleaning' = [cleaning EXCEPT ![c] = "stopped"] /\ Forget({c})
    BY <2>3, Forgets, AtRest DEF CleanTypeOK
  <2>4. CASE seen' = [seen EXCEPT ![c] = @ \cup {e}]
             /\ UNCHANGED <<cleaning, pids, entries, orphans, before>>
    <3>1. seen'[c] = seen[c] \cup {e} /\ Present' = Present \ {e}
      BY <2>1, <2>4 DEF CleanTypeOK, Present
    <3> QED BY <1>1, <2>2, <2>4, <3>1 DEF Listed, Read, Live, Started
  <2> QED BY <2>1, <2>3, <2>4
<1>6. CASE EndOfDir(c)
  BY <1>6, Forgets, AtRest DEF EndOfDir, CleanTypeOK
<1> QED BY <1>2, <1>3, <1>4, <1>5, <1>6 DEF CleanTempArtifacts

\* A step that is not a cleaner's own leaves it alone, or ends it with its process.
LEMMA EveryCleaner ==
  ASSUME CleanInv, [Next]_vars, NEW c \in Cleaners
  PROVE  Listed(c)' /\ Read(c)'
<1>0. Steady
  BY NextSteady
<1> DEFINE Same == /\ cleaning'[c] = cleaning[c] /\ pids'[c] = pids[c]
                   /\ entries'[c] = entries[c] /\ seen'[c] = seen[c]
                   /\ orphans'[c] = orphans[c] /\ before'[c] = before[c]
<1>1. Same => Listed(c)' /\ Read(c)'
  BY <1>0, Untouched
<1> HIDE DEF Same
<1>2. ASSUME NEW p \in Procs, Start(p) \/ MkdirTemp(p) \/ RemoveOwn(p) PROVE Same
  BY <1>2 DEF Same, Start, MkdirTemp, RemoveOwn, cleanVars
<1>3. ASSUME NEW p \in Procs, End(p) PROVE Listed(c)' /\ Read(c)'
  <2> DEFINE cs == {d \in Cleaners : OwnerOf[d] = p}
  <2>1. Forget(cs) /\ cs \in SUBSET Cleaners
        /\ cleaning'[c] = IF c \in cs THEN "stopped" ELSE cleaning[c]
    BY <1>3 DEF End
  <2>2. CASE c \in cs
    BY <2>1, <2>2, Forgets, AtRest
  <2>3. CASE c \notin cs
    BY <1>1, <2>1, <2>3, Forgets DEF Same
  <2> QED BY <2>2, <2>3
<1>4. ASSUME HostStep \/ UNCHANGED vars PROVE Same
  BY <1>4 DEF Same, HostStep, vars, cleanVars
<1>5. ASSUME NEW d \in Cleaners, d # c, CleanTempArtifacts(d) PROVE Same
  <2>1. CASE Forget({d})
    <3>1. c \in Cleaners \ {d} /\ cleaning'[c] = cleaning[c]
      BY <1>5, <2>1 DEF CleanTempArtifacts, ListProcesses, OpenDir, KeepEntry, RemoveEntry,
                        EndOfDir, CleanInv, CleanTypeOK
    <3> QED BY <2>1, <3>1, Forgets DEF Same
  <2>2. CASE ~Forget({d})
    BY <1>5, <2>2 DEF Same, CleanTempArtifacts, ListProcesses, OpenDir, KeepEntry, RemoveEntry,
                      EndOfDir, CleanInv, CleanTypeOK
  <2> QED BY <2>1, <2>2
<1>6. CASE CleanTempArtifacts(c)
  BY <1>0, <1>6, OwnStep
<1> QED BY <1>1, <1>2, <1>3, <1>4, <1>5, <1>6 DEF Next

LEMMA CleanStep ==
  ASSUME CleanInv, SpoolTypeOK, SpoolTypeOK', [Next]_vars
  PROVE  CleanInv'
<1>1. Steady
  BY NextSteady
<1>2. \A e \in Present' : Maker(e) \in Started'
  <2>1. Running \subseteq Started
    BY DEF Running, Started
  <2> QED BY <1>1, <2>1 DEF Steady, CleanInv
<1>3. (\A e \in Present : Maker(e) \in Started)'
  BY <1>2 DEF Maker, IsSpoolFile, Files
<1> QED BY <1>3, StepCleanTypes, EveryCleaner DEF CleanInv

DirectoryInv == SpoolTypeOK /\ CleanInv

LEMMA DirectoryInvariant == Spec => []DirectoryInv
<1>1. Init => DirectoryInv
  BY InitTypes DEF Init, SpoolInit, DirectoryInv, CleanInv, CleanTypeOK, Listed, Read, Present
<1>2. DirectoryInv /\ [Next]_vars => DirectoryInv'
  <2> SUFFICES ASSUME DirectoryInv, [Next]_vars PROVE DirectoryInv'
    OBVIOUS
  <2>1. SpoolTypeOK'
    <3>1. CASE HostStep
      BY <3>1, StepTypes DEF HostStep, DirectoryInv
    <3>2. CASE ~HostStep
      BY <3>2, GoneTypes, SpoolOthers DEF SpoolTypeOK, DirectoryInv
    <3> QED BY <3>1, <3>2
  <2> QED BY <2>1, CleanStep DEF DirectoryInv
<1> QED BY <1>1, <1>2, PTL DEF Spec

(***************************************************************************)
(* A file still to be opened is lost only to a cleaner whose list of       *)
(* processes cannot have shown its process.                                *)
(***************************************************************************)
THEOREM FilesLostToStaleLists == Spec => LostOnlyToStaleLists
<1>1. ASSUME DirectoryInv, [Next]_vars PROVE LostToStaleList
  <2> SUFFICES ASSUME NEW w \in onDisk \ onDisk', Host \in Running, phase[w] # "open"
               PROVE  \E c \in Cleaners : cleaning[c] = "reading"
                        /\ (Host \notin before[c] \/ ShownAs[Host] # ExecOf[OwnerOf[c]])
    BY DEF LostToStaleList
  <2>1. ~HostStep
    BY SpoolFiles DEF HostStep
  <2>0. onDisk' # onDisk
    OBVIOUS
  <2>2. PICK c \in Cleaners : RemoveEntry(c)
    <3>1. ASSUME NEW p \in Procs PROVE ~(Start(p) \/ End(p) \/ MkdirTemp(p) \/ RemoveOwn(p))
      BY <2>0 DEF Start, End, SpoolGone, MkdirTemp, RemoveOwn, spoolVars
    <3>2. ASSUME NEW c \in Cleaners, CleanTempArtifacts(c) PROVE RemoveEntry(c)
      BY <2>0, <3>2 DEF CleanTempArtifacts, ListProcesses, OpenDir, KeepEntry, EndOfDir, spoolVars
    <3>3. ~UNCHANGED vars
      BY <2>0 DEF vars, spoolVars
    <3> QED BY <1>1, <2>1, <3>1, <3>2, <3>3 DEF Next
  <2>3. PICK e \in Unseen(c) : ~Live(c, e) /\ onDisk' = {v \in onDisk : e # [w |-> v]}
    BY <2>2 DEF RemoveEntry
  <2>4. e = [w |-> w] /\ w \in Writers
    BY <1>1, <2>3 DEF DirectoryInv, SpoolTypeOK
  <2>5. Maker(e) = Host
    BY <2>4, Kinds
  <2>6. cleaning[c] = "reading" /\ pid[Host] \notin pids[c]
    BY <2>2, <2>3, <2>5 DEF RemoveEntry, Cleans, Live
  <2>7. Listed(c)
    BY <1>1 DEF DirectoryInv, CleanInv
  <2> QED BY <2>6, <2>7 DEF Listed
<1>2. DirectoryInv /\ [Next]_vars => [LostToStaleList]_vars
  BY <1>1
<1> QED BY <1>2, DirectoryInvariant, PTL DEF Spec, LostOnlyToStaleLists

(***************************************************************************)
(* A cleaner that returns without an error has left nothing of a process   *)
(* that had gone, but under a pid in use again.                            *)
(***************************************************************************)
THEOREM NoOrphanLeft == Spec => OrphansRemoved
<1>1. ASSUME DirectoryInv, [Next]_vars PROVE LeavesNoOrphan
  <2> SUFFICES ASSUME NEW c \in Cleaners, cleaning[c] = "reading", cleaning'[c] = "idle",
                      NEW e \in orphans[c], e \in Present'
               PROVE  Live(c, e)
    BY DEF LeavesNoOrphan
  <2>1. EndOfDir(c)
    <3>1. cleaning \in [Cleaners -> {"idle", "listed", "reading", "stopped"}]
      BY <1>1 DEF DirectoryInv, CleanInv, CleanTypeOK
    <3>2. ASSUME NEW p \in Procs PROVE ~(Start(p) \/ End(p) \/ MkdirTemp(p) \/ RemoveOwn(p))
      BY DEF Start, End, MkdirTemp, RemoveOwn, cleanVars
    <3>3. ASSUME NEW d \in Cleaners, CleanTempArtifacts(d) PROVE EndOfDir(d) /\ d = c
      BY <3>1, <3>3 DEF CleanTempArtifacts, ListProcesses, OpenDir, KeepEntry, RemoveEntry, EndOfDir
    <3>4. ~UNCHANGED vars /\ ~HostStep
      BY DEF vars, cleanVars, HostStep
    <3> QED BY <1>1, <3>2, <3>3, <3>4 DEF Next
  <2>2. Present' = Present /\ entries[c] \cap Present \subseteq seen[c]
    BY <2>1 DEF EndOfDir, Present, spoolVars
  <2>3. Read(c)
    BY <1>1 DEF DirectoryInv, CleanInv
  <2> QED BY <2>2, <2>3 DEF Read
<1>2. DirectoryInv /\ [Next]_vars => [LeavesNoOrphan]_vars
  BY <1>1
<1> QED BY <1>2, DirectoryInvariant, PTL DEF Spec, OrphansRemoved
=============================================================================

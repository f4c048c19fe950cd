---------------------------- MODULE GitScanProofs ----------------------------
(***************************************************************************)
(* What the parser and the scan do with the output of git, for any number  *)
(* of commits, files and hunks, any lengths and any limits.                *)
(***************************************************************************)
EXTENDS GitScan, FoldTheorems, SequenceTheorems

----------------------------------------------------------------------------
(* The output of git, and where the parser is in it.                       *)

\* What the parser takes the last line for, at each position of a log it can read.
LineState ==
  [start |-> "Initial", commit |-> "CommitLine", merge |-> "MergeLine", author |-> "AuthorLine",
   date |-> "DateLine", title |-> "MessageStartLine", message |-> "MessageLine",
   rule |-> "MessageEndLine", diff |-> "DiffLine", mode |-> "ModeLine", index |-> "IndexLine",
   binary |-> "BinaryFileLine", from |-> "FromFileLine", to |-> "ToFileLine",
   hunk |-> "HunkLineNumberLine", body |-> "HunkContentLine"]
LogOnly == {"commit", "merge", "author", "date", "title", "message", "rule", "gap"}
Places == LogOnly \cup {"start", "diff", "mode", "index", "binary", "from", "to", "hunk", "body"}
GitOutput == [at : Places, commit : 0..MaxCommits, file : Nat, path : Nat, hunk : Nat,
              body : Nat, text : BOOLEAN, lost : BOOLEAN, junk : Nat]

\* The edges of the grammar, by the kind of the line.
Edge(t, at, to) ==
  \/ t = "commit" /\ at \in {"start", "title", "rule", "gap"} /\ to = "commit"
  \/ t = "merge" /\ at = "commit" /\ to = "merge"
  \/ t = "author" /\ at \in {"commit", "merge"} /\ to = "author"
  \/ t = "date" /\ at = "author" /\ to = "date"
  \/ t = "blank" /\ at = "date" /\ to = "title"
  \/ t = "msg" /\ at = "title" /\ to = "message"
  \/ t = "blank" /\ at = "message" /\ to = "rule"
  \/ t = "junk" /\ at \in {"rule", "mode"} /\ to = at
  \/ t = "diff" /\ at \in {"start", "title", "rule", "mode", "index", "binary", "body"} /\ to = "diff"
  \/ t = "mode" /\ at = "diff" /\ to = "mode"
  \/ t = "index" /\ at \in {"diff", "mode"} /\ to = "index"
  \/ t \in {"binary", "badbinary"} /\ at = "index" /\ to = "binary"
  \/ t = "---" /\ at \in {"mode", "index"} /\ to = "from"
  \/ t = "blank" /\ at \in {"mode", "index", "binary", "body"} /\ to = "gap"
  \/ t \in {"+++", "bad+++"} /\ at = "from" /\ to = "to"
  \/ t = "@@" /\ at \in {"to", "body"} /\ to = "hunk"
  \/ t \in BodyText /\ at \in {"hunk", "body"} /\ to = "body"
  \/ t = "warn" /\ at = "body" /\ to = "body"

LEMMA Edges ==
  ASSUME git.at \in Places, NEW f \in Grammar[git.at]
  PROVE  Edge(f[1], git.at, f[2]) /\ (git.at = "start" => (f[1] = "diff" <=> staged))
<1>1. CASE git.at = "start"
  BY <1>1 DEF Grammar, Edge
<1>2. CASE git.at = "commit"
  BY <1>2 DEF Grammar, Edge
<1>3. CASE git.at = "merge"
  BY <1>3 DEF Grammar, Edge
<1>4. CASE git.at = "author"
  BY <1>4 DEF Grammar, Edge
<1>5. CASE git.at = "date"
  BY <1>5 DEF Grammar, Edge
<1>6. CASE git.at = "title"
  BY <1>6 DEF Grammar, Edge
<1>7. CASE git.at = "message"
  BY <1>7 DEF Grammar, Edge
<1>8. CASE git.at = "rule"
  BY <1>8 DEF Grammar, Edge
<1>9. CASE git.at = "diff"
  BY <1>9 DEF Grammar, Edge
<1>10. CASE git.at = "mode"
  BY <1>10 DEF Grammar, Edge
<1>11. CASE git.at = "index"
  BY <1>11 DEF Grammar, Edge
<1>12. CASE git.at = "binary"
  BY <1>12 DEF Grammar, Edge
<1>13. CASE git.at = "from"
  BY <1>13 DEF Grammar, Edge
<1>14. CASE git.at = "to"
  BY <1>14 DEF Grammar, Edge
<1>15. CASE git.at = "hunk"
  BY <1>15 DEF Grammar, Edge, BodyText
<1>16. CASE git.at = "body"
  BY <1>16 DEF Grammar, Edge, BodyText
<1>17. CASE git.at = "gap"
  BY <1>17 DEF Grammar, Edge
<1> QED BY <1>1, <1>2, <1>3, <1>4, <1>5, <1>6, <1>7, <1>8, <1>9, <1>10, <1>11, <1>12, <1>13, <1>14, <1>15, <1>16, <1>17 DEF Places, LogOnly

\* A line that git may show.
Line(l) ==
  /\ l.n \in Nat /\ l.to \in Places /\ Edge(l.t, git.at, l.to)
  /\ git.at = "start" => (l.t = "diff" <=> staged)
  /\ Allowed(l.t, git) /\ l.n \in Numbers(l.t, git)

LEMMA ShownLine ==
  ASSUME git \in GitOutput, NEW l \in Shows
  PROVE  Line(l)
<1>1. PICK f \in Grammar[git.at] : \E n \in Numbers(f[1], git) :
        Allowed(f[1], git) /\ l = [t |-> f[1], n |-> n, to |-> f[2]]
  BY DEF Shows
<1>2. l.t = f[1] /\ l.n \in Numbers(f[1], git) /\ l.to = f[2]
  BY <1>1
<1>3. git.at \in Places
  BY DEF GitOutput
<1>4. Edge(l.t, git.at, l.to) /\ (git.at = "start" => (l.t = "diff" <=> staged))
  BY <1>2, <1>3, Edges
<1>5. l.to \in Places
  BY <1>3, <1>4 DEF Edge, Places, LogOnly
<1>6. l.n \in Nat
  BY <1>1, <1>2, GitAssumption DEF Numbers, GitOutput
<1> QED BY <1>1, <1>2, <1>4, <1>5, <1>6 DEF Line

----------------------------------------------------------------------------
(* The parser takes each line for what it is.                              *)

InStep ==
  /\ git \in GitOutput
  /\ staged => git.at \notin LogOnly /\ git.commit = 0
  /\ ~staged /\ git.at # "start" => git.commit > 0
  /\ git.at = "start" => ~git.lost
  /\ parser = "loop" =>
       IF git.lost THEN latestState = "ParseFailure"
       ELSE IF git.at = "gap"
       THEN latestState \in {"ModeLine", "IndexLine", "BinaryFileLine", "HunkContentLine"}
       ELSE latestState = LineState[git.at]

\* A line that only changes the state.
Notes(state) ==
  /\ latestState' = state
  /\ pending' = <<>>
  /\ UNCHANGED <<currentCommit, currentDiff, emitted>>

\* The one case a line is, by its kind; after a header it does not know, the parser skips.
Reads(l) ==
  \/ l.t = "commit" /\ CommitCase(l)
  \/ l.t = "diff" /\ DiffCase(l)
  \/ l.t \notin {"commit", "diff"} /\ (git.lost \/ l.t = "junk") /\ Notes("ParseFailure")
  \/ ~git.lost /\ l.t = "@@" /\ HunkCase(l)
  \/ ~git.lost /\ l.t \in {"binary", "badbinary"} /\ BinaryCase(l)
  \/ ~git.lost /\ l.to = "to" /\ ToFileCase(l)
  \/ ~git.lost /\ l.to = "body" /\ l.t \in {"ctx", "plus", "+++"} /\ ContentCase(l)
  \/ /\ ~git.lost
     /\ l.t \in {"merge", "author", "date", "blank", "msg", "mode", "index", "---", "minus", "warn"}
     /\ Notes(IF l.to # "gap" THEN LineState[l.to]
              ELSE IF git.at = "body" THEN "HunkContentLine" ELSE latestState)

LEMMA NothingSent ==
  ASSUME Sending(<<>>)
  PROVE  pending' = <<>> /\ emitted' = emitted
BY DEF Sending

LEMMA OneCase ==
  ASSUME InStep, parser = "loop", NEW l, Line(l), Case(l)
  PROVE  Reads(l)
<1> USE DEF isMergeLine, isCommitLine, isAuthorLine, isDateLine, isMessageStartLine, isMessageLine,
            isMessageEndLine, isDiffLine, isModeLine, isIndexLine, isBinaryLine, isFromFileLine,
            isToFileLine, isHunkLineNumberLine, InHunk, isHunkContextLine, isHunkPlusLine,
            isHunkMinusLine, isHunkNewlineWarningLine, isHunkEmptyLine, isCommitSeparatorLine
<1>0. /\ Edge(l.t, git.at, l.to) /\ (git.at = "start" => (l.t = "diff" <=> staged))
      /\ git.at \in Places
  BY DEF Line, InStep, GitOutput
<1>1. CASE l.t = "commit"
  <2>1. isCommitLine(l) /\ HeaderState(l) = "none"
    BY <1>0, <1>1 DEF HeaderState, InStep, Edge, LineState, LogOnly, BodyText
  <2>2. CommitCase(l)
    BY <1>1, <2>1 DEF Case, HeaderCase, DiffCase, BinaryCase, ToFileCase, HunkCase, ContentCase, InvalidCase
  <2> QED BY <1>1, <2>2 DEF Reads
<1>2. CASE l.t = "diff"
  <2>1. isDiffLine(l) /\ HeaderState(l) = "none"
    BY <1>0, <1>2 DEF HeaderState, InStep, Edge, LineState, LogOnly, BodyText
  <2>2. DiffCase(l)
    BY <1>2, <2>1 DEF Case, CommitCase, HeaderCase, BinaryCase, ToFileCase, HunkCase, ContentCase, InvalidCase
  <2> QED BY <1>2, <2>2 DEF Reads
<1>3. CASE l.t \notin {"commit", "diff"} /\ (git.lost \/ l.t = "junk")
  <2>1. HeaderState(l) = "none" /\ ~isBinaryLine(l) /\ ~isToFileLine(l) /\ ~isHunkLineNumberLine(l)
        /\ ~isHunkContextLine(l) /\ ~isHunkPlusLine(l) /\ ~isCommitLine(l) /\ ~isDiffLine(l)
    BY <1>0, <1>3 DEF HeaderState, InStep, Edge, LineState, LogOnly, BodyText
  <2>2. InvalidCase(l)
    BY <2>1 DEF Case, CommitCase, HeaderCase, DiffCase, BinaryCase, ToFileCase, HunkCase, ContentCase
  <2> QED BY <1>3, <2>2, NothingSent DEF Reads, Notes, InvalidCase
<1>4. CASE ~git.lost /\ l.t = "@@"
  <2>1. isHunkLineNumberLine(l) /\ HeaderState(l) = "none"
    BY <1>0, <1>4 DEF HeaderState, InStep, Edge, LineState, LogOnly, BodyText
  <2>2. HunkCase(l)
    BY <1>4, <2>1 DEF Case, CommitCase, HeaderCase, DiffCase, BinaryCase, ToFileCase, ContentCase, InvalidCase
  <2> QED BY <1>4, <2>2 DEF Reads
<1>5. CASE ~git.lost /\ l.t \in {"binary", "badbinary"}
  <2>1. isBinaryLine(l) /\ HeaderState(l) = "none"
    BY <1>0, <1>5 DEF HeaderState, InStep, Edge, LineState, LogOnly, BodyText
  <2>2. BinaryCase(l)
    BY <1>5, <2>1 DEF Case, CommitCase, HeaderCase, DiffCase, ToFileCase, HunkCase, ContentCase, InvalidCase
  <2> QED BY <1>5, <2>2 DEF Reads
<1>6. CASE ~git.lost /\ l.to = "to"
  <2>1. isToFileLine(l) /\ HeaderState(l) = "none" /\ ~InHunk /\ l.t \in {"+++", "bad+++"}
    BY <1>0, <1>6 DEF HeaderState, InStep, Edge, LineState, LogOnly, BodyText
  <2>2. ToFileCase(l)
    BY <1>6, <2>1 DEF Case, CommitCase, HeaderCase, DiffCase, BinaryCase, HunkCase, ContentCase, InvalidCase
  <2> QED BY <1>6, <2>2 DEF Reads
<1>7. CASE ~git.lost /\ l.to = "body" /\ l.t \in {"ctx", "plus", "+++"}
  <2>1. InHunk /\ HeaderState(l) = "none" /\ (isHunkContextLine(l) \/ isHunkPlusLine(l))
    BY <1>0, <1>7 DEF HeaderState, InStep, Edge, LineState, LogOnly, BodyText
  <2>2. ContentCase(l)
    BY <1>7, <2>1 DEF Case, CommitCase, HeaderCase, DiffCase, BinaryCase, ToFileCase, HunkCase, InvalidCase
  <2> QED BY <1>7, <2>2 DEF Reads
<1> DEFINE known == {"merge", "author", "date", "blank", "msg", "mode", "index", "---", "minus", "warn"}
           state == IF l.to # "gap" THEN LineState[l.to]
                    ELSE IF git.at = "body" THEN "HunkContentLine" ELSE latestState
<1>8. CASE ~git.lost /\ l.t \in known
  <2>1. HeaderState(l) = state /\ state # "none"
    <3>1. CASE l.t = "merge"
      BY <1>0, <1>8, <3>1 DEF HeaderState, InStep, Edge, LineState, LogOnly, BodyText
    <3>2. CASE l.t = "author"
      BY <1>0, <1>8, <3>2 DEF HeaderState, InStep, Edge, LineState, LogOnly, BodyText
    <3>3. CASE l.t = "date"
      BY <1>0, <1>8, <3>3 DEF HeaderState, InStep, Edge, LineState, LogOnly, BodyText
    <3>4. CASE l.t = "msg"
      BY <1>0, <1>8, <3>4 DEF HeaderState, InStep, Edge, LineState, LogOnly, BodyText
    <3>5. CASE l.t = "mode"
      BY <1>0, <1>8, <3>5 DEF HeaderState, InStep, Edge, LineState, LogOnly, BodyText
    <3>6. CASE l.t = "index"
      BY <1>0, <1>8, <3>6 DEF HeaderState, InStep, Edge, LineState, LogOnly, BodyText
    <3>7. CASE l.t = "---" /\ l.to = "from"
      BY <1>0, <1>8, <3>7 DEF HeaderState, InStep, Edge, LineState, LogOnly, BodyText
    <3>8. CASE l.t = "---" /\ l.to = "body"
      BY <1>0, <1>8, <3>8 DEF HeaderState, InStep, Edge, LineState, LogOnly, BodyText
    <3>9. CASE l.t \in {"minus", "warn"}
      BY <1>0, <1>8, <3>9 DEF HeaderState, InStep, Edge, LineState, LogOnly, BodyText
    <3>10. CASE l.t = "blank" /\ l.to # "gap"
      BY <1>0, <1>8, <3>10 DEF HeaderState, InStep, Edge, LineState, LogOnly, BodyText
    <3>11. CASE l.t = "blank" /\ l.to = "gap"
      BY <1>0, <1>8, <3>11 DEF HeaderState, InStep, Edge, LineState, LogOnly, BodyText
    <3> QED BY <1>0, <1>8, <3>1, <3>2, <3>3, <3>4, <3>5, <3>6, <3>7, <3>8, <3>9, <3>10, <3>11 DEF Edge, BodyText
  <2>2. l.t \notin {"commit", "diff", "binary", "badbinary", "@@", "bad+++", "ctx", "plus", "+++"}
    BY <1>8
  <2> HIDE DEF state
  <2>3. HeaderCase(l)
    <3>1. ~isCommitLine(l) /\ ~isDiffLine(l) /\ ~isBinaryLine(l) /\ ~isToFileLine(l)
          /\ ~isHunkLineNumberLine(l) /\ ~isHunkPlusLine(l)
      BY <2>2
    <3>2. ~isHunkContextLine(l)
      <4>1. CASE l.t = "msg"
        <5>1. git.at = "title"
          BY <1>0, <4>1 DEF Edge, BodyText
        <5> QED BY <1>8, <5>1 DEF InStep, LineState
      <4> QED BY <2>2, <4>1
    <3> QED BY <2>1, <3>1, <3>2 DEF Case, CommitCase, DiffCase, BinaryCase, ToFileCase, HunkCase, ContentCase, InvalidCase
  <2>4. Notes(state)
    BY <2>1, <2>3, NothingSent DEF HeaderCase, Notes
  <2> QED BY <1>8, <2>4 DEF Reads, state
<1>9. \/ l.t \in {"commit", "diff"} \/ git.lost \/ l.t = "junk" \/ l.t = "@@"
      \/ l.t \in {"binary", "badbinary"} \/ l.to = "to"
      \/ l.to = "body" /\ l.t \in {"ctx", "plus", "+++"}
      \/ l.t \in known
  BY <1>0 DEF Edge, BodyText
<1> HIDE DEF known
<1> QED BY <1>1, <1>2, <1>3, <1>4, <1>5, <1>6, <1>7, <1>8, <1>9

----------------------------------------------------------------------------
(* The diff that is being built.                                           *)

\* Where no line of the file has been kept yet.
Headers == {"start", "commit", "merge", "author", "date", "title", "message", "rule",
            "diff", "mode", "index", "from"}
Building ==
  /\ git.lost \/ git.at \in Headers => currentDiff = newDiff(git.commit)
  /\ ~git.lost /\ git.at = "to" => currentDiff = [newDiff(git.commit) EXCEPT !.path = git.path]
  /\ ~git.lost /\ git.at \in {"hunk", "body"} =>
       /\ currentDiff.path = git.path /\ currentDiff.line = git.hunk
       /\ ~currentDiff.binary /\ (currentDiff.text # <<>> <=> git.text)
BuildInv ==
  /\ currentCommit.hash = git.commit
  /\ IF parser \in {"loop", "cleanup"}
     THEN currentDiff.commit = git.commit /\ Building
     ELSE currentDiff = newDiff(0)

ParseTypes ==
  /\ parser \in {"loop", "cleanup", "closing", "done"}
  /\ staged \in BOOLEAN /\ ctxDone \in BOOLEAN
  /\ currentCommit \in [made : BOOLEAN, hash : 0..MaxCommits, hasDiffs : BOOLEAN]
  /\ currentDiff \in Diff
  /\ pending \in Seq(Diff) /\ Len(pending) <= 2
  /\ diffChan \in Seq(Diff) /\ Len(diffChan) <= DiffCap
  /\ emitted \subseteq 0..MaxCommits

LEMMA NewDiff ==
  ASSUME NEW c \in 0..MaxCommits
  PROVE  newDiff(c) \in Diff /\ ~HasText(newDiff(c)) /\ newDiff(c).commit = c
<1>1. <<>> \in Seq(Nat)
  OBVIOUS
<1> QED BY <1>1 DEF newDiff, Diff, HasText

LEMMA CurrentIs ==
  ASSUME currentDiff \in Diff
  PROVE  /\ Current \in Seq(Diff) /\ Len(Current) <= 1
         /\ HasText(currentDiff) => Current = <<currentDiff>>
         /\ ~HasText(currentDiff) => Current = <<>>
BY DEF Current

\* At most one diff is sent before a commit.
LEMMA CompletedIs ==
  ASSUME ParseTypes
  PROVE  /\ Completed \in Seq(Diff) /\ Len(Completed) <= 1
         /\ HasText(currentDiff) => Completed = <<currentDiff>>
         /\ ~HasText(currentDiff) =>
              Completed = IF currentCommit.made /\ ~currentCommit.hasDiffs
                          THEN <<newDiff(currentCommit.hash)>> ELSE <<>>
<1> DEFINE empty == <<newDiff(currentCommit.hash)>>
<1>1. /\ currentDiff \in Diff /\ newDiff(currentCommit.hash) \in Diff
      /\ empty \in Seq(Diff) /\ Len(empty) = 1
  BY NewDiff DEF ParseTypes
<1>2. Current \in Seq(Diff) /\ Len(Current) <= 1
  BY <1>1, CurrentIs
<1>3. CASE HasText(currentDiff)
  <2>1. Current = <<currentDiff>> /\ Current # <<>>
    <3>1. Current = <<currentDiff>> /\ Len(<<currentDiff>>) = 1
      BY <1>1, <1>3, CurrentIs
    <3> QED BY <3>1
  <2>2. Completed = Current \o <<>>
    BY <2>1 DEF Completed
  <2> QED BY <1>1, <1>3, <2>1, <2>2
<1>4. CASE ~HasText(currentDiff)
  <2>1. Current = <<>>
    BY <1>1, <1>4, CurrentIs
  <2> HIDE DEF empty
  <2>2. Completed = IF currentCommit.made /\ ~currentCommit.hasDiffs THEN empty ELSE <<>>
    BY <1>1, <2>1 DEF Completed, empty
  <2> QED BY <1>1, <1>4, <2>2 DEF empty
<1> QED BY <1>3, <1>4

\* What git keeps of a line.
LEMMA GitMoves ==
  ASSUME git \in GitOutput, NEW l, Line(l), git' = GitAfter(l)
  PROVE  /\ git' \in GitOutput /\ git'.at = l.to
         /\ git'.commit = IF l.t = "commit" THEN git.commit + 1 ELSE git.commit
         /\ git'.lost <=> (l.t \in {"junk", "bad+++", "badbinary"}
                           \/ (git.lost /\ l.t \notin {"commit", "diff"}))
         /\ git'.path = IF l.t = "+++" /\ l.to = "to" THEN l.n ELSE git.path
         /\ git'.hunk = IF l.t = "@@" THEN l.n ELSE git.hunk
         /\ git'.text <=> /\ l.t # "@@"
                          /\ git.text \/ (l.to = "body" /\ l.t \in {"ctx", "plus", "+++"})
         /\ l.t = "commit" => l.n = git.commit + 1
<1> DEFINE g == [git EXCEPT !.at = l.to]
           Kept == {"ctx", "plus", "+++"}
<1>1. /\ l.n \in Nat /\ l.to \in Places /\ Edge(l.t, git.at, l.to)
      /\ l.t = "commit" => l.n = git.commit + 1 /\ l.n \in 0..MaxCommits
  BY GitAssumption DEF Line, Numbers, Allowed, GitOutput
<1>2. /\ g \in GitOutput /\ g.at = l.to /\ g.commit = git.commit /\ g.lost = git.lost
      /\ g.path = git.path /\ g.hunk = git.hunk /\ g.text = git.text
  BY <1>1 DEF GitOutput
<1>3. git' = CASE l.t = "commit" -> [g EXCEPT !.commit = l.n, !.lost = FALSE]
               [] l.t = "diff" -> [g EXCEPT !.file = @ + 1, !.lost = FALSE]
               [] l.t = "junk" -> [g EXCEPT !.junk = @ + 1, !.lost = TRUE]
               [] l.t \in {"bad+++", "badbinary"} -> [g EXCEPT !.lost = TRUE]
               [] l.t = "+++" /\ l.to = "to" -> [g EXCEPT !.path = l.n]
               [] l.t = "@@" -> [g EXCEPT !.hunk = l.n, !.text = FALSE]
               [] l.to = "body" -> [g EXCEPT !.body = @ + 1, !.text = @ \/ l.t \in Kept]
               [] OTHER -> g
  BY DEF GitAfter
<1> HIDE DEF g
<1>4. g.file + 1 \in Nat /\ g.junk + 1 \in Nat /\ g.body + 1 \in Nat
  BY <1>2 DEF GitOutput
<1>5. CASE l.t = "commit"
  BY <1>1, <1>2, <1>3, <1>5 DEF GitOutput, Edge, BodyText
<1>6. CASE l.t = "diff"
  <2>1. git' = [g EXCEPT !.file = @ + 1, !.lost = FALSE] /\ l.to = "diff"
    BY <1>1, <1>3, <1>6 DEF Edge, BodyText
  <2> QED BY <1>1, <1>2, <1>4, <1>6, <2>1 DEF GitOutput
<1>7. CASE l.t = "junk"
  <2>1. git' = [g EXCEPT !.junk = @ + 1, !.lost = TRUE] /\ l.to # "body"
    BY <1>1, <1>3, <1>7 DEF Edge, BodyText
  <2> QED BY <1>1, <1>2, <1>4, <1>7, <2>1 DEF GitOutput
<1>8. CASE l.t \in {"bad+++", "badbinary"}
  <2>1. l.t \notin {"commit", "diff", "junk", "@@", "+++"} /\ l.to # "body"
    BY <1>1, <1>8 DEF Edge, BodyText
  <2>2. git' = [g EXCEPT !.lost = TRUE]
    BY <1>3, <1>8, <2>1
  <2> QED BY <1>1, <1>2, <1>8, <2>1, <2>2 DEF GitOutput
<1>9. CASE l.t = "+++" /\ l.to = "to"
  <2>1. git' = [g EXCEPT !.path = l.n]
    BY <1>1, <1>3, <1>9
  <2> QED BY <1>1, <1>2, <1>9, <2>1 DEF GitOutput
<1>10. CASE l.t = "@@"
  <2>1. git' = [g EXCEPT !.hunk = l.n, !.text = FALSE] /\ l.to = "hunk"
    BY <1>1, <1>3, <1>10 DEF Edge, BodyText
  <2> QED BY <1>1, <1>2, <1>10, <2>1 DEF GitOutput
<1>11. CASE l.to = "body"
  <2>1. l.t \in BodyText \cup {"warn"}
    BY <1>1, <1>11 DEF Edge
  <2>2. l.t \notin {"commit", "diff", "junk", "bad+++", "badbinary", "@@"} /\ l.to # "to"
    BY <1>11, <2>1 DEF BodyText
  <2>3. git' = [g EXCEPT !.body = @ + 1, !.text = @ \/ l.t \in Kept]
    BY <1>3, <1>11, <2>2
  <2>4. \A b \in {g.text \/ l.t \in Kept} : b \in BOOLEAN
    OBVIOUS
  <2> QED BY <1>1, <1>2, <1>4, <1>11, <2>1, <2>3, <2>4 DEF GitOutput, BodyText
<1>12. CASE /\ l.t \notin {"commit", "diff", "junk", "bad+++", "badbinary", "@@"} /\ l.to # "body"
            /\ ~(l.t = "+++" /\ l.to = "to")
  <2>1. l.to # "to"
    BY <1>1, <1>12 DEF Edge
  <2>2. git' = g
    BY <1>3, <1>12, <2>1
  <2> QED BY <1>1, <1>2, <1>12, <2>2 DEF GitOutput
<1> QED BY <1>5, <1>6, <1>7, <1>8, <1>9, <1>10, <1>11, <1>12

----------------------------------------------------------------------------
(* What every step of the parser keeps.                                    *)

\* A commit that has shown a diff has sent one, and so has every commit before it.
CommitInv ==
  /\ currentCommit.hash > 0 => currentCommit.made
  /\ currentCommit.hasDiffs => currentCommit.hash \in emitted
  /\ CommitsReported

ParseInv == ParseTypes /\ InStep /\ BuildInv /\ CommitInv

\* An iteration of the loop on the line l.
Reading(l) ==
  /\ ParseInv /\ parser = "loop" /\ pending = <<>>
  /\ Line(l) /\ Reads(l) /\ git' = GitAfter(l)
  /\ parser' \in {"loop", "cleanup"}
  /\ UNCHANGED <<staged, ctxDone, diffChan>>

LEMMA ReadingLine ==
  ASSUME ParseInv, ReadLine
  PROVE  \E l : /\ Reading(l) /\ owed' = OwedAfter(l)
                /\ parser' = IF TextLen(currentDiff'.text) > MaxDiffSize THEN "cleanup" ELSE "loop"
<1>1. PICK l \in Shows : Case(l) /\ git' = GitAfter(l) /\ owed' = OwedAfter(l)
  BY DEF ReadLine
<1>2. /\ parser = "loop" /\ pending = <<>> /\ UNCHANGED <<staged, ctxDone, diffChan>>
      /\ parser' = IF TextLen(currentDiff'.text) > MaxDiffSize THEN "cleanup" ELSE "loop"
  BY DEF ReadLine
<1>3. Line(l)
  BY ShownLine DEF ParseInv, InStep
<1>4. Reads(l)
  BY <1>1, <1>2, <1>3, OneCase DEF ParseInv
<1> QED BY <1>1, <1>2, <1>3, <1>4 DEF Reading

LEMMA ReadingGit ==
  ASSUME NEW l, Reading(l)
  PROVE  /\ git' \in GitOutput /\ git'.at = l.to
         /\ git'.commit = IF l.t = "commit" THEN git.commit + 1 ELSE git.commit
         /\ git'.lost <=> (l.t \in {"junk", "bad+++", "badbinary"}
                           \/ (git.lost /\ l.t \notin {"commit", "diff"}))
         /\ git'.path = IF l.t = "+++" /\ l.to = "to" THEN l.n ELSE git.path
         /\ git'.hunk = IF l.t = "@@" THEN l.n ELSE git.hunk
         /\ git'.text <=> /\ l.t # "@@"
                          /\ git.text \/ (l.to = "body" /\ l.t \in {"ctx", "plus", "+++"})
         /\ l.t = "commit" => l.n = git.commit + 1
BY GitMoves DEF Reading, ParseInv, InStep

LEMMA ReadingInStep ==
  ASSUME NEW l, Reading(l)
  PROVE  InStep'
<1>0. /\ git' \in GitOutput /\ git'.at = l.to
      /\ git'.commit = IF l.t = "commit" THEN git.commit + 1 ELSE git.commit
      /\ git'.lost <=> (l.t \in {"junk", "bad+++", "badbinary"}
                        \/ (git.lost /\ l.t \notin {"commit", "diff"}))
  BY ReadingGit
<1>1. /\ Edge(l.t, git.at, l.to) /\ (git.at = "start" => (l.t = "diff" <=> staged))
      /\ InStep /\ parser = "loop" /\ Reads(l) /\ staged' = staged /\ git.commit \in Nat
      /\ Allowed(l.t, git)
  BY DEF Reading, Line, ParseInv, InStep, GitOutput
<1>2. staged => l.to \notin LogOnly /\ l.t # "commit"
  BY <1>1 DEF InStep, Edge, LogOnly, BodyText, Allowed
<1>3. (staged => git'.at \notin LogOnly /\ git'.commit = 0)
  BY <1>0, <1>1, <1>2 DEF InStep
<1>4. ~staged /\ git'.at # "start" => git'.commit > 0
  <2>1. CASE git.at = "start"
    BY <1>0, <1>1, <2>1 DEF Edge
  <2>2. CASE git.at # "start"
    BY <1>0, <1>1, <2>2 DEF InStep
  <2> QED BY <2>1, <2>2
<1>5. git'.at # "start"
  BY <1>0, <1>1 DEF Edge, BodyText
<1>7. /\ l.t = "commit" => l.to = "commit"
      /\ l.t = "diff" => l.to = "diff"
      /\ l.t = "@@" => l.to = "hunk"
      /\ l.t \in {"binary", "badbinary"} => l.to = "binary"
      /\ l.to = "to" => l.t \in {"+++", "bad+++"}
  BY <1>1 DEF Edge, BodyText
<1>6. IF git'.lost THEN latestState' = "ParseFailure"
      ELSE IF git'.at = "gap"
      THEN latestState' \in {"ModeLine", "IndexLine", "BinaryFileLine", "HunkContentLine"}
      ELSE latestState' = LineState[git'.at]
  <2>1. CASE l.t = "commit" /\ CommitCase(l)
    <3>1. latestState' = "CommitLine"
      BY <2>1 DEF CommitCase
    <3>2. git'.lost = FALSE
      BY <1>0, <2>1
    <3>3. git'.at = "commit"
      BY <1>0, <1>7, <2>1
    <3> QED BY <3>1, <3>2, <3>3 DEF LineState
  <2>2. CASE l.t = "diff" /\ DiffCase(l)
    <3>1. latestState' = "DiffLine"
      BY <2>2 DEF DiffCase
    <3>2. git'.lost = FALSE
      BY <1>0, <1>7, <2>2
    <3>3. git'.at = "diff"
      BY <1>0, <1>7, <2>2
    <3> QED BY <3>1, <3>2, <3>3 DEF LineState
  <2>3. CASE l.t \notin {"commit", "diff"} /\ (git.lost \/ l.t = "junk") /\ Notes("ParseFailure")
    BY <1>0, <1>1, <2>3 DEF Notes
  <2>4. CASE ~git.lost /\ l.t = "@@" /\ HunkCase(l)
    <3>1. latestState' = "HunkLineNumberLine"
      BY <2>4 DEF HunkCase
    <3>2. git'.lost = FALSE
      BY <1>0, <1>7, <2>4
    <3>3. git'.at = "hunk"
      BY <1>0, <1>7, <2>4
    <3> QED BY <3>1, <3>2, <3>3 DEF LineState
  <2>5. CASE ~git.lost /\ l.t \in {"binary", "badbinary"} /\ BinaryCase(l)
    <3>1. latestState' = IF l.t = "badbinary" THEN "ParseFailure" ELSE "BinaryFileLine"
      BY <2>5 DEF BinaryCase
    <3>2. git'.lost <=> l.t = "badbinary"
      BY <1>0, <1>7, <2>5
    <3>3. git'.at = "binary"
      BY <1>0, <1>7, <2>5
    <3> QED BY <3>1, <3>2, <3>3 DEF LineState
  <2>6. CASE ~git.lost /\ l.to = "to" /\ ToFileCase(l)
    <3>1. latestState' = IF l.t = "bad+++" THEN "ParseFailure" ELSE "ToFileLine"
      BY <2>6 DEF ToFileCase
    <3>2. git'.lost <=> l.t = "bad+++"
      BY <1>0, <1>7, <2>6
    <3>3. git'.at = "to"
      BY <1>0, <1>7, <2>6
    <3> QED BY <3>1, <3>2, <3>3 DEF LineState
  <2>7. CASE ~git.lost /\ l.to = "body" /\ l.t \in {"ctx", "plus", "+++"} /\ ContentCase(l)
    <3>1. latestState' = "HunkContentLine"
      BY <2>7 DEF ContentCase
    <3>2. git'.lost = FALSE
      BY <1>0, <1>7, <2>7
    <3>3. git'.at = "body"
      BY <1>0, <1>7, <2>7
    <3> QED BY <3>1, <3>2, <3>3 DEF LineState
  <2>8. CASE /\ ~git.lost
             /\ l.t \in {"merge", "author", "date", "blank", "msg", "mode", "index", "---",
                         "minus", "warn"}
             /\ Notes(IF l.to # "gap" THEN LineState[l.to]
                      ELSE IF git.at = "body" THEN "HunkContentLine" ELSE latestState)
    <3>1. ~git'.lost
      BY <1>0, <2>8
    <3>2. CASE l.to # "gap"
      BY <1>0, <2>8, <3>1, <3>2 DEF Notes
    <3>3. CASE l.to = "gap"
      <4>1. git.at \in {"mode", "index", "binary", "body"}
        BY <1>1, <3>3 DEF Edge, BodyText
      <4>2. latestState = LineState[git.at]
        BY <1>1, <2>8, <4>1 DEF InStep
      <4> QED BY <1>0, <2>8, <3>1, <3>3, <4>1, <4>2 DEF Notes, LineState
    <3> QED BY <3>2, <3>3
  <2> QED BY <1>1, <2>1, <2>2, <2>3, <2>4, <2>5, <2>6, <2>7, <2>8 DEF Reads
<1> QED BY <1>0, <1>1, <1>3, <1>4, <1>5, <1>6 DEF InStep

\* What is sent, and for which commits.
LEMMA Sent ==
  ASSUME emitted \subseteq 0..MaxCommits, NEW q \in Seq(Diff), Sending(q)
  PROVE  /\ pending' = q /\ emitted' \subseteq 0..MaxCommits /\ emitted \subseteq emitted'
         /\ \A i \in 1..Len(q) : q[i].commit \in emitted'
<1>1. DOMAIN q = 1..Len(q) /\ \A i \in 1..Len(q) : q[i] \in Diff
  BY ElementOfSeq
<1>2. \A i \in 1..Len(q) : q[i].commit \in 0..MaxCommits
  BY <1>1 DEF Diff
<1> QED BY <1>1, <1>2 DEF Sending

LEMMA SentDiff ==
  ASSUME emitted \subseteq 0..MaxCommits, NEW d \in Diff, Sending(<<d>>)
  PROVE  d.commit \in emitted'
<1> DEFINE q == <<d>>
<1>1. q \in Seq(Diff) /\ 1 \in 1..Len(q) /\ q[1] = d /\ Sending(q)
  OBVIOUS
<1> HIDE DEF q
<1>2. q[1].commit \in emitted'
  BY <1>1, Sent
<1> QED BY <1>1, <1>2

LEMMA ReadingTypes ==
  ASSUME NEW l, Reading(l)
  PROVE  ParseTypes'
<1>1. /\ ParseTypes /\ Reads(l) /\ l.n \in Nat /\ parser' \in {"loop", "cleanup"}
      /\ UNCHANGED <<staged, ctxDone, diffChan>>
      /\ git' \in GitOutput
      /\ l.t = "commit" => l.n = git.commit + 1 /\ git'.commit = git.commit + 1
  BY ReadingGit DEF Reading, ParseInv, Line
<1>2. /\ currentDiff \in Diff /\ emitted \subseteq 0..MaxCommits /\ currentCommit.hash \in 0..MaxCommits
      /\ currentCommit \in [made : BOOLEAN, hash : 0..MaxCommits, hasDiffs : BOOLEAN]
  BY <1>1 DEF ParseTypes
<1>3. l.t = "commit" => l.n \in 0..MaxCommits
  BY <1>1 DEF GitOutput
<1> DEFINE Sends(q) == q \in Seq(Diff) /\ Len(q) <= 2 /\ Sending(q)
           Commits == [made : BOOLEAN, hash : 0..MaxCommits, hasDiffs : BOOLEAN]
<1>4. SUFFICES /\ currentCommit' \in Commits /\ currentDiff' \in Diff
               /\ \E q : Sends(q)
  <2>1. ASSUME NEW q, Sends(q) PROVE pending' \in Seq(Diff) /\ Len(pending') <= 2 /\ emitted' \subseteq 0..MaxCommits
    BY <1>2, <2>1, Sent
  <2> QED BY <1>1, <2>1 DEF ParseTypes
<1>5. <<>> \in Seq(Diff) /\ Len(<<>>) <= 2
  OBVIOUS
<1>6. Current \in Seq(Diff) /\ Len(Current) <= 2
  BY <1>2, CurrentIs
<1>7. CASE l.t = "commit" /\ CommitCase(l)
  <2>1. Completed \in Seq(Diff) /\ Len(Completed) <= 2
    BY <1>1, CompletedIs
  <2> QED BY <1>3, <1>7, <2>1, NewDiff DEF CommitCase
<1>8. CASE DiffCase(l)
  <2>1. newDiff(currentCommit.hash) \in Diff
    BY <1>2, NewDiff
  <2>2. currentCommit' \in Commits
    <3>1. currentCommit' = [currentCommit EXCEPT !.made = TRUE, !.hasDiffs = @ \/ Current # <<>>]
      BY <1>8 DEF DiffCase
    <3>2. \A b \in {currentCommit.hasDiffs \/ Current # <<>>} : b \in BOOLEAN
      OBVIOUS
    <3> QED BY <1>2, <3>1, <3>2
  <2> QED BY <1>6, <1>8, <2>1, <2>2 DEF DiffCase
<1>9. ASSUME NEW state, Notes(state)
      PROVE  currentCommit' \in Commits /\ currentDiff' \in Diff /\ Sends(<<>>)
  BY <1>2, <1>5, <1>9 DEF Notes, Sending
<1>10. CASE HunkCase(l)
  <2>1. newDiff(currentCommit.hash) \in Diff /\ currentDiff.path \in Nat
    BY <1>2, NewDiff DEF Diff
  <2>2. currentDiff' \in Diff
    BY <1>1, <1>10, <2>1 DEF HunkCase, Diff
  <2> QED BY <1>2, <1>6, <1>10, <2>2 DEF HunkCase
<1>11. CASE BinaryCase(l)
  <2>1. currentDiff' \in Diff
    BY <1>1, <1>2, <1>11 DEF BinaryCase, Diff
  <2> QED BY <1>2, <1>5, <1>11, <2>1 DEF BinaryCase
<1>12. CASE ToFileCase(l)
  <2>1. currentDiff' \in Diff
    BY <1>1, <1>2, <1>12 DEF ToFileCase, Diff
  <2> QED BY <1>2, <1>5, <1>12, <2>1 DEF ToFileCase
<1>13. CASE ContentCase(l)
  <2> DEFINE length == IF isHunkContextLine(l) THEN 1 ELSE l.n
  <2>1. length \in Nat /\ currentDiff.text \in Seq(Nat)
    BY <1>1, <1>2 DEF Diff
  <2>2. currentDiff' = [currentDiff EXCEPT !.text = Append(@, length)]
    BY <1>13 DEF ContentCase
  <2> HIDE DEF length
  <2>3. Append(currentDiff.text, length) \in Seq(Nat)
    BY <2>1
  <2>4. currentDiff' \in Diff
    BY <1>2, <2>2, <2>3 DEF Diff
  <2> QED BY <1>2, <1>5, <1>13, <2>4 DEF ContentCase
<1> HIDE DEF Sends
<1> QED BY <1>1, <1>7, <1>8, <1>9, <1>10, <1>11, <1>12, <1>13 DEF Reads

LEMMA ReadingBuild ==
  ASSUME NEW l, Reading(l)
  PROVE  BuildInv'
<1>0. /\ git' \in GitOutput /\ git'.at = l.to
      /\ git'.commit = IF l.t = "commit" THEN git.commit + 1 ELSE git.commit
      /\ git'.lost <=> (l.t \in {"junk", "bad+++", "badbinary"}
                          \/ (git.lost /\ l.t \notin {"commit", "diff"}))
      /\ git'.path = IF l.t = "+++" /\ l.to = "to" THEN l.n ELSE git.path
      /\ git'.hunk = IF l.t = "@@" THEN l.n ELSE git.hunk
      /\ git'.text <=> /\ l.t # "@@"
                       /\ git.text \/ (l.to = "body" /\ l.t \in {"ctx", "plus", "+++"})
      /\ l.t = "commit" => l.n = git.commit + 1
  BY ReadingGit
<1>1. /\ Edge(l.t, git.at, l.to) /\ Reads(l) /\ l.n \in Nat
      /\ parser = "loop" /\ parser' \in {"loop", "cleanup"}
      /\ currentDiff \in Diff /\ currentDiff' \in Diff
      /\ currentCommit \in [made : BOOLEAN, hash : 0..MaxCommits, hasDiffs : BOOLEAN]
      /\ git \in GitOutput
      /\ currentCommit.hash = git.commit /\ currentDiff.commit = git.commit /\ Building
  BY ReadingTypes DEF Reading, Line, ParseInv, BuildInv, ParseTypes, InStep
<1>2. SUFFICES /\ currentCommit'.hash = git'.commit
               /\ currentDiff'.commit = git'.commit /\ Building'
  BY <1>1 DEF BuildInv
<1>3. CASE l.t = "commit" /\ CommitCase(l)
  <2>1. l.to = "commit" /\ git'.commit = l.n /\ ~git'.lost
    BY <1>0, <1>1, <1>3 DEF Edge, BodyText
  <2>2. currentDiff' = newDiff(git'.commit) /\ currentCommit'.hash = git'.commit
    BY <1>3, <2>1 DEF CommitCase
  <2> QED BY <1>0, <2>1, <2>2 DEF Building, newDiff
<1>4. CASE l.t = "diff" /\ DiffCase(l)
  <2>1. l.to = "diff" /\ git'.commit = git.commit /\ ~git'.lost
    BY <1>0, <1>1, <1>4 DEF Edge, BodyText
  <2>2. currentDiff' = newDiff(git'.commit) /\ currentCommit'.hash = git'.commit
    BY <1>1, <1>4, <2>1 DEF DiffCase
  <2> QED BY <1>0, <2>1, <2>2 DEF Building, newDiff
<1>5. CASE l.t \notin {"commit", "diff"} /\ (git.lost \/ l.t = "junk") /\ Notes("ParseFailure")
  <2>1. git'.lost /\ git'.commit = git.commit
    BY <1>0, <1>5
  <2>2. currentDiff = newDiff(git.commit)
    <3>1. git.lost \/ git.at \in Headers
      BY <1>1, <1>5 DEF Edge, Headers, BodyText
    <3> QED BY <1>1, <3>1 DEF Building
  <2> QED BY <1>1, <1>5, <2>1, <2>2 DEF Building, Notes
<1>6. CASE ~git.lost /\ l.t = "@@" /\ HunkCase(l)
  <2>1. l.to = "hunk" /\ git'.commit = git.commit /\ ~git'.lost /\ ~git'.text /\ git'.hunk = l.n
        /\ git'.path = git.path /\ git.at \in {"to", "body"}
    BY <1>0, <1>1, <1>6 DEF Edge, BodyText
  <2>2. currentDiff.path = git.path
    BY <1>1, <1>6, <2>1 DEF Building, newDiff
  <2>3. /\ currentDiff' = [newDiff(git.commit) EXCEPT !.path = git.path, !.line = l.n]
        /\ currentCommit'.hash = git.commit
    BY <1>1, <1>6, <2>2 DEF HunkCase
  <2> QED BY <1>0, <2>1, <2>3 DEF Building, newDiff, Headers
<1>7. CASE ~git.lost /\ l.t \in {"binary", "badbinary"} /\ BinaryCase(l)
  <2>1. l.to = "binary" /\ git'.commit = git.commit /\ git.at = "index"
        /\ (git'.lost <=> l.t = "badbinary")
    BY <1>0, <1>1, <1>7 DEF Edge, BodyText
  <2>2. currentDiff = newDiff(git.commit)
    BY <1>1, <2>1 DEF Building, Headers
  <2>3. currentCommit' = currentCommit /\ currentDiff'.commit = git.commit
        /\ (l.t = "badbinary" => currentDiff' = currentDiff)
    BY <1>1, <1>7 DEF BinaryCase, Diff
  <2> QED BY <1>0, <1>1, <2>1, <2>2, <2>3 DEF Building, Headers
<1>8. CASE ~git.lost /\ l.to = "to" /\ ToFileCase(l)
  <2>1. /\ git'.commit = git.commit /\ git.at = "from" /\ l.t \in {"+++", "bad+++"}
        /\ (git'.lost <=> l.t = "bad+++")
    BY <1>0, <1>1, <1>8 DEF Edge, BodyText
  <2>2. currentDiff = newDiff(git.commit)
    BY <1>1, <2>1 DEF Building, Headers
  <2>3. currentCommit' = currentCommit /\ currentDiff'.commit = git.commit
        /\ (l.t = "bad+++" => currentDiff' = newDiff(git.commit))
        /\ (l.t = "+++" => currentDiff' = [newDiff(git.commit) EXCEPT !.path = git'.path])
    BY <1>0, <1>1, <1>8, <2>1, <2>2 DEF ToFileCase, Diff
  <2> QED BY <1>0, <1>1, <1>8, <2>1, <2>3 DEF Building, Headers
<1>9. CASE ~git.lost /\ l.to = "body" /\ l.t \in {"ctx", "plus", "+++"} /\ ContentCase(l)
  <2> DEFINE length == IF isHunkContextLine(l) THEN 1 ELSE l.n
  <2>1. git'.commit = git.commit /\ git.at \in {"hunk", "body"} /\ ~git'.lost /\ git'.text
        /\ git'.path = git.path /\ git'.hunk = git.hunk
    BY <1>0, <1>1, <1>9 DEF Edge, BodyText
  <2>2. currentDiff.path = git.path /\ currentDiff.line = git.hunk /\ ~currentDiff.binary
    BY <1>1, <1>9, <2>1 DEF Building
  <2>3. currentDiff' = [currentDiff EXCEPT !.text = Append(@, length)] /\ currentCommit' = currentCommit
    BY <1>9 DEF ContentCase
  <2>4. length \in Nat /\ currentDiff.text \in Seq(Nat)
    BY <1>1 DEF Diff
  <2> HIDE DEF length
  <2>5. Append(currentDiff.text, length) # <<>>
    <3> DEFINE text == currentDiff.text
               S == Nat
    <3>1. text \in Seq(S) /\ length \in S
      BY <2>4
    <3> HIDE DEF text, S
    <3>2. Append(text, length) # <<>>
      BY ONLY <3>1, AppendProperties
    <3> QED BY <3>2 DEF text
  <2>6. /\ currentDiff'.text # <<>> /\ currentDiff'.commit = git.commit
        /\ currentDiff'.path = git.path /\ currentDiff'.line = git.hunk /\ ~currentDiff'.binary
    BY <1>1, <2>2, <2>3, <2>5 DEF Diff
  <2> QED BY <1>0, <1>1, <1>9, <2>1, <2>3, <2>6 DEF Building, Headers
<1>10. CASE /\ ~git.lost
            /\ l.t \in {"merge", "author", "date", "blank", "msg", "mode", "index", "---",
                        "minus", "warn"}
            /\ Notes(IF l.to # "gap" THEN LineState[l.to]
                     ELSE IF git.at = "body" THEN "HunkContentLine" ELSE latestState)
  <2>1. /\ git'.commit = git.commit /\ ~git'.lost /\ (git'.text <=> git.text)
        /\ git'.path = git.path /\ git'.hunk = git.hunk
    BY <1>0, <1>10
  <2>2. currentDiff' = currentDiff /\ currentCommit' = currentCommit
    BY <1>10 DEF Notes
  <2>3. /\ l.to \in Headers => git.at \in Headers
        /\ l.to # "to" /\ (l.to \in {"hunk", "body"} => git.at \in {"hunk", "body"})
    BY <1>1, <1>10 DEF Edge, BodyText, Headers
  <2> QED BY <1>0, <1>1, <1>10, <2>1, <2>2, <2>3 DEF Building
<1> QED BY <1>1, <1>3, <1>4, <1>5, <1>6, <1>7, <1>8, <1>9, <1>10 DEF Reads

\* The commits met stay the same, and none of those sent is forgotten.
LEMMA CommitsStay ==
  ASSUME CommitInv, UNCHANGED currentCommit, emitted \subseteq emitted'
  PROVE  CommitInv'
BY DEF CommitInv, CommitsReported

LEMMA ReadingCommits ==
  ASSUME NEW l, Reading(l)
  PROVE  CommitInv' /\ emitted \subseteq emitted'
<1>1. /\ Reads(l) /\ ParseTypes /\ CommitInv
      /\ emitted \subseteq 0..MaxCommits /\ currentDiff \in Diff
      /\ currentCommit.hash = git.commit /\ currentDiff.commit = git.commit
      /\ l.t = "commit" => l.n = git.commit + 1
      /\ currentCommit \in [made : BOOLEAN, hash : 0..MaxCommits, hasDiffs : BOOLEAN]
      /\ git.commit \in Nat
  BY ReadingGit DEF Reading, ParseInv, BuildInv, ParseTypes
<1>2. Current \in Seq(Diff) /\ <<>> \in Seq(Diff)
  BY <1>1, CurrentIs
<1>3. HasText(currentDiff) => Current = <<currentDiff>>
  BY <1>1, CurrentIs
<1>4. CASE l.t = "commit" /\ CommitCase(l)
  <2>1. Completed \in Seq(Diff) /\ Sending(Completed)
    BY <1>1, <1>4, CompletedIs DEF CommitCase
  <2>2. emitted \subseteq emitted'
    BY <1>1, <2>1, Sent
  <2>3. git.commit > 0 => git.commit \in emitted'
    <3>1. CASE HasText(currentDiff)
      <4>1. Sending(<<currentDiff>>)
        BY <1>1, <2>1, <3>1, CompletedIs
      <4> QED BY <1>1, <4>1, SentDiff
    <3>2. CASE ~HasText(currentDiff) /\ currentCommit.made /\ ~currentCommit.hasDiffs
      <4> DEFINE empty == newDiff(currentCommit.hash)
      <4>1. Sending(<<empty>>)
        BY <1>1, <2>1, <3>2, CompletedIs
      <4>2. empty \in Diff /\ empty.commit = git.commit
        BY <1>1, NewDiff
      <4> HIDE DEF empty
      <4> QED BY <1>1, <4>1, <4>2, SentDiff
    <3>3. CASE currentCommit.hasDiffs
      BY <1>1, <2>2, <3>3 DEF CommitInv
    <3> QED BY <1>1, <3>1, <3>2, <3>3 DEF CommitInv
  <2>4. currentCommit' = [made |-> TRUE, hash |-> git.commit + 1, hasDiffs |-> FALSE]
    BY <1>1, <1>4 DEF CommitCase
  <2>5. ASSUME NEW h \in 1..(git.commit + 1), h < git.commit + 1 PROVE h \in emitted'
    <3>1. CASE h = git.commit
      BY <2>3, <3>1
    <3>2. CASE h < git.commit
      <4>1. h \in 1..currentCommit.hash /\ h < currentCommit.hash
        BY <1>1, <2>5, <3>2
      <4> QED BY <1>1, <2>2, <4>1 DEF CommitInv, CommitsReported
    <3> QED BY <1>1, <2>5, <3>1, <3>2
  <2> QED BY <2>2, <2>4, <2>5 DEF CommitInv, CommitsReported
<1>5. CASE DiffCase(l)
  <2>1. Sending(Current) /\ currentCommit' = [currentCommit EXCEPT !.made = TRUE, !.hasDiffs = @ \/ Current # <<>>]
    BY <1>5 DEF DiffCase
  <2>2. emitted \subseteq emitted'
    BY <1>1, <1>2, <2>1, Sent
  <2>3. Current # <<>> => git.commit \in emitted'
    <3>1. Current # <<>> => Current = <<currentDiff>>
      BY DEF Current
    <3> QED BY <1>1, <2>1, <3>1, SentDiff
  <2>4. /\ currentCommit'.hash = currentCommit.hash /\ currentCommit'.made
        /\ currentCommit'.hasDiffs => currentCommit.hasDiffs \/ Current # <<>>
    BY <1>1, <2>1
  <2> QED BY <1>1, <2>2, <2>3, <2>4 DEF CommitInv, CommitsReported
<1>6. CASE HunkCase(l)
  <2>1. emitted \subseteq emitted' /\ currentCommit' = currentCommit
    BY <1>1, <1>2, <1>6, Sent DEF HunkCase
  <2> QED BY <1>1, <2>1, CommitsStay
<1>7. CASE BinaryCase(l) \/ ToFileCase(l) \/ ContentCase(l)
  <2>1. Sending(<<>>) /\ currentCommit' = currentCommit
    BY <1>7 DEF BinaryCase, ToFileCase, ContentCase
  <2> QED BY <1>1, <2>1, NothingSent, CommitsStay
<1>8. ASSUME NEW state, Notes(state) PROVE CommitInv' /\ emitted \subseteq emitted'
  <2>1. currentCommit' = currentCommit /\ emitted' = emitted
    BY <1>8 DEF Notes
  <2> QED BY <1>1, <2>1, CommitsStay
<1> QED BY <1>1, <1>4, <1>5, <1>6, <1>7, <1>8 DEF Reads

LEMMA ParserKeeps ==
  ASSUME ParseInv, Parse
  PROVE  ParseInv'
<1>0. /\ ParseTypes /\ InStep /\ BuildInv /\ CommitInv
      /\ emitted \subseteq 0..MaxCommits /\ currentDiff \in Diff
      /\ currentCommit \in [made : BOOLEAN, hash : 0..MaxCommits, hasDiffs : BOOLEAN]
      /\ pending \in Seq(Diff) /\ Len(pending) <= 2
      /\ diffChan \in Seq(Diff) /\ Len(diffChan) <= DiffCap
  BY DEF ParseInv, ParseTypes
<1>1. CASE ReadLine
  <2>1. PICK l : Reading(l)
    BY <1>1, ReadingLine
  <2> QED BY <2>1, ReadingTypes, ReadingInStep, ReadingBuild, ReadingCommits DEF ParseInv
<1>2. CASE Send
  <2>1. /\ Tail(pending) \in Seq(Diff) /\ Len(Tail(pending)) <= 2
        /\ Append(diffChan, Head(pending)) \in Seq(Diff)
        /\ Len(Append(diffChan, Head(pending))) <= DiffCap
    <3>1. /\ Tail(pending) \in Seq(Diff) /\ Len(Tail(pending)) = Len(pending) - 1
          /\ Head(pending) \in Diff /\ Len(pending) \in Nat
      BY <1>0, <1>2, HeadTailProperties DEF Send
    <3>2. /\ Append(diffChan, Head(pending)) \in Seq(Diff)
          /\ Len(Append(diffChan, Head(pending))) = Len(diffChan) + 1 /\ Len(diffChan) \in Nat
      BY <1>0, <3>1, AppendProperties
    <3>3. Len(diffChan) < DiffCap /\ DiffCap \in Nat
      BY <1>2, GitAssumption DEF Send
    <3> QED BY <1>0, <3>1, <3>2, <3>3
  <2> QED BY <1>0, <1>2, <2>1
          DEF Send, ParseInv, ParseTypes, InStep, BuildInv, Building, CommitInv, CommitsReported
<1>3. CASE StopReading
  BY <1>0, <1>3 DEF StopReading, ParseInv, ParseTypes, InStep, BuildInv, Building, CommitInv, CommitsReported
<1>4. CASE cleanupParse
  <2> DEFINE last == IF HasText(currentDiff)
                     THEN <<[currentDiff EXCEPT !.commit = currentCommit.hash]>> ELSE <<>>
  <2>1. [currentDiff EXCEPT !.commit = currentCommit.hash] \in Diff
    BY <1>0 DEF Diff
  <2>2. last \in Seq(Diff) /\ Len(last) <= 2
    BY <2>1
  <2>3. Sending(last)
    BY <1>4 DEF cleanupParse
  <2> HIDE DEF last
  <2>4. pending' = last /\ emitted' \subseteq 0..MaxCommits /\ emitted \subseteq emitted'
    BY <1>0, <2>2, <2>3, Sent
  <2>5. newDiff(0) \in Diff
    <3>1. 0 \in 0..MaxCommits
      BY GitAssumption
    <3> QED BY <3>1, NewDiff
  <2>6. /\ parser' = "closing" /\ currentDiff' = newDiff(0)
        /\ UNCHANGED <<staged, git, ctxDone, latestState, currentCommit, diffChan, owed>>
    BY <1>4 DEF cleanupParse
  <2>7. CommitInv'
    BY <1>0, <2>4, <2>6, CommitsStay
  <2> QED BY <1>0, <2>2, <2>4, <2>5, <2>6, <2>7 DEF ParseInv, ParseTypes, InStep, BuildInv
<1>5. CASE CloseChannel
  BY <1>0, <1>5 DEF CloseChannel, ParseInv, ParseTypes, InStep, BuildInv, Building, CommitInv, CommitsReported
<1> QED BY <1>1, <1>2, <1>3, <1>4, <1>5 DEF Parse

LEMMA CancelKeeps ==
  ASSUME ParseInv, Cancel
  PROVE  ParseInv'
BY DEF Cancel, parserVars, ParseInv, ParseTypes, InStep, BuildInv, Building, CommitInv, CommitsReported

\* The scan only takes from the channel.
LEMMA TakeKeeps ==
  ASSUME ParseInv, Take
  PROVE  ParseInv'
<1>1. /\ diffChan \in Seq(Diff) /\ diffChan # <<>> /\ Len(diffChan) <= DiffCap
      /\ diffChan' = Tail(diffChan) /\ DiffCap \in Nat
      /\ UNCHANGED <<staged, git, ctxDone, parser, latestState, currentCommit, currentDiff, pending, emitted>>
  BY GitAssumption DEF Take, parserVars, ParseInv, ParseTypes
<1>2. diffChan' \in Seq(Diff) /\ Len(diffChan') <= DiffCap
  <2>1. Tail(diffChan) \in Seq(Diff) /\ Len(Tail(diffChan)) = Len(diffChan) - 1 /\ Len(diffChan) \in Nat
    BY <1>1, HeadTailProperties
  <2> QED BY <1>1, <2>1
<1> QED BY <1>1, <1>2 DEF ParseInv, ParseTypes, InStep, BuildInv, Building, CommitInv, CommitsReported

LEMMA ParserStays ==
  ASSUME ParseInv, UNCHANGED parseVars
  PROVE  ParseInv'
BY DEF parseVars, parserVars, ParseInv, ParseTypes, InStep, BuildInv, Building, CommitInv, CommitsReported

LEMMA ParserStarts ==
  ASSUME Init
  PROVE  ParseInv
<1>1. 0 \in 0..MaxCommits /\ newDiff(0) \in Diff
  <2>1. 0 \in 0..MaxCommits
    BY GitAssumption
  <2> QED BY <2>1, NewDiff
<1>2. <<>> \in Seq(Diff) /\ Len(<<>>) <= 2 /\ Len(<<>>) <= DiffCap
  BY GitAssumption
<1>3. ParseTypes
  <2>1. currentCommit \in [made : BOOLEAN, hash : 0..MaxCommits, hasDiffs : BOOLEAN]
    BY <1>1 DEF Init, ParseInit, NoCommit
  <2> QED BY <1>1, <1>2, <2>1 DEF Init, ParseInit, ParseTypes
<1>4. InStep
  BY <1>1 DEF Init, ParseInit, InStep, GitOutput, Places, LogOnly, LineState
<1>5. BuildInv
  BY DEF Init, ParseInit, BuildInv, Building, NoCommit, Headers, newDiff
<1>6. CommitInv
  BY DEF Init, ParseInit, CommitInv, CommitsReported, NoCommit
<1> QED BY <1>3, <1>4, <1>5, <1>6 DEF ParseInv

\* A step of the scan takes a diff from the channel, or none.
LEMMA ScanTakes ==
  ASSUME ScanLoop
  PROVE  Take \/ UNCHANGED parseVars
BY DEF ScanLoop, BreakLoop, ScanDiff, RangeEnds

LEMMA ParseInvariant == Spec => []ParseInv
<1>1. Init => ParseInv
  BY ParserStarts
<1>2. ParseInv /\ [Next]_vars => ParseInv'
  <2> SUFFICES ASSUME ParseInv, [Next]_vars PROVE ParseInv'
    OBVIOUS
  <2>1. CASE Parse
    BY <2>1, ParserKeeps
  <2>2. CASE Cancel
    BY <2>2, CancelKeeps
  <2>3. CASE ScanLoop
    BY <2>3, ScanTakes, TakeKeeps, ParserStays
  <2>4. CASE UNCHANGED vars
    BY <2>4, ParserStays DEF vars
  <2> QED BY <2>1, <2>2, <2>3, <2>4 DEF Next
<1> QED BY <1>1, <1>2, PTL DEF Spec

(***************************************************************************)
(* Every commit the log has moved past has been sent to the scan, for any  *)
(* log that git may show, of any length.                                   *)
(***************************************************************************)
THEOREM NoCommitHidden == Spec => []CommitsReported
<1>1. ParseInv => CommitsReported
  BY DEF ParseInv, CommitInv
<1> QED BY <1>1, ParseInvariant, PTL

----------------------------------------------------------------------------
(* Where the scan stops.                                                   *)

\* The diffs on their way to the scan.
Queued == diffChan \o pending

\* From one commit on, no commit is left out between one diff and the next.
Before(from, q, i) == IF i = 1 THEN from ELSE q[i - 1].commit
Stepwise(from, q) == \A i \in 1..Len(q) : q[i].commit \in {Before(from, q, i), Before(from, q, i) + 1}
LastOf(from, q) == IF q = <<>> THEN from ELSE q[Len(q)].commit
LastQueued == LastOf(lastCommitHash, Queued)

\* The diffs of a log count its commits.
LogInv ==
  /\ depth = lastCommitHash
  /\ scan = "range" =>
       /\ Stepwise(lastCommitHash, Queued) /\ (base # 0 => lastCommitHash # base)
       /\ parser \in {"loop", "cleanup"} =>
            /\ currentCommit.hash \in {LastQueued, LastQueued + 1}
            /\ currentCommit.hasDiffs => currentCommit.hash = LastQueued

\* Staged diffs are of no commit.
StagedInv ==
  /\ depth = 0 /\ lastCommitHash = 0 /\ ~reachedBase
  /\ \A i \in 1..Len(Queued) : Queued[i].commit = 0

ScanTypes ==
  /\ <<maxDepth, base>> \in Options
  /\ scan \in {"range", "done"} /\ depth \in Nat /\ lastCommitHash \in 0..MaxCommits
  /\ reachedBase \in BOOLEAN
  /\ stop \in {"none", "end", "depth", "base", "error"} /\ stopAt \in 0..MaxCommits
  /\ scan = "range" => stop = "none"

StopInv == ScanTypes /\ StopsWhereAsked /\ IF staged THEN StagedInv ELSE LogInv

LEMMA QueuedType ==
  ASSUME ParseInv
  PROVE  /\ Queued \in Seq(Diff) /\ Len(Queued) = Len(diffChan) + Len(pending)
         /\ \A i \in 1..Len(Queued) : Queued[i] \in Diff /\ Queued[i].commit \in 0..MaxCommits
<1>1. diffChan \in Seq(Diff) /\ pending \in Seq(Diff)
  BY DEF ParseInv, ParseTypes
<1>2. Queued \in Seq(Diff) /\ Len(Queued) = Len(diffChan) + Len(pending)
  BY <1>1, ConcatProperties DEF Queued
<1>3. \A i \in 1..Len(Queued) : Queued[i] \in Diff
  BY <1>2, ElementOfSeq
<1> QED BY <1>2, <1>3 DEF Diff

\* Sending does not change what is queued.
LEMMA SendQueued ==
  ASSUME ParseInv, Send
  PROVE  Queued' = Queued
<1>1. diffChan \in Seq(Diff) /\ pending \in Seq(Diff) /\ pending # <<>>
      /\ diffChan' = Append(diffChan, Head(pending)) /\ pending' = Tail(pending)
  BY DEF Send, ParseInv, ParseTypes
<1>2. Head(pending) \in Diff /\ Tail(pending) \in Seq(Diff) /\ pending = <<Head(pending)>> \o Tail(pending)
  BY <1>1, HeadTailProperties, HeadTailAppend
<1> DEFINE h == <<Head(pending)>>
           t == Tail(pending)
<1>3. h \in Seq(Diff)
  BY <1>2
<1>4. Append(diffChan, Head(pending)) = diffChan \o h
  BY <1>1, <1>2, AppendIsConcat
<1>5. (diffChan \o h) \o t = diffChan \o (h \o t)
  BY <1>1, <1>2, <1>3, ConcatAssociative
<1> QED BY <1>1, <1>2, <1>4, <1>5 DEF Queued

LEMMA StepAppended ==
  ASSUME NEW from, NEW q \in Seq(Diff), NEW d \in Diff, Stepwise(from, q),
         d.commit \in {LastOf(from, q), LastOf(from, q) + 1}
  PROVE  Stepwise(from, Append(q, d)) /\ LastOf(from, Append(q, d)) = d.commit
<1> DEFINE a == Append(q, d)
<1>1. /\ a \in Seq(Diff) /\ a # <<>> /\ Len(a) = Len(q) + 1 /\ Len(q) \in Nat
      /\ \A i \in 1..Len(q) : a[i] = q[i]
      /\ a[Len(q) + 1] = d
  BY AppendProperties
<1> HIDE DEF a
<1>2. ASSUME NEW i \in 1..Len(q) PROVE a[i].commit \in {Before(from, a, i), Before(from, a, i) + 1}
  <2>1. Before(from, a, i) = Before(from, q, i)
    <3>1. CASE i = 1
      BY <3>1 DEF Before
    <3>2. CASE i # 1
      <4>1. i - 1 \in 1..Len(q)
        BY <1>1, <3>2
      <4> QED BY <1>1, <3>2, <4>1 DEF Before
    <3> QED BY <3>1, <3>2
  <2> QED BY <1>1, <2>1 DEF Stepwise
<1>3. Before(from, a, Len(q) + 1) = LastOf(from, q)
  <2>1. CASE q = <<>>
    <3>1. Len(q) + 1 = 1
      BY <2>1
    <3> QED BY <2>1, <3>1 DEF Before, LastOf
  <2>2. CASE q # <<>>
    <3>1. Len(q) + 1 # 1 /\ (Len(q) + 1) - 1 = Len(q) /\ Len(q) \in 1..Len(q)
      BY <1>1, <2>2, EmptySeq
    <3> QED BY <1>1, <2>2, <3>1 DEF Before, LastOf
  <2> QED BY <2>1, <2>2
<1>4. \A i \in 1..(Len(q) + 1) : i \in 1..Len(q) \/ i = Len(q) + 1
  BY <1>1
<1>5. Stepwise(from, a)
  BY <1>1, <1>2, <1>3, <1>4 DEF Stepwise
<1>6. LastOf(from, a) = d.commit
  BY <1>1 DEF LastOf
<1> QED BY <1>5, <1>6 DEF a

LEMMA StepTaken ==
  ASSUME NEW from, NEW q \in Seq(Diff), q # <<>>, Stepwise(from, q)
  PROVE  /\ Head(q).commit \in {from, from + 1}
         /\ Stepwise(Head(q).commit, Tail(q))
         /\ LastOf(Head(q).commit, Tail(q)) = LastOf(from, q)
<1> DEFINE t == Tail(q)
<1>1. /\ t \in Seq(Diff) /\ Len(t) = Len(q) - 1 /\ Len(q) \in Nat /\ Len(q) > 0
      /\ \A i \in 1..Len(t) : t[i] = q[i + 1]
      /\ Head(q) = q[1]
  BY HeadTailProperties, EmptySeq
<1> HIDE DEF t
<1>2. Head(q).commit \in {from, from + 1}
  <2>1. 1 \in 1..Len(q)
    BY <1>1
  <2> QED BY <1>1, <2>1 DEF Stepwise, Before
<1>3. ASSUME NEW i \in 1..Len(t)
      PROVE  t[i].commit \in {Before(Head(q).commit, t, i), Before(Head(q).commit, t, i) + 1}
  <2>1. i + 1 \in 1..Len(q) /\ i + 1 # 1 /\ (i + 1) - 1 = i
    BY <1>1
  <2>2. t[i].commit \in {q[i].commit, q[i].commit + 1}
    BY <1>1, <2>1 DEF Stepwise, Before
  <2>3. q[i].commit = Before(Head(q).commit, t, i)
    <3>1. CASE i = 1
      BY <1>1, <3>1 DEF Before
    <3>2. CASE i # 1
      <4>1. i - 1 \in 1..Len(t) /\ (i - 1) + 1 = i
        BY <1>1, <3>2
      <4> QED BY <1>1, <3>2, <4>1 DEF Before
    <3> QED BY <3>1, <3>2
  <2> QED BY <2>2, <2>3
<1>4. LastOf(Head(q).commit, t) = LastOf(from, q)
  <2>1. CASE t = <<>>
    <3>1. Len(q) = 1
      BY <1>1, <2>1
    <3> QED BY <1>1, <2>1, <3>1 DEF LastOf
  <2>2. CASE t # <<>>
    <3>1. Len(t) \in 1..Len(t) /\ Len(t) + 1 = Len(q)
      BY <1>1, <2>2, EmptySeq
    <3> QED BY <1>1, <2>2, <3>1 DEF LastOf
  <2> QED BY <2>1, <2>2
<1> QED BY <1>2, <1>3, <1>4 DEF Stepwise, t

\* What an iteration of the loop sends is of the commit it was in.
SendsFor(q, hash) == q \in Seq(Diff) /\ (q = <<>> \/ \E d \in Diff : q = <<d>> /\ d.commit = hash)

LEMMA ReadingSends ==
  ASSUME NEW l, Reading(l)
  PROVE  \E q : /\ SendsFor(q, currentCommit.hash) /\ pending' = q
                /\ \/ /\ ~staged /\ ~currentCommit'.hasDiffs
                      /\ currentCommit'.hash = currentCommit.hash + 1
                      /\ q = <<>> => currentCommit.hash = 0 \/ currentCommit.hasDiffs
                   \/ /\ currentCommit'.hash = currentCommit.hash
                      /\ currentCommit'.hasDiffs => currentCommit.hasDiffs \/ q # <<>>
<1>1. /\ Reads(l) /\ ParseTypes /\ CommitInv
      /\ currentDiff \in Diff
      /\ currentCommit.hash = git.commit /\ currentDiff.commit = git.commit
      /\ l.t = "commit" => l.n = git.commit + 1 /\ ~staged
      /\ currentCommit \in [made : BOOLEAN, hash : 0..MaxCommits, hasDiffs : BOOLEAN]
  <2>1. l.t = "commit" => ~staged
    <3>1. /\ Edge(l.t, git.at, l.to) /\ git.at = "start" => (l.t = "diff" <=> staged)
      BY DEF Reading, Line
    <3>2. staged => git.at \notin LogOnly
      BY DEF Reading, ParseInv, InStep
    <3>3. l.t = "commit" => git.at \in {"start", "title", "rule", "gap"}
      BY DEF Reading, Line, Edge, BodyText
    <3>4. l.t = "commit" /\ git.at = "start" => ~staged
      BY DEF Reading, Line
    <3> QED BY <3>2, <3>3, <3>4 DEF LogOnly
  <2> QED BY <2>1, ReadingGit DEF Reading, ParseInv, BuildInv, ParseTypes
<1>2. SendsFor(Current, currentCommit.hash) /\ SendsFor(<<>>, currentCommit.hash)
  BY <1>1, CurrentIs DEF SendsFor, Current
<1>3. CASE l.t = "commit" /\ CommitCase(l)
  <2>1. pending' = Completed /\ ~currentCommit'.hasDiffs /\ currentCommit'.hash = currentCommit.hash + 1
    BY <1>1, <1>3 DEF CommitCase, Sending
  <2>2. SendsFor(Completed, currentCommit.hash)
        /\ (Completed = <<>> => currentCommit.hash = 0 \/ currentCommit.hasDiffs)
    <3>1. CASE HasText(currentDiff)
      <4>1. Completed = <<currentDiff>> /\ <<currentDiff>> \in Seq(Diff)
        BY <1>1, <3>1, CompletedIs
      <4>2. Len(Completed) = 1
        BY <4>1
      <4>3. Completed # <<>>
        BY <4>2
      <4> QED BY <1>1, <4>1, <4>3 DEF SendsFor
    <3>2. CASE ~HasText(currentDiff) /\ currentCommit.made /\ ~currentCommit.hasDiffs
      <4> DEFINE empty == newDiff(currentCommit.hash)
      <4>1. Completed = <<empty>> /\ empty \in Diff /\ empty.commit = currentCommit.hash
        BY <1>1, <3>2, CompletedIs, NewDiff
      <4> HIDE DEF empty
      <4>2. Completed \in Seq(Diff) /\ Len(Completed) = 1
        BY <4>1
      <4>3. Completed # <<>>
        BY <4>2
      <4> QED BY <4>1, <4>2, <4>3 DEF SendsFor
    <3>3. CASE ~HasText(currentDiff) /\ ~(currentCommit.made /\ ~currentCommit.hasDiffs)
      <4>1. Completed = <<>>
        BY <1>1, <3>3, CompletedIs
      <4>2. currentCommit.hash = 0 \/ currentCommit.hasDiffs
        BY <1>1, <3>3 DEF CommitInv
      <4> QED BY <1>2, <4>1, <4>2
    <3> QED BY <3>1, <3>2, <3>3
  <2> QED BY <1>1, <1>3, <2>1, <2>2
<1>4. CASE DiffCase(l)
  <2>1. /\ pending' = Current
        /\ currentCommit' = [currentCommit EXCEPT !.made = TRUE, !.hasDiffs = @ \/ Current # <<>>]
    BY <1>4 DEF DiffCase, Sending
  <2>2. /\ currentCommit'.hash = currentCommit.hash
        /\ currentCommit'.hasDiffs => currentCommit.hasDiffs \/ Current # <<>>
    BY <1>1, <2>1
  <2> QED BY <1>2, <2>1, <2>2
<1>5. CASE HunkCase(l)
  BY <1>2, <1>5 DEF HunkCase, Sending
<1>6. CASE BinaryCase(l) \/ ToFileCase(l) \/ ContentCase(l)
  BY <1>2, <1>6 DEF BinaryCase, ToFileCase, ContentCase, Sending
<1>7. ASSUME NEW state, Notes(state)
      PROVE  pending' = <<>> /\ currentCommit' = currentCommit
  BY <1>7 DEF Notes
<1>8. CASE pending' = <<>> /\ currentCommit' = currentCommit
  BY <1>2, <1>8
<1> QED BY <1>1, <1>3, <1>4, <1>5, <1>6, <1>7, <1>8 DEF Reads

\* Something more is sent: the diffs stay in the order of the commits.
LEMMA QueueGrows ==
  ASSUME ParseInv, pending = <<>>, diffChan' = diffChan, NEW hash, NEW q, SendsFor(q, hash), pending' = q
  PROVE  Queued = diffChan /\ (q = <<>> => Queued' = Queued)
         /\ (q # <<>> => \E d \in Diff : d.commit = hash /\ Queued' = Append(Queued, d))
<1>1. diffChan \in Seq(Diff)
  BY DEF ParseInv, ParseTypes
<1>2. diffChan \o <<>> = diffChan
  BY <1>1, ConcatEmptySeq
<1>3. Queued = diffChan /\ Queued' = diffChan \o q
  BY <1>2 DEF Queued
<1>4. ASSUME NEW d \in Diff, q = <<d>> PROVE Queued' = Append(Queued, d)
  BY <1>1, <1>3, <1>4, AppendIsConcat
<1> QED BY <1>2, <1>3, <1>4 DEF SendsFor

\* The queue grows by a diff of the commit the parser is in, or not at all.
LEMMA GrowsInOrder ==
  ASSUME ParseInv, StopInv, UNCHANGED <<staged, scanVars>>,
         parser \in {"loop", "cleanup"},
         \/ Queued' = Queued
         \/ \E d \in Diff : d.commit = currentCommit.hash /\ Queued' = Append(Queued, d)
  PROVE  /\ staged => \A i \in 1..Len(Queued') : Queued'[i].commit = 0
         /\ ~staged /\ scan = "range" =>
              /\ Stepwise(lastCommitHash, Queued') /\ LastQueued' = LastOf(lastCommitHash, Queued')
              /\ Queued' # Queued => LastQueued' = currentCommit.hash
<1>1. LastQueued' = LastOf(lastCommitHash, Queued')
  BY DEF LastQueued, LastOf, scanVars
<1>2. Queued \in Seq(Diff)
  BY QueuedType
<1>3. CASE Queued' = Queued
  BY <1>1, <1>3 DEF StopInv, StagedInv, LogInv
<1>4. ASSUME NEW d \in Diff, d.commit = currentCommit.hash, Queued' = Append(Queued, d)
      PROVE  /\ staged => \A i \in 1..Len(Queued') : Queued'[i].commit = 0
             /\ ~staged /\ scan = "range" =>
                  Stepwise(lastCommitHash, Queued') /\ LastOf(lastCommitHash, Queued') = currentCommit.hash
  <2>1. CASE staged
    <3>1. d.commit = 0
      BY <1>4, <2>1 DEF ParseInv, InStep, BuildInv
    <3>2. /\ Len(Queued') = Len(Queued) + 1 /\ Len(Queued) \in Nat
          /\ \A i \in 1..Len(Queued) : Queued'[i] = Queued[i]
          /\ Queued'[Len(Queued) + 1] = d
      BY <1>2, <1>4, AppendProperties
    <3>3. \A i \in 1..Len(Queued) : Queued[i].commit = 0
      BY <2>1 DEF StopInv, StagedInv
    <3>4. \A i \in 1..(Len(Queued) + 1) : i \in 1..Len(Queued) \/ i = Len(Queued) + 1
      BY <3>2
    <3> QED BY <2>1, <3>1, <3>2, <3>3, <3>4
  <2>2. CASE ~staged /\ scan = "range"
    <3>1. /\ Stepwise(lastCommitHash, Queued)
          /\ currentCommit.hash \in {LastOf(lastCommitHash, Queued), LastOf(lastCommitHash, Queued) + 1}
      BY <2>2 DEF StopInv, LogInv, LastQueued
    <3> QED BY <1>2, <1>4, <2>2, <3>1, StepAppended
  <2> QED BY <2>1, <2>2
<1> QED BY <1>1, <1>3, <1>4

LEMMA ParserKeepsStop ==
  ASSUME ParseInv, StopInv, Parse, UNCHANGED scanVars
  PROVE  StopInv'
<1>0. /\ staged' = staged /\ ScanTypes' /\ StopsWhereAsked'
      /\ UNCHANGED <<maxDepth, base, scan, depth, lastCommitHash, reachedBase, stop, stopAt>>
  <2>1. staged' = staged
    BY DEF Parse, ReadLine, Send, StopReading, cleanupParse, CloseChannel
  <2> QED BY <2>1 DEF scanVars, StopInv, ScanTypes, StopsWhereAsked
<1> DEFINE Zero == \A i \in 1..Len(Queued') : Queued'[i].commit = 0
           Ordered == Stepwise(lastCommitHash, Queued')
           Follows == /\ currentCommit'.hash \in {LastQueued', LastQueued' + 1}
                      /\ currentCommit'.hasDiffs => currentCommit'.hash = LastQueued'
<1>1. SUFFICES /\ staged => Zero
               /\ ~staged /\ scan = "range" => Ordered /\ (parser' \in {"loop", "cleanup"} => Follows)
  <2>1. staged => StagedInv'
    BY <1>0, <1>1 DEF StopInv, StagedInv
  <2>2. ASSUME ~staged PROVE LogInv'
    <3>1. /\ depth' = lastCommitHash'
          /\ scan = "range" => (base # 0 => lastCommitHash # base)
      BY <1>0, <2>2 DEF StopInv, LogInv
    <3>2. scan = "range" => Stepwise(lastCommitHash', Queued') /\ (parser' \in {"loop", "cleanup"} => Follows)
      BY <1>0, <1>1, <2>2
    <3> QED BY <1>0, <3>1, <3>2 DEF LogInv
  <2> QED BY <1>0, <2>1, <2>2 DEF StopInv
<1> HIDE DEF Zero, Ordered, Follows
<1>2. ASSUME Queued' = Queued PROVE (staged => Zero) /\ (~staged /\ scan = "range" => Ordered)
             /\ LastQueued' = LastQueued
  BY <1>0, <1>2 DEF StopInv, StagedInv, LogInv, LastQueued, LastOf, Zero, Ordered
<1>3. ~staged /\ scan = "range" /\ parser \in {"loop", "cleanup"} =>
        /\ currentCommit.hash \in {LastQueued, LastQueued + 1}
        /\ currentCommit.hasDiffs => currentCommit.hash = LastQueued
  BY DEF StopInv, LogInv
<1>4. CASE ReadLine
  <2>1. PICK l : Reading(l)
    BY <1>4, ReadingLine
  <2>2. PICK q : /\ SendsFor(q, currentCommit.hash) /\ pending' = q
                 /\ \/ /\ ~staged /\ ~currentCommit'.hasDiffs
                       /\ currentCommit'.hash = currentCommit.hash + 1
                       /\ q = <<>> => currentCommit.hash = 0 \/ currentCommit.hasDiffs
                    \/ /\ currentCommit'.hash = currentCommit.hash
                       /\ currentCommit'.hasDiffs => currentCommit.hasDiffs \/ q # <<>>
    BY <2>1, ReadingSends
  <2>3. parser = "loop" /\ pending = <<>> /\ diffChan' = diffChan
    BY <2>1 DEF Reading
  <2>4. /\ q = <<>> => Queued' = Queued
        /\ q # <<>> => \E d \in Diff : d.commit = currentCommit.hash /\ Queued' = Append(Queued, d)
    BY <2>2, <2>3, QueueGrows
  <2>5. CASE q = <<>>
    <3>1. Queued' = Queued
      BY <2>4, <2>5
    <3>2. ~staged /\ scan = "range" => Follows
      <4> SUFFICES ASSUME ~staged, scan = "range" PROVE Follows
        OBVIOUS
      <4>1. currentCommit.hash \in {LastQueued, LastQueued + 1} /\ currentCommit.hash \in Nat
            /\ (currentCommit.hasDiffs => currentCommit.hash = LastQueued) /\ LastQueued \in Nat
        <5>1. currentCommit.hash \in Nat
          BY DEF ParseInv, ParseTypes
        <5>2. LastQueued \in Nat
          <6>1. lastCommitHash \in Nat
            BY DEF StopInv, ScanTypes
          <6>2. Queued # <<>> => Len(Queued) \in 1..Len(Queued)
            BY QueuedType, EmptySeq
          <6>3. Queued # <<>> => Queued[Len(Queued)].commit \in Nat
            BY <6>2, QueuedType
          <6> QED BY <6>1, <6>3 DEF LastQueued, LastOf
        <5> QED BY <1>3, <2>3, <5>1, <5>2
      <4>2. LastQueued' = LastQueued
        BY <1>2, <3>1
      <4>3. currentCommit.hash = 0 => LastQueued = 0
        BY <4>1
      <4> QED BY <2>2, <2>5, <4>1, <4>2, <4>3 DEF Follows
    <3> QED BY <1>2, <3>1, <3>2
  <2>6. CASE q # <<>>
    <3>1. \E d \in Diff : d.commit = currentCommit.hash /\ Queued' = Append(Queued, d)
      BY <2>4, <2>6
    <3>2. Queued' # Queued
      <4>1. PICK d \in Diff : Queued' = Append(Queued, d)
        BY <3>1
      <4>2. Len(Append(Queued, d)) = Len(Queued) + 1 /\ Len(Queued) \in Nat
        BY QueuedType, AppendProperties
      <4> QED BY <4>1, <4>2
    <3>3. /\ staged => Zero
          /\ ~staged /\ scan = "range" => Ordered /\ LastQueued' = currentCommit.hash
      BY <1>0, <2>3, <3>1, <3>2, GrowsInOrder DEF Zero, Ordered
    <3>4. ~staged /\ scan = "range" => Follows
      BY <2>2, <2>6, <3>3 DEF Follows
    <3> QED BY <3>3, <3>4
  <2> QED BY <2>5, <2>6
<1>5. CASE Send
  <2>1. Queued' = Queued /\ currentCommit' = currentCommit /\ parser' = parser
    BY <1>5, SendQueued DEF Send
  <2> QED BY <1>2, <1>3, <2>1 DEF Follows
<1>6. CASE StopReading
  <2>1. Queued' = Queued /\ currentCommit' = currentCommit /\ parser = "loop"
    BY <1>6 DEF StopReading, Queued
  <2> QED BY <1>2, <1>3, <2>1 DEF Follows
<1>7. CASE cleanupParse
  <2> DEFINE d == [currentDiff EXCEPT !.commit = currentCommit.hash]
             q == IF HasText(currentDiff) THEN <<d>> ELSE <<>>
  <2>1. d \in Diff /\ d.commit = currentCommit.hash
    BY DEF ParseInv, ParseTypes, Diff
  <2>2. pending' = q /\ pending = <<>> /\ diffChan' = diffChan /\ parser = "cleanup" /\ parser' = "closing"
    BY <1>7 DEF cleanupParse, Sending
  <2> HIDE DEF d
  <2>3. SendsFor(q, currentCommit.hash)
    BY <2>1 DEF SendsFor
  <2> HIDE DEF q
  <2>4. /\ q = <<>> => Queued' = Queued
        /\ q # <<>> => \E e \in Diff : e.commit = currentCommit.hash /\ Queued' = Append(Queued, e)
    BY <2>2, <2>3, QueueGrows
  <2>5. (staged => Zero) /\ (~staged /\ scan = "range" => Ordered)
    BY <1>0, <2>2, <2>4, GrowsInOrder DEF Zero, Ordered
  <2> QED BY <2>2, <2>5
<1>8. CASE CloseChannel
  <2>1. Queued' = Queued /\ parser' = "done"
    BY <1>8 DEF CloseChannel, Queued
  <2> QED BY <1>2, <2>1
<1> QED BY <1>4, <1>5, <1>6, <1>7, <1>8 DEF Parse

LEMMA TakeQueued ==
  ASSUME ParseInv, Take
  PROVE  /\ Queued # <<>> /\ Head(Queued) = Head(diffChan) /\ Queued' = Tail(Queued)
         /\ Head(diffChan) \in Diff
<1>1. /\ diffChan \in Seq(Diff) /\ pending \in Seq(Diff) /\ diffChan # <<>>
      /\ diffChan' = Tail(diffChan) /\ pending' = pending
  BY DEF Take, parserVars, ParseInv, ParseTypes
<1> DEFINE h == Head(diffChan)
           t == Tail(diffChan)
<1>2. h \in Diff /\ t \in Seq(Diff) /\ diffChan = <<h>> \o t
  BY <1>1, HeadTailProperties
<1>3. <<h>> \in Seq(Diff) /\ Len(<<h>>) = 1
  BY <1>2
<1> HIDE DEF h, t
<1>4. Queued = <<h>> \o (t \o pending)
  BY <1>1, <1>2, <1>3, ConcatAssociative DEF Queued
<1>5. t \o pending \in Seq(Diff)
  BY <1>1, <1>2, ConcatProperties
<1>6. Head(Queued) = h /\ Tail(Queued) = t \o pending /\ Queued # <<>>
  <2> DEFINE r == t \o pending
  <2>1. r \in Seq(Diff) /\ Queued = <<h>> \o r
    BY <1>4, <1>5
  <2> HIDE DEF r
  <2>2. Len(Queued) = 1 + Len(r) /\ Len(r) \in Nat /\ Queued \in Seq(Diff)
    BY <1>2, <1>3, <2>1
  <2>3. Queued # <<>>
    BY <2>2
  <2>4. Head(Queued) = h /\ Tail(Queued) = r
    BY <1>2, <2>1
  <2> QED BY <2>3, <2>4 DEF r
<1> QED BY <1>1, <1>2, <1>6 DEF Queued, h, t

LEMMA ScanKeepsStop ==
  ASSUME ParseInv, StopInv, ScanLoop
  PROVE  StopInv'
<1>0. /\ ScanTypes /\ StopsWhereAsked /\ (staged => StagedInv) /\ (~staged => LogInv)
      /\ maxDepth \in Nat /\ base \in Nat /\ staged \in BOOLEAN
      /\ depth \in Nat /\ lastCommitHash \in Nat /\ lastCommitHash \in 0..MaxCommits
      /\ stop \in {"none", "end", "depth", "base", "error"} /\ stopAt \in 0..MaxCommits
      /\ reachedBase \in BOOLEAN /\ <<maxDepth, base>> \in Options
      /\ scan = "range" => stop = "none"
  BY ScanAssumption DEF StopInv, ScanTypes, ParseInv, ParseTypes
<1> DEFINE d == Head(diffChan)
<1>1. ASSUME Take
      PROVE  /\ d \in Diff /\ d.commit \in 0..MaxCommits /\ d.commit \in Nat /\ scan = "range"
             /\ UNCHANGED <<staged, parser, currentCommit, maxDepth, base>>
             /\ staged => d.commit = 0 /\ \A i \in 1..Len(Queued') : Queued'[i].commit = 0
             /\ ~staged => /\ d.commit \in {lastCommitHash, lastCommitHash + 1}
                           /\ Stepwise(d.commit, Queued')
                           /\ LastOf(d.commit, Queued') = LastQueued
  <2>1. /\ Queued # <<>> /\ Head(Queued) = d /\ Queued' = Tail(Queued) /\ d \in Diff
        /\ scan = "range" /\ UNCHANGED <<staged, parser, currentCommit, maxDepth, base>>
    BY <1>1, TakeQueued DEF Take, parserVars
  <2> HIDE DEF d
  <2>2. Queued \in Seq(Diff) /\ d.commit \in 0..MaxCommits /\ d.commit \in Nat
    BY <2>1, QueuedType DEF Diff
  <2>3. staged => d.commit = 0 /\ \A i \in 1..Len(Queued') : Queued'[i].commit = 0
    <3>1. /\ Len(Tail(Queued)) = Len(Queued) - 1 /\ Len(Queued) \in Nat /\ Len(Queued) > 0
          /\ Head(Queued) = Queued[1] /\ \A i \in 1..Len(Tail(Queued)) : Tail(Queued)[i] = Queued[i + 1]
      BY <2>1, <2>2, HeadTailProperties, EmptySeq
    <3>2. 1 \in 1..Len(Queued) /\ \A i \in 1..Len(Tail(Queued)) : i + 1 \in 1..Len(Queued)
      BY <3>1
    <3> QED BY <1>0, <2>1, <3>1, <3>2 DEF StagedInv
  <2>4. ~staged => Stepwise(lastCommitHash, Queued)
    BY <1>0, <2>1 DEF LogInv
  <2> QED BY <2>1, <2>2, <2>3, <2>4, StepTaken DEF LastQueued
<1> HIDE DEF d
<1>2. CASE BreakLoop
  <2>1. Take /\ scan' = "done" /\ stopAt' = d.commit /\ reachedBase' = reachedBase
    BY <1>2 DEF BreakLoop, Stop, d
  <2>2. /\ d.commit \in 0..MaxCommits /\ d.commit \in Nat /\ UNCHANGED <<staged, maxDepth, base>>
        /\ scan = "range"
        /\ staged => d.commit = 0 /\ \A i \in 1..Len(Queued') : Queued'[i].commit = 0
        /\ ~staged => d.commit \in {lastCommitHash, lastCommitHash + 1}
    BY <1>1, <2>1
  <2>3. CASE AtDepthLimit /\ stop' = "depth" /\ UNCHANGED <<depth, lastCommitHash>>
    <3>1. ~staged
      BY <1>0, <2>3 DEF AtDepthLimit, StagedInv
    <3>2. depth = maxDepth /\ depth = lastCommitHash
      BY <1>0, <2>3, <3>1 DEF AtDepthLimit, StopsWhereAsked, LogInv
    <3>3. StopsWhereAsked'
      BY <1>0, <2>1, <2>2, <2>3, <3>1, <3>2 DEF StopsWhereAsked
    <3>4. ScanTypes' /\ LogInv'
      BY <1>0, <2>1, <2>2, <2>3, <3>2 DEF ScanTypes, LogInv
    <3> QED BY <2>2, <3>1, <3>3, <3>4 DEF StopInv
  <2>4. CASE /\ ~AtDepthLimit /\ AtBase(d) /\ stop' = "base"
             /\ depth' = (IF staged /\ d.commit # lastCommitHash THEN depth + 1 ELSE depth)
             /\ lastCommitHash' = IF staged THEN d.commit ELSE lastCommitHash
    <3>1. ~staged
      BY <1>0, <2>4 DEF AtBase, StagedInv
    <3>2. depth = lastCommitHash /\ base # 0 /\ d.commit = base /\ lastCommitHash # base
      BY <1>0, <2>2, <2>4, <3>1 DEF AtBase, LogInv
    <3>3. lastCommitHash = base - 1 /\ UNCHANGED <<depth, lastCommitHash>>
      BY <1>0, <2>2, <2>4, <3>1, <3>2
    <3>4. StopsWhereAsked'
      BY <1>0, <2>1, <2>2, <2>4, <3>1, <3>2, <3>3 DEF StopsWhereAsked
    <3>5. ScanTypes' /\ LogInv'
      BY <1>0, <2>1, <2>2, <2>4, <3>2, <3>3 DEF ScanTypes, LogInv
    <3> QED BY <2>2, <3>1, <3>4, <3>5 DEF StopInv
  <2> QED BY <1>2, <2>3, <2>4 DEF BreakLoop, Stop, d
<1>3. CASE ScanDiff
  <2>1. /\ Take /\ ~AtDepthLimit /\ ~AtBase(d)
        /\ depth' = (IF d.commit # lastCommitHash THEN depth + 1 ELSE depth)
        /\ lastCommitHash' = d.commit
        /\ reachedBase' = (reachedBase \/ (staged /\ base # 0 /\ d.commit = base))
        /\ \/ UNCHANGED <<scan, stop, stopAt>>
           \/ scan' = "done" /\ stop' = "error" /\ stopAt' = d.commit
    BY <1>3 DEF ScanDiff, Stop, d
  <2>2. /\ d.commit \in 0..MaxCommits /\ d.commit \in Nat /\ scan = "range"
        /\ UNCHANGED <<staged, parser, currentCommit, maxDepth, base>>
        /\ staged => d.commit = 0 /\ \A i \in 1..Len(Queued') : Queued'[i].commit = 0
        /\ ~staged => /\ d.commit \in {lastCommitHash, lastCommitHash + 1}
                      /\ Stepwise(d.commit, Queued')
                      /\ LastOf(d.commit, Queued') = LastQueued
    BY <1>1, <2>1
  <2>3. depth' \in Nat /\ (maxDepth > 0 => depth' <= maxDepth)
    BY <1>0, <2>1 DEF AtDepthLimit
  <2>4. reachedBase' \in BOOLEAN
    BY <2>1
  <2>5. ScanTypes'
    BY <1>0, <2>1, <2>2, <2>3, <2>4 DEF ScanTypes
  <2>6. CASE staged
    <3>1. depth' = 0 /\ lastCommitHash' = 0 /\ ~reachedBase'
      BY <1>0, <2>1, <2>2, <2>6 DEF StagedInv
    <3>2. StagedInv'
      BY <2>2, <2>6, <3>1 DEF StagedInv
    <3>3. StopsWhereAsked'
      BY <1>0, <2>1, <2>2, <2>3, <2>6 DEF StopsWhereAsked
    <3> QED BY <2>2, <2>5, <2>6, <3>2, <3>3 DEF StopInv
  <2>7. CASE ~staged
    <3>1. depth' = d.commit /\ lastCommitHash' = d.commit /\ (base # 0 => d.commit # base)
      BY <1>0, <2>1, <2>2, <2>7 DEF LogInv, AtBase
    <3>2. LastQueued' = LastQueued
      BY <2>2, <2>7, <3>1 DEF LastQueued, LastOf
    <3>3. Stepwise(lastCommitHash', Queued')
      BY <2>2, <2>7, <3>1
    <3>4. parser \in {"loop", "cleanup"} => /\ currentCommit.hash \in {LastQueued, LastQueued + 1}
                                            /\ currentCommit.hasDiffs => currentCommit.hash = LastQueued
      BY <1>0, <2>2, <2>7 DEF LogInv
    <3>5. LogInv'
      BY <2>2, <3>1, <3>2, <3>3, <3>4 DEF LogInv
    <3>6. StopsWhereAsked'
      BY <1>0, <2>1, <2>2, <2>3, <2>7, <3>1 DEF StopsWhereAsked
    <3> QED BY <2>2, <2>5, <2>7, <3>5, <3>6 DEF StopInv
  <2> QED BY <1>0, <2>6, <2>7
<1>4. CASE RangeEnds
  <2>1. /\ scan' = "done" /\ stop' = "end" /\ Queued' = Queued
        /\ UNCHANGED <<staged, maxDepth, base, depth, lastCommitHash, reachedBase, stopAt>>
    BY <1>4 DEF RangeEnds, parseVars, parserVars, Queued
  <2>2. ScanTypes' /\ StopsWhereAsked'
    BY <1>0, <2>1 DEF ScanTypes, StopsWhereAsked
  <2>3. (staged => StagedInv') /\ (~staged => LogInv')
    BY <1>0, <2>1 DEF StagedInv, LogInv
  <2> QED BY <2>1, <2>2, <2>3 DEF StopInv
<1> QED BY <1>2, <1>3, <1>4 DEF ScanLoop

(***************************************************************************)
(* With a depth limit the scan has met exactly the commits before it stops *)
(* and not one more; with a base it stops there with every newer commit    *)
(* behind it; staged changes have no depth: for any log and any options.   *)
(***************************************************************************)
THEOREM ScanStopsRight == Spec => []StopsWhereAsked
<1>1. Init => StopInv
  <2> SUFFICES ASSUME Init PROVE StopInv
    OBVIOUS
  <2>1. ScanTypes
    <3>1. PICK o \in Options : maxDepth = o[1] /\ base = o[2]
      BY DEF Init, ScanInit
    <3>2. o = <<maxDepth, base>> /\ maxDepth \in Nat /\ base \in Nat
      BY <3>1, ScanAssumption
    <3>3. 0 \in 0..MaxCommits
      BY GitAssumption
    <3>4. depth = 0 /\ lastCommitHash = 0 /\ reachedBase = FALSE /\ stop = "none" /\ stopAt = 0 /\ scan = "range"
      BY DEF Init, ScanInit
    <3> QED BY <3>1, <3>2, <3>3, <3>4 DEF ScanTypes
  <2>2. Queued = <<>> /\ Len(Queued) = 0
    BY DEF Init, ParseInit, Queued
  <2>3. StopsWhereAsked
    BY <2>1, ScanAssumption DEF Init, ScanInit, StopsWhereAsked, ScanTypes
  <2>4. StagedInv
    BY <2>2 DEF Init, ScanInit, StagedInv
  <2>5. LogInv
    BY <2>2 DEF Init, ScanInit, ParseInit, LogInv, Stepwise, LastQueued, LastOf, NoCommit
  <2> QED BY <2>1, <2>3, <2>4, <2>5 DEF StopInv
<1>2. ParseInv /\ StopInv /\ [Next]_vars => StopInv'
  <2> SUFFICES ASSUME ParseInv, StopInv, [Next]_vars PROVE StopInv'
    OBVIOUS
  <2>1. CASE Parse /\ UNCHANGED scanVars
    BY <2>1, ParserKeepsStop
  <2>2. CASE ScanLoop
    BY <2>2, ScanKeepsStop
  <2>3. CASE (Cancel /\ UNCHANGED scanVars) \/ UNCHANGED vars
    <3>1. UNCHANGED <<staged, parser, currentCommit, diffChan, pending, maxDepth, base, scan, depth,
                      lastCommitHash, reachedBase, stop, stopAt>>
      BY <2>3 DEF Cancel, vars, parseVars, parserVars, scanVars
    <3>2. Queued' = Queued /\ LastQueued' = LastQueued
      BY <3>1 DEF Queued, LastQueued, LastOf
    <3>3. Stepwise(lastCommitHash', Queued') <=> Stepwise(lastCommitHash, Queued)
      BY <3>1, <3>2
    <3> QED BY <3>1, <3>2, <3>3 DEF StopInv, ScanTypes, StopsWhereAsked, StagedInv, LogInv
  <2> QED BY <2>1, <2>2, <2>3 DEF Next
<1>3. StopInv => StopsWhereAsked
  BY DEF StopInv
<1> QED BY <1>1, <1>2, <1>3, ParseInvariant, PTL DEF Spec

----------------------------------------------------------------------------
(* The diffs that have something to scan.                                  *)

\* WithText goes through the diffs one by one.
LEMMA WithTextSteps ==
  ASSUME NEW q \in Seq(Diff)
  PROVE  \E g \in [SUBSET (1..Len(q)) -> Seq(Diff)] :
            /\ g[1..0] = <<>> /\ g[1..Len(q)] = WithText(q)
            /\ \A i \in 1..Len(q) : g[1..i] = KeepText(g[1..(i - 1)], q[i])
            /\ \A i \in 0..Len(q) : g[1..i] \in Seq(Diff)
<1> DEFINE A == Seq(Diff)
           n == Len(q)
           F == [p \in A \X Diff |-> KeepText(p[1], p[2])]
           Made(g) == g = [s \in SUBSET (1..n) |->
                             IF s = {} THEN <<>>
                             ELSE KeepText(g[s \ {Max(s)}], q[Max(s)])]
<1>1. n \in Nat /\ DOMAIN q = 1..n /\ <<>> \in A
  OBVIOUS
<1>2. \A a \in A, d \in Diff : KeepText(a, d) \in A /\ F[<<a, d>>] = KeepText(a, d)
  <2>1. ASSUME NEW a \in A, NEW d \in Diff PROVE KeepText(a, d) \in A
    <3>1. Append(a, d) \in A
      OBVIOUS
    <3> QED BY <3>1 DEF KeepText
  <2> QED BY <2>1
<1>3. F \in [A \X Diff -> A]
  BY <1>2
<1> HIDE DEF A, F
<1>4. PICK g \in [SUBSET (1..n) -> A] : Traces(g, F, <<>>, q)
  BY <1>1, <1>3, FoldSteps
<1>5. ASSUME NEW s \in SUBSET (1..n), s # {}
      PROVE  g[s] = KeepText(g[s \ {Max(s)}], q[Max(s)])
  <2>1. g[s] = F[<<g[s \ {Max(s)}], q[Max(s)]>>] /\ s \ {Max(s)} \in SUBSET (1..n) /\ Max(s) \in 1..n
    BY <1>1, <1>4, <1>5 DEF Traces
  <2>2. g[s \ {Max(s)}] \in A /\ q[Max(s)] \in Diff
    BY <2>1
  <2> QED BY <1>2, <2>1, <2>2
<1>6. g[{}] = <<>>
  BY <1>4 DEF Traces
<1>7. Made(g)
  BY <1>5, <1>6
<1> DEFINE made == CHOOSE k : Made(k)
<1>8. WithText(q) = made[1..n]
  BY <1>1 DEF WithText, FoldLeft, MapThenFoldSet
<1>9. Made(made)
  <2> HIDE DEF Made
  <2> QED BY <1>7
<1>10. made[1..n] = g[1..n]
  <2> HIDE DEF n, made
  <2>1. made[{}] = <<>> /\ \A s \in SUBSET (1..n) : s # {} => made[s] = KeepText(made[s \ {Max(s)}], q[Max(s)])
    BY <1>9
  <2> HIDE DEF Made
  <2>2. \A s \in SUBSET (1..n) : s # {} /\ made[s \ {Max(s)}] = g[s \ {Max(s)}] => made[s] = g[s]
    BY <1>5, <2>1
  <2> QED BY <1>1, <1>6, <2>1, <2>2, FoldSame
<1> HIDE DEF made, Made
<1>11. g[1..0] = <<>> /\ \A i \in 0..n : 1..i \in SUBSET (1..n) /\ g[1..i] \in A
  BY <1>4 DEF Traces
<1>12. ASSUME NEW i \in 1..n PROVE g[1..i] = KeepText(g[1..(i - 1)], q[i])
  <2>1. g[1..i] = F[<<g[1..(i - 1)], q[i]>>] /\ i - 1 \in 0..n
    BY <1>1, <1>4 DEF Traces
  <2>2. g[1..(i - 1)] \in A /\ q[i] \in Diff
    BY <1>11, <2>1
  <2> QED BY <1>2, <2>1, <2>2
<1> QED BY <1>8, <1>10, <1>11, <1>12 DEF n, A

LEMMA WithTextType ==
  ASSUME NEW q \in Seq(Diff)
  PROVE  WithText(q) \in Seq(Diff)
<1>1. PICK g \in [SUBSET (1..Len(q)) -> Seq(Diff)] : g[1..Len(q)] = WithText(q)
  BY WithTextSteps
<1> QED BY <1>1

LEMMA WithTextNone == WithText(<<>>) = <<>>
<1>1. <<>> \in Seq(Diff) /\ Len(<<>>) = 0
  OBVIOUS
<1>2. PICK g \in [SUBSET (1..Len(<<>>)) -> Seq(Diff)] : g[1..0] = <<>> /\ g[1..Len(<<>>)] = WithText(<<>>)
  BY <1>1, WithTextSteps
<1> QED BY <1>1, <1>2

LEMMA WithTextAppend ==
  ASSUME NEW q \in Seq(Diff), NEW d \in Diff
  PROVE  WithText(Append(q, d)) = KeepText(WithText(q), d)
<1> DEFINE n == Len(q)
           r == Append(q, d)
<1>1. /\ n \in Nat /\ r \in Seq(Diff) /\ Len(r) = n + 1 /\ r[n + 1] = d
      /\ \A i \in 1..n : r[i] = q[i]
  OBVIOUS
<1>2. PICK g \in [SUBSET (1..n) -> Seq(Diff)] :
         /\ g[1..0] = <<>> /\ g[1..n] = WithText(q)
         /\ \A i \in 1..n : g[1..i] = KeepText(g[1..(i - 1)], q[i])
  BY WithTextSteps
<1> HIDE DEF r
<1>3. PICK h \in [SUBSET (1..Len(r)) -> Seq(Diff)] :
         /\ h[1..0] = <<>> /\ h[1..Len(r)] = WithText(r)
         /\ \A i \in 1..Len(r) : h[1..i] = KeepText(h[1..(i - 1)], r[i])
  BY <1>1, WithTextSteps
<1> HIDE DEF n
<1> DEFINE G == {i \in 0..n : h[1..i] = g[1..i]}
<1>4. 0 \in G /\ \A i \in 1..n : i - 1 \in G => i \in G
  <2>1. ASSUME NEW i \in 1..n, i - 1 \in G PROVE i \in G
    <3>1. i \in 1..Len(r) /\ r[i] = q[i] /\ i \in 0..n
      BY <1>1
    <3> QED BY <1>2, <1>3, <2>1, <3>1
  <2>2. 0 \in 0..n
    BY <1>1
  <2> QED BY <1>2, <1>3, <2>1, <2>2
<1>5. n \in G
  <2> HIDE DEF G
  <2>1. \A i \in 0..n : i \in G
    BY <1>1, <1>4, UpTo
  <2> QED BY <1>1, <2>1
<1>6. n + 1 \in 1..Len(r) /\ (n + 1) - 1 = n
  BY <1>1
<1>7. h[1..(n + 1)] = KeepText(h[1..n], d)
  BY <1>1, <1>3, <1>6
<1> QED BY <1>1, <1>2, <1>3, <1>5, <1>7 DEF r, n

Both(p, q) == p \o q
More(q, e) == Append(q, e)

\* An element after the second of two sequences is after both together.
LEMMA MoreOfBoth ==
  ASSUME NEW T, NEW p \in Seq(T), NEW w \in Seq(T), NEW d \in T
  PROVE  More(Both(p, w), d) = Both(p, More(w, d))
<1> DEFINE one == <<d>>
           u == p \o w
           v == Append(w, d)
<1>1. one \in Seq(T) /\ u \in Seq(T)
  BY ConcatProperties
<1>2. Append(u, d) = u \o one /\ v = w \o one
  BY <1>1, AppendIsConcat
<1> HIDE DEF one, v
<1>3. u \o one = p \o (w \o one)
  BY <1>1, ConcatAssociative
<1> HIDE DEF u
<1>4. Append(u, d) = p \o v
  BY <1>2, <1>3
<1> QED BY <1>4 DEF More, Both, u, v

LEMMA KeepTextConcat ==
  ASSUME NEW p \in Seq(Diff), NEW w \in Seq(Diff), NEW d \in Diff
  PROVE  KeepText(p \o w, d) = p \o KeepText(w, d)
<1>1. \A q : KeepText(q, d) = IF HasText(d) THEN More(q, d) ELSE q
  BY DEF KeepText, More
<1>2. KeepText(Both(p, w), d) = Both(p, KeepText(w, d))
  BY <1>1, MoreOfBoth
<1> QED BY <1>2 DEF Both

\* One diff, if it has something to scan.
Shown(d) == IF HasText(d) THEN <<d>> ELSE <<>>

LEMMA ShownIs ==
  ASSUME NEW d \in Diff
  PROVE  Shown(d) \in Seq(Diff) /\ WithText(<<d>>) = Shown(d) /\ WithText(Shown(d)) = Shown(d)
<1>1. <<>> \in Seq(Diff) /\ <<d>> \in Seq(Diff) /\ Append(<<>>, d) = <<d>>
  OBVIOUS
<1>2. WithText(<<d>>) = KeepText(WithText(<<>>), d)
  BY <1>1, WithTextAppend
<1>3. WithText(<<d>>) = Shown(d)
  BY <1>1, <1>2, WithTextNone DEF KeepText, Shown
<1> QED BY <1>1, <1>3, WithTextNone DEF Shown

\* What has text in two parts is what has text in each.
LEMMA WithTextConcat ==
  ASSUME NEW p \in Seq(Diff), NEW q \in Seq(Diff)
  PROVE  WithText(p \o q) = WithText(p) \o WithText(q)
<1> DEFINE n == Len(q)
           first(i) == SubSeq(q, 1, i)
           G == {i \in 0..n : WithText(p \o first(i)) = WithText(p) \o WithText(first(i))}
<1>1. n \in Nat /\ WithText(p) \in Seq(Diff)
  BY WithTextType
<1>2. ASSUME NEW i \in 0..n PROVE first(i) \in Seq(Diff) /\ WithText(first(i)) \in Seq(Diff)
  <2>1. \A j \in 1..i : q[j] \in Diff
    BY <1>1
  <2>2. first(i) \in Seq(Diff)
    BY <1>1, <2>1, SubSeqProperties
  <2> QED BY <2>2, WithTextType
<1>3. 0 \in G
  <2>1. first(0) = <<>>
    BY SubSeqEmpty
  <2>2. p \o <<>> = p /\ WithText(p) \o <<>> = WithText(p) /\ 0 \in 0..n
    BY <1>1, ConcatEmptySeq
  <2> QED BY <2>1, <2>2, WithTextNone
<1>4. ASSUME NEW i \in 1..n, i - 1 \in G PROVE i \in G
  <2> DEFINE r == first(i - 1)
             d == q[i]
             w == WithText(r)
  <2>1. i \in 0..n /\ i - 1 \in 0..n /\ d \in Diff /\ i \in 1..Len(q) /\ 1 \in 1..Len(q) /\ i \in 1..Len(q)
    BY <1>1
  <2>2. r \in Seq(Diff) /\ w \in Seq(Diff) /\ <<d>> \in Seq(Diff)
    BY <1>2, <2>1
  <2>3. first(i) = r \o <<d>>
    BY <2>1, SubSeqRecursiveSecond
  <2>4. WithText(p \o r) = WithText(p) \o w
    BY <1>4
  <2> HIDE DEF first, d, w, G
  <2>5. first(i) = Append(r, d) /\ p \o first(i) = Append(p \o r, d) /\ p \o r \in Seq(Diff)
    <3>1. Both(r, <<d>>) = More(r, d)
      BY <2>1, <2>2, AppendIsConcat DEF Both, More
    <3>2. Both(p, More(r, d)) = More(Both(p, r), d)
      BY <2>1, <2>2, MoreOfBoth
    <3>3. Both(p, r) \in Seq(Diff)
      BY <2>2, ConcatProperties DEF Both
    <3> QED BY <2>3, <3>1, <3>2, <3>3 DEF Both, More
  <2> HIDE DEF r
  <2>6. /\ WithText(first(i)) = KeepText(w, d)
        /\ WithText(p \o first(i)) = KeepText(WithText(p) \o w, d)
    BY <2>1, <2>2, <2>4, <2>5, WithTextAppend DEF w
  <2>7. KeepText(WithText(p) \o w, d) = WithText(p) \o KeepText(w, d)
    BY <1>1, <2>1, <2>2, KeepTextConcat
  <2> QED BY <2>1, <2>6, <2>7 DEF G
<1>5. n \in G /\ n \in 0..n
  <2> HIDE DEF G, n
  <2>1. \A i \in 0..n : i \in G
    BY <1>1, <1>3, <1>4, UpTo
  <2> QED BY <1>1, <2>1
<1>6. first(n) = q
  BY SubSeqFull
<1> QED BY <1>5, <1>6

----------------------------------------------------------------------------
(* The diffs on their way are what is owed.                                *)

\* The diffs queued, then the one being built.
LEMMA OnTheWayIs ==
  ASSUME NEW p \in Seq(Diff), NEW q \in Seq(Diff), NEW d \in Diff
  PROVE  /\ WithText((p \o q) \o Shown(d)) = (WithText(p) \o WithText(q)) \o Shown(d)
         /\ WithText(p) \in Seq(Diff) /\ WithText(q) \in Seq(Diff) /\ Shown(d) \in Seq(Diff)
         /\ WithText(p) \o WithText(q) \in Seq(Diff)
<1>1. p \o q \in Seq(Diff) /\ Shown(d) \in Seq(Diff) /\ WithText(Shown(d)) = Shown(d)
  BY ShownIs, ConcatProperties
<1>2. WithText(p) \in Seq(Diff) /\ WithText(q) \in Seq(Diff)
  BY WithTextType
<1>3. WithText(p) \o WithText(q) \in Seq(Diff)
  BY <1>2, ConcatProperties
<1>4. WithText(p \o q) = WithText(p) \o WithText(q)
  BY WithTextConcat
<1> DEFINE r == p \o q
<1> HIDE DEF r
<1>5. WithText(r \o Shown(d)) = WithText(r) \o WithText(Shown(d))
  BY <1>1, WithTextConcat DEF r
<1> QED BY <1>1, <1>2, <1>3, <1>4, <1>5 DEF r

\* What is on the way is what the channel holds, what is still to be sent and what is being built.
LEMMA InThreeParts ==
  ASSUME ParseInv
  PROVE  /\ OnTheWay = (WithText(diffChan) \o WithText(pending)) \o Shown(currentDiff)
         /\ WithText(diffChan) \in Seq(Diff) /\ WithText(pending) \in Seq(Diff)
         /\ Shown(currentDiff) \in Seq(Diff) /\ Current = Shown(currentDiff)
<1>1. diffChan \in Seq(Diff) /\ pending \in Seq(Diff) /\ currentDiff \in Diff
  BY DEF ParseInv, ParseTypes
<1>2. Current = Shown(currentDiff)
  BY DEF Current, Shown
<1>3. OnTheWay = WithText((diffChan \o pending) \o Shown(currentDiff))
  BY <1>2 DEF OnTheWay
<1> QED BY <1>1, <1>2, <1>3, OnTheWayIs

LEMMA InThreePartsNext ==
  ASSUME ParseInv'
  PROVE  /\ OnTheWay' = (WithText(diffChan') \o WithText(pending')) \o Shown(currentDiff')
         /\ WithText(diffChan') \in Seq(Diff) /\ WithText(pending') \in Seq(Diff)
         /\ Shown(currentDiff') \in Seq(Diff)
<1>1. diffChan' \in Seq(Diff) /\ pending' \in Seq(Diff) /\ currentDiff' \in Diff
  BY DEF ParseInv, ParseTypes
<1>2. Current' = Shown(currentDiff')
  BY DEF Current, Shown, HasText
<1>3. OnTheWay' = WithText((diffChan' \o pending') \o Shown(currentDiff'))
  BY <1>2 DEF OnTheWay, WithText
<1> QED BY <1>1, <1>2, <1>3, OnTheWayIs

\* A line moves what is being built into what is sent, and adds what is owed for it to either.
LEMMA ReadingMoves ==
  ASSUME NEW l, Reading(l), ParseInv', owed' = OwedAfter(l), DiffsAsLogged,
         WithText(pending') \o Shown(currentDiff') = Shown(currentDiff), owed' = owed
  PROVE  DiffsAsLogged'
<1> DEFINE W == WithText(diffChan)
           S == WithText(pending')
           C == Shown(currentDiff')
<1>1. pending = <<>> /\ diffChan' = diffChan /\ ParseInv
  BY DEF Reading
<1>2. owed = (W \o WithText(<<>>)) \o Shown(currentDiff) /\ W \in Seq(Diff)
  BY <1>1, InThreeParts DEF DiffsAsLogged
<1>3. W \o WithText(<<>>) = W
  BY <1>2, WithTextNone, ConcatEmptySeq
<1>4. OnTheWay' = (W \o S) \o C /\ S \in Seq(Diff) /\ C \in Seq(Diff)
  BY <1>1, InThreePartsNext
<1> HIDE DEF W, S, C
<1>5. (W \o S) \o C = W \o (S \o C)
  BY <1>2, <1>4, ConcatAssociative
<1>6. S \o C = Shown(currentDiff)
  BY DEF S, C
<1> QED BY <1>2, <1>3, <1>4, <1>5, <1>6 DEF DiffsAsLogged

\* A line more of a diff, and of the last of several.
LineMore(d, length) == [d EXCEPT !.text = Append(@, length)]
LastLineMore(q, length) == [q EXCEPT ![Len(q)].text = Append(@, length)]
Follows(all, first, rest) == all = first \o rest

Replaced(q, i, d) == [q EXCEPT ![i] = d]
LEMMA ReplacedIs ==
  ASSUME NEW q \in Seq(Diff), NEW i \in 1..Len(q), NEW d \in Diff
  PROVE  /\ Replaced(q, i, d) \in Seq(Diff) /\ Len(Replaced(q, i, d)) = Len(q)
         /\ Replaced(q, i, d)[i] = d /\ \A j \in 1..Len(q) : j # i => Replaced(q, i, d)[j] = q[j]
BY ExceptSeq DEF Replaced

\* A line of text is owed after the rest of its hunk, or with the first of them as a diff.
LEMMA OwedText ==
  ASSUME NEW W \in Seq(Diff), NEW d \in Diff, NEW e \in Diff, NEW length \in Nat,
         NEW o, Follows(o, W, Shown(d)), e = LineMore(d, length), ~d.binary
  PROVE  /\ d.text # <<>> => Follows(LastLineMore(o, length), W, Shown(e))
         /\ d.text = <<>> => Follows(More(o, e), W, Shown(e)) /\ e.text = <<length>>
<1>0. e = [d EXCEPT !.text = Append(@, length)]
  BY DEF LineMore
<1>1. d.text \in Seq(Nat) /\ e.text = Append(d.text, length)
  BY <1>0 DEF Diff
<1>2. e.text # <<>>
  <2> DEFINE t == d.text
  <2>1. t \in Seq(Nat)
    BY <1>1
  <2> HIDE DEF t
  <2>2. Append(t, length) # <<>>
    <3> DEFINE more == Append(t, length)
    <3>1. Len(more) = Len(t) + 1 /\ Len(t) \in Nat
      BY <2>1
    <3> HIDE DEF more
    <3>2. more # <<>>
      BY <3>1
    <3> QED BY <3>2 DEF more
  <2> QED BY <1>1, <2>2 DEF t
<1>3. Shown(e) = <<e>>
  BY <1>2 DEF Shown, HasText
<1>4. CASE d.text # <<>>
  <2>1. Shown(d) = <<d>>
    BY <1>4 DEF Shown, HasText
  <2> DEFINE n == Len(W) + 1
             z == W \o <<e>>
  <2>2. /\ o \in Seq(Diff) /\ Len(o) = n /\ n \in Nat /\ o[n] = d
        /\ \A j \in 1..Len(W) : o[j] = W[j]
    BY <2>1 DEF Follows
  <2>3. /\ z \in Seq(Diff) /\ Len(z) = n /\ z[n] = e /\ \A j \in 1..Len(W) : z[j] = W[j]
    <3>1. z = Append(W, e)
      BY AppendIsConcat
    <3> HIDE DEF z
    <3> QED BY <3>1, AppendProperties
  <2>4. LastLineMore(o, length) = Replaced(o, n, e)
    BY <1>0, <2>2 DEF LastLineMore, Replaced
  <2> DEFINE r == Replaced(o, n, e)
  <2>5. Len(W) \in Nat /\ n \in 1..Len(o) /\ \A j \in 1..Len(W) : j \in 1..Len(o) /\ j # n
    BY <2>2
  <2>6. \A j \in 1..n : j \in 1..Len(W) \/ j = n
    OBVIOUS
  <2> HIDE DEF n, r, z
  <2>9. r \in Seq(Diff) /\ Len(r) = Len(o) /\ r[n] = e /\ \A j \in 1..Len(o) : j # n => r[j] = o[j]
    <3>1. o \in Seq(Diff) /\ n \in 1..Len(o)
      BY <2>2, <2>5
    <3>2. Replaced(o, n, e) \in Seq(Diff)
      BY <3>1, ReplacedIs
    <3>3. Len(Replaced(o, n, e)) = Len(o)
      BY <3>1, ReplacedIs
    <3>4. Replaced(o, n, e)[n] = e
      BY <3>1, ReplacedIs
    <3>5. \A j \in 1..Len(o) : j # n => Replaced(o, n, e)[j] = o[j]
      BY <3>1, ReplacedIs
    <3> QED BY <3>2, <3>3, <3>4, <3>5 DEF r
  <2>10. Len(r) = n /\ r[n] = e /\ \A j \in 1..Len(W) : r[j] = W[j]
    BY <2>2, <2>5, <2>9
  <2>7. \A j \in 1..n : r[j] = z[j]
    BY <2>3, <2>6, <2>10
  <2>8. r = z
    BY <2>2, <2>3, <2>7, <2>9, <2>10, SeqEqual
  <2> QED BY <1>3, <1>4, <2>4, <2>8 DEF r, z, Follows
<1>5. CASE d.text = <<>>
  <2>1. Shown(d) = <<>>
    BY <1>5 DEF Shown, HasText
  <2>2. o = W
    BY <2>1 DEF Follows
  <2>3. More(o, e) = W \o <<e>>
    BY <2>2, AppendIsConcat DEF More
  <2>4. e.text = <<length>>
    BY <1>1, <1>5
  <2> QED BY <1>3, <1>5, <2>3, <2>4 DEF Follows
<1> QED BY <1>4, <1>5

LEMMA ReadingOwes ==
  ASSUME NEW l, Reading(l), ParseInv', owed' = OwedAfter(l), DiffsAsLogged
  PROVE  DiffsAsLogged'
<1> DEFINE W == WithText(diffChan)
<1>1. /\ Edge(l.t, git.at, l.to) /\ Reads(l) /\ l.n \in Nat
      /\ parser = "loop" /\ pending = <<>> /\ diffChan' = diffChan /\ ParseInv
      /\ ParseTypes /\ currentDiff \in Diff /\ currentDiff' \in Diff
      /\ currentCommit \in [made : BOOLEAN, hash : 0..MaxCommits, hasDiffs : BOOLEAN]
      /\ currentCommit.hash = git.commit /\ currentDiff.commit = git.commit /\ Building
      /\ currentCommit'.hash \in 0..MaxCommits
  BY DEF Reading, Line, ParseInv, BuildInv, ParseTypes
<1>2. owed = W \o Shown(currentDiff) /\ W \in Seq(Diff)
  <2>1. owed = (W \o WithText(<<>>)) \o Shown(currentDiff) /\ W \in Seq(Diff)
    BY <1>1, InThreeParts DEF DiffsAsLogged
  <2> HIDE DEF W
  <2>2. W \o WithText(<<>>) = W
    BY <2>1, WithTextNone, ConcatEmptySeq
  <2> QED BY <2>1, <2>2
<1>3. OnTheWay' = (W \o WithText(pending')) \o Shown(currentDiff')
  BY <1>1, InThreePartsNext
<1>4. ASSUME pending' = <<>> PROVE OnTheWay' = W \o Shown(currentDiff')
  <2> HIDE DEF W
  <2>1. W \o WithText(<<>>) = W
    BY <1>2, WithTextNone, ConcatEmptySeq
  <2> QED BY <1>3, <1>4, <2>1
<1> HIDE DEF W
<1>5. Shown(currentDiff) \in Seq(Diff) /\ WithText(Shown(currentDiff)) = Shown(currentDiff)
      /\ Current = Shown(currentDiff) /\ <<>> \in Seq(Diff)
  BY <1>1, ShownIs DEF Current, Shown
\* The diff that was being built is sent, and an empty one is begun.
<1>6. ASSUME WithText(pending') = Shown(currentDiff), Shown(currentDiff') = <<>>, owed' = owed
      PROVE  DiffsAsLogged'
  <2> DEFINE C == Shown(currentDiff)
  <2>1. C \o <<>> = C
    <3>1. C \in Seq(Diff)
      BY <1>5
    <3> HIDE DEF C
    <3> QED BY <3>1, ConcatEmptySeq
  <2> QED BY <1>6, <2>1, ReadingMoves
<1>7. ASSUME pending' = <<>>, currentDiff' = currentDiff, owed' = owed
      PROVE  DiffsAsLogged'
  BY <1>2, <1>4, <1>7 DEF DiffsAsLogged
<1>8. \A c : Shown(newDiff(c)) = <<>>
  BY DEF Shown, HasText, newDiff
<1>9. CASE l.t = "commit" /\ CommitCase(l)
  <2>1. owed' = owed
    BY <1>1, <1>9 DEF OwedAfter, Edge, BodyText
  <2>2. pending' = Completed /\ Shown(currentDiff') = <<>>
    BY <1>8, <1>9 DEF CommitCase, Sending
  <2>3. WithText(Completed) = Shown(currentDiff)
    <3>1. CASE HasText(currentDiff)
      BY <1>1, <1>5, <3>1, CompletedIs DEF Shown
    <3>2. CASE ~HasText(currentDiff)
      <4>1. Shown(currentDiff) = <<>>
        BY <3>2 DEF Shown
      <4>2. Completed = <<newDiff(currentCommit.hash)>> \/ Completed = <<>>
        BY <1>1, <3>2, CompletedIs
      <4>3. newDiff(currentCommit.hash) \in Diff
        BY <1>1, NewDiff
      <4>4. WithText(<<newDiff(currentCommit.hash)>>) = <<>>
        BY <1>8, <4>3, ShownIs
      <4> QED BY <4>1, <4>2, <4>4, WithTextNone
    <3> QED BY <3>1, <3>2
  <2> QED BY <1>6, <2>1, <2>2, <2>3
<1>10. CASE l.t = "diff" /\ DiffCase(l)
  <2>1. owed' = owed
    BY <1>1, <1>10 DEF OwedAfter, Edge, BodyText
  <2>2. pending' = Shown(currentDiff) /\ Shown(currentDiff') = <<>>
    BY <1>5, <1>8, <1>10 DEF DiffCase, Sending
  <2> QED BY <1>5, <1>6, <2>1, <2>2
<1>11. CASE l.t \notin {"commit", "diff"} /\ (git.lost \/ l.t = "junk") /\ Notes("ParseFailure")
  <2>1. owed' = owed
    BY <1>1, <1>11 DEF OwedAfter, Edge, BodyText
  <2> QED BY <1>7, <1>11, <2>1 DEF Notes
<1>12. CASE ~git.lost /\ l.t = "@@" /\ HunkCase(l)
  <2>1. owed' = owed
    BY <1>1, <1>12 DEF OwedAfter, Edge, BodyText
  <2>2. pending' = Shown(currentDiff) /\ Shown(currentDiff') = <<>>
    BY <1>5, <1>12 DEF HunkCase, Sending, newDiff, Shown, HasText
  <2> QED BY <1>5, <1>6, <2>1, <2>2
<1>13. CASE ~git.lost /\ l.t \in {"binary", "badbinary"} /\ BinaryCase(l)
  <2>1. git.at = "index" /\ l.to = "binary" /\ pending' = <<>>
    BY <1>1, <1>13 DEF Edge, BodyText, BinaryCase, Sending
  <2>2. currentDiff = newDiff(git.commit) /\ Shown(currentDiff) = <<>>
    BY <1>1, <1>8, <2>1 DEF Building, Headers
  <2>3. CASE l.t = "binary" /\ l.n # 0
    <3> DEFINE e == [commit |-> git.commit, path |-> l.n, line |-> 0, binary |-> TRUE, text |-> <<>>]
    <3>1. currentDiff' = e
      BY <1>13, <2>2, <2>3 DEF BinaryCase, newDiff
    <3>2. owed' = Append(owed, e)
      BY <1>13, <2>1, <2>3 DEF OwedAfter
    <3>3. e.binary /\ e \in Diff
      BY <1>1, <3>1
    <3> HIDE DEF e
    <3>4. Shown(currentDiff') = <<e>>
      BY <3>1, <3>3 DEF Shown, HasText
    <3>5. W \o <<>> = W
      BY <1>2, ConcatEmptySeq
    <3>6. owed' = W \o <<e>>
      BY <1>2, <2>2, <3>2, <3>3, <3>5, AppendIsConcat
    <3> QED BY <1>4, <2>1, <3>4, <3>6 DEF DiffsAsLogged
  <2>4. CASE ~(l.t = "binary" /\ l.n # 0)
    <3>1. currentDiff' = currentDiff
      BY <1>13, <2>4 DEF BinaryCase
    <3>2. owed' = owed
      BY <2>1, <2>4 DEF OwedAfter
    <3> QED BY <1>7, <2>1, <3>1, <3>2
  <2> QED BY <2>3, <2>4
<1>14. CASE ~git.lost /\ l.to = "to" /\ ToFileCase(l)
  <2>1. git.at = "from" /\ l.t \in {"+++", "bad+++"} /\ pending' = <<>> /\ owed' = owed
    BY <1>1, <1>14 DEF Edge, BodyText, ToFileCase, Sending, OwedAfter
  <2>2. currentDiff = newDiff(git.commit) /\ Shown(currentDiff) = <<>>
    BY <1>1, <1>8, <2>1 DEF Building, Headers
  <2>3. Shown(currentDiff') = <<>>
    BY <1>14, <2>2 DEF ToFileCase, Shown, HasText, newDiff
  <2> QED BY <1>2, <1>4, <2>1, <2>2, <2>3 DEF DiffsAsLogged
<1>15. CASE ~git.lost /\ l.to = "body" /\ l.t \in {"ctx", "plus", "+++"} /\ ContentCase(l)
  <2> DEFINE length == IF l.t = "ctx" THEN 1 ELSE l.n
  <2>1. git.at \in {"hunk", "body"} /\ pending' = <<>>
    BY <1>1, <1>15 DEF Edge, BodyText, ContentCase, Sending
  <2>2. /\ currentDiff.path = git.path /\ currentDiff.line = git.hunk
        /\ ~currentDiff.binary /\ (currentDiff.text # <<>> <=> git.text)
    BY <1>1, <1>15, <2>1 DEF Building
  <2>3. isHunkContextLine(l) <=> l.t = "ctx"
    BY <1>15 DEF ContentCase, isHunkContextLine, isHunkPlusLine
  <2>4. currentDiff' = LineMore(currentDiff, length) /\ length \in Nat
    <3>1. length = IF isHunkContextLine(l) THEN 1 ELSE l.n
      BY <2>3
    <3> HIDE DEF length
    <3>2. currentDiff' = LineMore(currentDiff, length)
      BY <1>15, <3>1 DEF ContentCase, LineMore
    <3> QED BY <1>1, <3>1, <3>2
  <2>5. owed' = IF git.text THEN LastLineMore(owed, length)
                ELSE More(owed, [commit |-> git.commit, path |-> git.path, line |-> git.hunk,
                                     binary |-> FALSE, text |-> <<length>>])
    BY <1>15 DEF OwedAfter, LastLineMore, More
  <2> HIDE DEF length
  <2>6. /\ currentDiff.text # <<>> => Follows(LastLineMore(owed, length), W, Shown(currentDiff'))
        /\ currentDiff.text = <<>> =>
             Follows(More(owed, currentDiff'), W, Shown(currentDiff')) /\ currentDiff'.text = <<length>>
    <3>1. /\ W \in Seq(Diff) /\ currentDiff \in Diff /\ currentDiff' \in Diff /\ length \in Nat
          /\ Follows(owed, W, Shown(currentDiff)) /\ currentDiff' = LineMore(currentDiff, length)
          /\ ~currentDiff.binary
      BY <1>1, <1>2, <2>2, <2>4 DEF Follows
    <3> QED BY <3>1, OwedText
  <2>7. ASSUME currentDiff'.text = <<length>>
        PROVE  currentDiff' = [commit |-> git.commit, path |-> git.path, line |-> git.hunk,
                               binary |-> FALSE, text |-> <<length>>]
    BY <1>1, <2>2, <2>4, <2>7 DEF Diff, LineMore
  <2>8. owed' = W \o Shown(currentDiff')
    BY <2>2, <2>5, <2>6, <2>7 DEF Follows
  <2> QED BY <1>4, <2>1, <2>8 DEF DiffsAsLogged
<1>16. CASE /\ ~git.lost
            /\ l.t \in {"merge", "author", "date", "blank", "msg", "mode", "index", "---",
                        "minus", "warn"}
            /\ Notes(IF l.to # "gap" THEN LineState[l.to]
                     ELSE IF git.at = "body" THEN "HunkContentLine" ELSE latestState)
  <2>1. owed' = owed
    BY <1>16 DEF OwedAfter
  <2> QED BY <1>7, <1>16, <2>1 DEF Notes
<1> QED BY <1>1, <1>9, <1>10, <1>11, <1>12, <1>13, <1>14, <1>15, <1>16 DEF Reads

LEMMA ParserOwes ==
  ASSUME ParseInv, ParseInv', Parse, DiffsAsLogged
  PROVE  DiffsAsLogged'
<1>1. CASE ReadLine
  BY <1>1, ReadingLine, ReadingOwes
<1>2. CASE Send
  <2>1. Queued' = Queued /\ currentDiff' = currentDiff /\ owed' = owed
    BY <1>2, SendQueued DEF Send
  <2> QED BY <2>1 DEF DiffsAsLogged, OnTheWay, WithText, Current, HasText, Queued
<1>3. CASE StopReading \/ CloseChannel
  <2>1. UNCHANGED <<diffChan, pending, currentDiff, owed>>
    BY <1>3 DEF StopReading, CloseChannel
  <2> QED BY <2>1 DEF DiffsAsLogged, OnTheWay, WithText, Current, HasText
<1>4. CASE cleanupParse
  <2>1. /\ parser = "cleanup" /\ pending = <<>> /\ currentDiff' = newDiff(0)
        /\ diffChan' = diffChan /\ owed' = owed
        /\ pending' = IF HasText(currentDiff)
                      THEN <<[currentDiff EXCEPT !.commit = currentCommit.hash]>> ELSE <<>>
    BY <1>4 DEF cleanupParse, Sending
  <2>2. currentDiff \in Diff /\ currentDiff.commit = currentCommit.hash
    BY <2>1 DEF ParseInv, ParseTypes, BuildInv
  <2>3. [currentDiff EXCEPT !.commit = currentCommit.hash] = currentDiff
    BY <2>2 DEF Diff
  <2>4. pending' = Shown(currentDiff)
    BY <2>1, <2>3 DEF Shown
  <2>5. WithText(pending') = Shown(currentDiff) /\ Shown(currentDiff') = <<>>
    BY <2>1, <2>2, <2>4, ShownIs DEF newDiff, Shown, HasText
  <2> DEFINE W == WithText(diffChan)
             C == Shown(currentDiff)
  <2>6. owed = (W \o WithText(<<>>)) \o C /\ W \in Seq(Diff) /\ C \in Seq(Diff)
    BY <2>1, InThreeParts DEF DiffsAsLogged
  <2>7. OnTheWay' = (W \o C) \o <<>>
    BY <2>1, <2>5, InThreePartsNext
  <2> HIDE DEF W, C
  <2>8. W \o WithText(<<>>) = W
    BY <2>6, WithTextNone, ConcatEmptySeq
  <2>9. (W \o C) \o <<>> = W \o C
    <3>1. W \o C \in Seq(Diff)
      BY <2>6, ConcatProperties
    <3> QED BY <3>1, ConcatEmptySeq
  <2> QED BY <2>1, <2>6, <2>7, <2>8, <2>9 DEF DiffsAsLogged
<1> QED BY <1>1, <1>2, <1>3, <1>4 DEF Parse

\* What the scan takes from the channel is what was owed first.
LEMMA TakeOwes ==
  ASSUME ParseInv, ParseInv', Take, DiffsAsLogged
  PROVE  DiffsAsLogged'
<1> DEFINE h == Head(diffChan)
           t == Tail(diffChan)
           T == WithText(t)
           P == WithText(pending)
           C == Shown(currentDiff)
           S == Shown(h)
<1>1. /\ diffChan \in Seq(Diff) /\ diffChan # <<>>
      /\ diffChan' = Tail(diffChan) /\ UNCHANGED <<currentDiff, pending>>
      /\ owed' = IF HasText(h) THEN Tail(owed) ELSE owed
  BY DEF Take, parserVars, ParseInv, ParseTypes
<1>2. h \in Diff /\ t \in Seq(Diff) /\ diffChan = <<h>> \o t
  BY <1>1, HeadTailProperties
<1>3. S \in Seq(Diff) /\ WithText(<<h>>) = S /\ S = IF HasText(h) THEN <<h>> ELSE <<>>
  BY <1>2, ShownIs DEF Shown
<1>4. owed = (WithText(diffChan) \o P) \o C /\ P \in Seq(Diff) /\ C \in Seq(Diff)
  BY InThreeParts DEF DiffsAsLogged
<1>5. OnTheWay' = (T \o P) \o C /\ T \in Seq(Diff)
  BY <1>1, InThreePartsNext
<1>6. WithText(diffChan) = S \o T
  <2>1. <<h>> \in Seq(Diff)
    BY <1>2
  <2> DEFINE one == <<h>>
  <2> HIDE DEF one, h, t, T, S
  <2>2. WithText(one \o t) = WithText(one) \o WithText(t)
    BY <1>2, <2>1, WithTextConcat DEF one
  <2> QED BY <1>2, <1>3, <2>2 DEF one, T
<1> HIDE DEF h, t, T, P, C, S
<1> DEFINE rest == (T \o P) \o C
<1>7. owed = S \o rest /\ rest \in Seq(Diff)
  <2>1. S \in Seq(Diff) /\ T \in Seq(Diff) /\ P \in Seq(Diff) /\ C \in Seq(Diff)
    BY <1>3, <1>4, <1>5
  <2>2. (S \o T) \o P = S \o (T \o P)
    BY <2>1, ConcatAssociative
  <2> DEFINE tp == T \o P
  <2>3. tp \in Seq(Diff)
    BY <2>1, ConcatProperties
  <2> HIDE DEF tp
  <2>4. (S \o tp) \o C = S \o (tp \o C)
    BY <2>1, <2>3, ConcatAssociative
  <2>5. tp \o C \in Seq(Diff)
    BY <2>1, <2>3, ConcatProperties
  <2> QED BY <1>4, <1>6, <2>2, <2>4, <2>5 DEF tp
<1>8. OnTheWay' = rest
  BY <1>5
<1> HIDE DEF rest
<1>9. CASE HasText(h)
  <2>1. owed = <<h>> \o rest /\ owed' = Tail(owed)
    BY <1>1, <1>3, <1>7, <1>9
  <2>2. Tail(<<h>> \o rest) = rest
    <3>1. h \in Diff /\ rest \in Seq(Diff)
      BY <1>2, <1>7
    <3> QED BY <3>1
  <2> QED BY <1>8, <2>1, <2>2 DEF DiffsAsLogged
<1>10. CASE ~HasText(h)
  <2>1. owed = <<>> \o rest /\ owed' = owed
    BY <1>1, <1>3, <1>7, <1>10
  <2>2. <<>> \o rest = rest
    BY <1>7, ConcatEmptySeq
  <2> QED BY <1>8, <2>1, <2>2 DEF DiffsAsLogged
<1> QED BY <1>9, <1>10

(***************************************************************************)
(* What is on its way to the scan is the text of the log that is owed, all *)
(* of it, in order and under the right commit, file and hunk: for any log. *)
(***************************************************************************)
THEOREM LogReachesScan == Spec => []DiffsAsLogged
<1>1. Init => DiffsAsLogged
  <2> SUFFICES ASSUME Init PROVE DiffsAsLogged
    OBVIOUS
  <2>1. diffChan = <<>> /\ pending = <<>> /\ currentDiff = newDiff(0) /\ owed = <<>>
    BY DEF Init, ParseInit
  <2>2. Current = <<>>
    BY <2>1 DEF Current, HasText, newDiff
  <2>3. (<<>> \o <<>>) \o <<>> = <<>>
    OBVIOUS
  <2>4. OnTheWay = WithText(<<>>)
    BY <2>1, <2>2, <2>3 DEF OnTheWay
  <2> QED BY <2>1, <2>4, WithTextNone DEF DiffsAsLogged
<1>2. ParseInv /\ ParseInv' /\ DiffsAsLogged /\ [Next]_vars => DiffsAsLogged'
  <2> SUFFICES ASSUME ParseInv, ParseInv', DiffsAsLogged, [Next]_vars PROVE DiffsAsLogged'
    OBVIOUS
  <2>1. CASE Parse
    BY <2>1, ParserOwes
  <2>2. CASE Take
    BY <2>2, TakeOwes
  <2>3. CASE Cancel \/ UNCHANGED parseVars
    <3>1. UNCHANGED <<diffChan, pending, currentDiff, owed>>
      BY <2>3 DEF Cancel, parseVars, parserVars
    <3> QED BY <3>1 DEF DiffsAsLogged, OnTheWay, WithText, Current, HasText
  <2>4. CASE UNCHANGED vars
    BY <2>3, <2>4 DEF vars
  <2> QED BY <2>1, <2>2, <2>3, <2>4, ScanTakes DEF Next
<1> QED BY <1>1, <1>2, ParseInvariant, PTL DEF Spec

----------------------------------------------------------------------------
(* The chunks of a large diff.                                             *)

\* The steps of TextLen and FlattenSeq, as functions.
Plus == [p \in Nat \X Nat |-> p[1] + p[2]]

\* TextLen adds the lines up one by one.
LEMMA TextLenSteps ==
  ASSUME NEW q \in Seq(Nat)
  PROVE  \E g \in [SUBSET (1..Len(q)) -> Nat] : Traces(g, Plus, 0, q) /\ g[1..Len(q)] = TextLen(q)
<1> DEFINE n == Len(q)
           Made(g) == g = [s \in SUBSET (1..n) |-> IF s = {} THEN 0 ELSE g[s \ {Max(s)}] + q[Max(s)]]
<1>1. n \in Nat /\ DOMAIN q = 1..n
  OBVIOUS
<1>2. Plus \in [Nat \X Nat -> Nat] /\ \A a, d \in Nat : Plus[<<a, d>>] = a + d
  BY DEF Plus
<1>3. PICK g \in [SUBSET (1..n) -> Nat] : Traces(g, Plus, 0, q)
  BY <1>2, FoldSteps
<1>4. ASSUME NEW s \in SUBSET (1..n), s # {}
      PROVE  g[s] = g[s \ {Max(s)}] + q[Max(s)]
  <2>1. g[s] = Plus[<<g[s \ {Max(s)}], q[Max(s)]>>] /\ s \ {Max(s)} \in SUBSET (1..n) /\ Max(s) \in 1..n
    BY <1>1, <1>3, <1>4 DEF Traces
  <2>2. g[s \ {Max(s)}] \in Nat /\ q[Max(s)] \in Nat
    BY <2>1
  <2> QED BY <1>2, <2>1, <2>2
<1>5. g[{}] = 0
  BY <1>3 DEF Traces
<1>6. Made(g)
  BY <1>4, <1>5
<1> DEFINE made == CHOOSE k : Made(k)
<1>7. TextLen(q) = made[1..n]
  BY <1>1 DEF TextLen, FoldLeft, MapThenFoldSet
<1>8. Made(made)
  <2> HIDE DEF Made
  <2> QED BY <1>6
<1>9. made[1..n] = g[1..n]
  <2> HIDE DEF n, made
  <2>1. made[{}] = 0 /\ \A s \in SUBSET (1..n) : s # {} => made[s] = made[s \ {Max(s)}] + q[Max(s)]
    BY <1>8
  <2> HIDE DEF Made
  <2>2. \A s \in SUBSET (1..n) : s # {} /\ made[s \ {Max(s)}] = g[s \ {Max(s)}] => made[s] = g[s]
    BY <1>4, <2>1
  <2> QED BY <1>1, <1>5, <2>1, <2>2, FoldSame
<1> QED BY <1>3, <1>7, <1>9 DEF n

LEMMA TextLenIs ==
  /\ TextLen(<<>>) = 0
  /\ \A q \in Seq(Nat) : TextLen(q) \in Nat
  /\ \A q \in Seq(Nat), x \in Nat : TextLen(Append(q, x)) = TextLen(q) + x
<1>1. TextLen(<<>>) = 0
  <2>1. <<>> \in Seq(Nat) /\ Len(<<>>) = 0
    OBVIOUS
  <2>2. PICK g : Traces(g, Plus, 0, <<>>) /\ g[1..Len(<<>>)] = TextLen(<<>>)
    BY <2>1, TextLenSteps
  <2> QED BY <2>1, <2>2 DEF Traces
<1>2. ASSUME NEW q \in Seq(Nat) PROVE TextLen(q) \in Nat
  <2>1. PICK g \in [SUBSET (1..Len(q)) -> Nat] : g[1..Len(q)] = TextLen(q)
    BY TextLenSteps
  <2> QED BY <2>1
<1>3. ASSUME NEW q \in Seq(Nat), NEW x \in Nat PROVE TextLen(Append(q, x)) = TextLen(q) + x
  <2> DEFINE r == Append(q, x)
  <2>1. r \in Seq(Nat) /\ Longer(r, q, x)
    BY DEF Longer
  <2> HIDE DEF r
  <2>2. PICK g : Traces(g, Plus, 0, q) /\ g[1..Len(q)] = TextLen(q)
    BY TextLenSteps
  <2>3. PICK h : Traces(h, Plus, 0, r) /\ h[1..Len(r)] = TextLen(r)
    BY <2>1, TextLenSteps
  <2>4. Plus \in [Nat \X Nat -> Nat] /\ \A a, d \in Nat : Plus[<<a, d>>] = a + d
    BY DEF Plus
  <2>5. Folded(h, r) = Applied(Plus, Folded(g, q), x)
    <3> DEFINE D == Nat
    <3>1. q \in Seq(D) /\ x \in D
      OBVIOUS
    <3> HIDE DEF D
    <3> QED BY <2>1, <2>2, <2>3, <3>1, FoldAppend
  <2>6. TextLen(q) \in Nat
    BY <1>2
  <2>7. TextLen(r) = TextLen(q) + x
    BY <2>2, <2>3, <2>4, <2>5, <2>6 DEF Folded, Applied
  <2> QED BY <2>7 DEF r
<1> QED BY <1>1, <1>2, <1>3

Glue == [p \in Seq(Nat) \X Seq(Nat) |-> Both(p[1], p[2])]

LEMMA GlueIs ==
  /\ Glue \in [Seq(Nat) \X Seq(Nat) -> Seq(Nat)]
  /\ \A a, d \in Seq(Nat) : Glue[<<a, d>>] = Both(a, d)
  /\ \A d \in Seq(Nat) : Both(<<>>, d) = d /\ Both(d, <<>>) = d
<1>1. ASSUME NEW a \in Seq(Nat), NEW d \in Seq(Nat) PROVE Both(a, d) \in Seq(Nat)
  BY ConcatProperties DEF Both
<1>2. ASSUME NEW d \in Seq(Nat) PROVE Both(<<>>, d) = d /\ Both(d, <<>>) = d
  BY ConcatEmptySeq DEF Both
<1> QED BY <1>1, <1>2 DEF Glue

\* FlattenSeq puts the chunks together one by one.
LEMMA FlattenSteps ==
  ASSUME NEW q \in Seq(Seq(Nat))
  PROVE  \E g \in [SUBSET (1..Len(q)) -> Seq(Nat)] :
           Traces(g, Glue, <<>>, q) /\ g[1..Len(q)] = FlattenSeq(q)
<1> DEFINE n == Len(q)
           Made(f) == f = [i \in 1..n |-> IF i = 1 THEN q[i] ELSE f[i - 1] \o q[i]]
<1>1. n \in Nat /\ DOMAIN q = 1..n /\ <<>> \in Seq(Nat)
  OBVIOUS
<1>2. PICK g \in [SUBSET (1..n) -> Seq(Nat)] : Traces(g, Glue, <<>>, q)
  BY <1>1, GlueIs, FoldSteps
<1>3. g[1..0] = <<>> /\ \A i \in 0..n : g[1..i] \in Seq(Nat)
  <2>1. \A i \in 0..n : 1..i \in SUBSET (1..n)
    BY <1>1
  <2> HIDE DEF n
  <2>2. \A i \in 0..n : g[1..i] \in Seq(Nat)
    BY <1>2, <2>1
  <2>3. g[1..0] = <<>>
    BY <1>2 DEF Traces
  <2> QED BY <2>2, <2>3
<1>4. ASSUME NEW i \in 1..n PROVE g[1..i] = Both(g[1..(i - 1)], q[i])
  <2>1. g[1..i] = Glue[<<g[1..(i - 1)], q[i]>>] /\ i - 1 \in 0..n
    BY <1>1, <1>2 DEF Traces
  <2>2. g[1..(i - 1)] \in Seq(Nat) /\ q[i] \in Seq(Nat)
    BY <1>3, <2>1
  <2> QED BY <2>1, <2>2, GlueIs
<1>5. CASE n = 0
  <2>1. q = <<>>
    BY <1>5
  <2>2. FlattenSeq(q) = <<>>
    BY <1>5, <2>1 DEF FlattenSeq
  <2> QED BY <1>2, <1>3, <1>5, <2>2
<1>6. CASE n # 0
  <2> DEFINE f == [i \in 1..n |-> g[1..i]]
             made == CHOOSE k : Made(k)
  <2>1. ASSUME NEW i \in 1..n PROVE f[i] = IF i = 1 THEN q[i] ELSE f[i - 1] \o q[i]
    <3>1. CASE i = 1
      <4>1. i - 1 = 0 /\ q[i] \in Seq(Nat)
        BY <1>1, <3>1
      <4>2. g[1..i] = Both(<<>>, q[i])
        BY <1>3, <1>4, <4>1
      <4>3. Both(<<>>, q[i]) = q[i]
        BY <4>1, GlueIs
      <4> QED BY <3>1, <4>2, <4>3
    <3>2. CASE i # 1
      <4>1. i - 1 \in 1..n
        BY <1>1, <3>2
      <4>2. f[i - 1] = g[1..(i - 1)]
        BY <4>1
      <4>3. g[1..i] = g[1..(i - 1)] \o q[i]
        BY <1>4 DEF Both
      <4> QED BY <3>2, <4>2, <4>3
    <3> QED BY <3>1, <3>2
  <2>2. Made(f)
    <3>1. f = [i \in 1..n |-> f[i]]
      OBVIOUS
    <3> HIDE DEF f
    <3> QED BY <2>1, <3>1
  <2>3. FlattenSeq(q) = made[n]
    BY <1>6 DEF FlattenSeq
  <2>4. Made(made)
    <3> HIDE DEF Made
    <3> QED BY <2>2
  <2>5. ASSUME NEW i \in 1..n PROVE made[i] = IF i = 1 THEN q[i] ELSE Both(made[i - 1], q[i])
    <3> HIDE DEF made
    <3> QED BY <2>4 DEF Both
  <2>6. ASSUME NEW i \in 1..n PROVE f[i] = IF i = 1 THEN q[i] ELSE Both(f[i - 1], q[i])
    BY <2>1 DEF Both
  <2> HIDE DEF made, Made
  <2>7. n \in 1..n /\ f[n] = g[1..n]
    BY <1>1, <1>6
  <2> HIDE DEF n, f
  <2> DEFINE G == {i \in 0..n : i = 0 \/ made[i] = f[i]}
  <2>8. 0 \in G
    BY <1>1
  <2>9. ASSUME NEW i \in 1..n, i - 1 \in G PROVE i \in G
    <3>1. i \in 0..n /\ (i # 1 => i - 1 # 0)
      BY <1>1
    <3> QED BY <2>5, <2>6, <2>9, <3>1
  <2>10. \A i \in 0..n : i \in G
    <3> HIDE DEF G
    <3> QED BY <1>1, <2>8, <2>9, UpTo
  <2>11. made[n] = f[n]
    <3>1. n \in G /\ n # 0
      BY <1>1, <1>6, <2>7, <2>10
    <3> QED BY <3>1
  <2> QED BY <1>2, <2>3, <2>7, <2>11 DEF n
<1> QED BY <1>5, <1>6

LEMMA FlattenIs ==
  /\ FlattenSeq(<<>>) = <<>>
  /\ \A q \in Seq(Seq(Nat)) : FlattenSeq(q) \in Seq(Nat)
  /\ \A q \in Seq(Seq(Nat)), c \in Seq(Nat) : FlattenSeq(Append(q, c)) = Both(FlattenSeq(q), c)
<1>1. FlattenSeq(<<>>) = <<>>
  <2>1. <<>> \in Seq(Seq(Nat)) /\ Len(<<>>) = 0
    OBVIOUS
  <2>2. PICK g : Traces(g, Glue, <<>>, <<>>) /\ g[1..Len(<<>>)] = FlattenSeq(<<>>)
    BY <2>1, FlattenSteps
  <2> QED BY <2>1, <2>2 DEF Traces
<1>2. ASSUME NEW q \in Seq(Seq(Nat)) PROVE FlattenSeq(q) \in Seq(Nat)
  <2>1. PICK g \in [SUBSET (1..Len(q)) -> Seq(Nat)] : g[1..Len(q)] = FlattenSeq(q)
    BY FlattenSteps
  <2> QED BY <2>1
<1>3. ASSUME NEW q \in Seq(Seq(Nat)), NEW c \in Seq(Nat)
      PROVE  FlattenSeq(Append(q, c)) = Both(FlattenSeq(q), c)
  <2> DEFINE r == Append(q, c)
  <2>1. r \in Seq(Seq(Nat)) /\ Longer(r, q, c)
    BY DEF Longer
  <2> HIDE DEF r
  <2>2. PICK g : Traces(g, Glue, <<>>, q) /\ g[1..Len(q)] = FlattenSeq(q)
    BY FlattenSteps
  <2>3. PICK h : Traces(h, Glue, <<>>, r) /\ h[1..Len(r)] = FlattenSeq(r)
    BY <2>1, FlattenSteps
  <2>4. Folded(h, r) = Applied(Glue, Folded(g, q), c)
    <3> DEFINE D == Seq(Nat)
    <3>1. q \in Seq(D) /\ c \in D
      OBVIOUS
    <3> HIDE DEF D
    <3> QED BY <2>1, <2>2, <2>3, <3>1, FoldAppend
  <2>5. FlattenSeq(q) \in Seq(Nat)
    BY <1>2
  <2>6. FlattenSeq(r) = Both(FlattenSeq(q), c)
    BY <2>2, <2>3, <2>4, <2>5, GlueIs DEF Folded, Applied
  <2> QED BY <2>6 DEF r
<1> QED BY <1>1, <1>2, <1>3

(***************************************************************************)
(* The lines gathered in s are the first m of the text, of which i were    *)
(* read: all of them, but for a line the scanner cannot hold.              *)
(***************************************************************************)
Gathering == [chunks : Seq(Seq(Nat)), buffer : Seq(Nat), tooLong : BOOLEAN]
NothingGathered == [chunks |-> <<>>, buffer |-> <<>>, tooLong |-> FALSE]
Held(s) == Both(FlattenSeq(s.chunks), s.buffer)
Short(c) == Len(c) = 1 \/ TextLen(c) <= ChunkSize
Within(s) == TextLen(s.buffer) <= ChunkSize /\ \A c \in DOMAIN s.chunks : Short(s.chunks[c])
Prefix(text, m) == SubSeq(text, 1, m)
Gathered(s, text, i) ==
  /\ s \in Gathering /\ Within(s)
  /\ \E m \in 0..i :
       /\ Held(s) = Prefix(text, m)
       /\ \A j \in 1..m : text[j] <= MaxToken
       /\ IF s.tooLong THEN m < i /\ text[m + 1] > MaxToken ELSE m = i

\* What Gather does with a line it can hold.
Cut(s) == Append(s.chunks, s.buffer)
Fits(s, x) == x <= ChunkSize /\ x + TextLen(s.buffer) <= ChunkSize
HandsOver(s, t) == IF s.buffer # <<>> THEN t.chunks = Cut(s) ELSE t.chunks = s.chunks
Takes(s, x, t) ==
  /\ t \in Gathering /\ t.tooLong = FALSE
  /\ \/ /\ Fits(s, x)
        /\ t.chunks = s.chunks /\ t.buffer = More(s.buffer, x)
     \/ /\ x > ChunkSize
        /\ \E c \in Seq(Seq(Nat)) :
             /\ c = IF s.buffer # <<>> THEN Cut(s) ELSE s.chunks
             /\ t.chunks = Append(c, <<x>>)
        /\ t.buffer = <<>>
     \/ /\ x <= ChunkSize
        /\ HandsOver(s, t) /\ t.buffer = <<x>>

LEMMA GatherTakes ==
  ASSUME NEW s \in Gathering, NEW x \in Nat
  PROVE  /\ s.tooLong \/ x > MaxToken =>
              /\ Gather(s, x) \in Gathering /\ Gather(s, x).tooLong
              /\ Gather(s, x).chunks = s.chunks /\ Gather(s, x).buffer = s.buffer
         /\ ~(s.tooLong \/ x > MaxToken) => Takes(s, x, Gather(s, x))
<1> DEFINE full == x > ChunkSize \/ x + TextLen(s.buffer) > ChunkSize
           c == IF full /\ s.buffer # <<>> THEN Append(s.chunks, s.buffer) ELSE s.chunks
           kept == IF full THEN <<>> ELSE s.buffer
           t == Gather(s, x)
<1>1. /\ s.chunks \in Seq(Seq(Nat)) /\ s.buffer \in Seq(Nat) /\ s.tooLong \in BOOLEAN
      /\ TextLen(s.buffer) \in Nat /\ ChunkSize \in Nat /\ MaxToken \in Nat
      /\ s = [chunks |-> s.chunks, buffer |-> s.buffer, tooLong |-> s.tooLong]
  BY TextLenIs, ScanAssumption DEF Gathering
<1>2. c \in Seq(Seq(Nat)) /\ kept \in Seq(Nat) /\ <<x>> \in Seq(Nat) /\ Append(<<>>, x) = <<x>>
  BY <1>1
<1>3. CASE s.tooLong \/ x > MaxToken
  <2>1. t = [s EXCEPT !.tooLong = TRUE]
    BY <1>3 DEF Gather
  <2>2. t \in Gathering /\ t.tooLong /\ t.chunks = s.chunks /\ t.buffer = s.buffer
    BY <1>1, <2>1 DEF Gathering
  <2> QED BY <1>3, <2>2
<1>4. CASE ~(s.tooLong \/ x > MaxToken) /\ x > ChunkSize
  <2>1. t = [s EXCEPT !.chunks = Append(c, <<x>>), !.buffer = kept]
    BY <1>4 DEF Gather
  <2>2. c = (IF s.buffer # <<>> THEN Cut(s) ELSE s.chunks) /\ kept = <<>>
    BY <1>4 DEF Cut
  <2>3. Append(c, <<x>>) \in Seq(Seq(Nat))
    <3> HIDE DEF c
    <3> QED BY <1>2
  <2> HIDE DEF c, kept, t
  <2>4. t.chunks = Append(c, <<x>>) /\ t.buffer = <<>> /\ t.tooLong = FALSE
    BY <1>1, <1>4, <2>1, <2>2
  <2>5. t \in Gathering
    BY <1>1, <1>2, <2>1, <2>3 DEF Gathering
  <2>6. Takes(s, x, t)
    BY <1>2, <1>4, <2>2, <2>4, <2>5 DEF Takes
  <2> QED BY <1>4, <2>6 DEF t
<1>5. CASE ~(s.tooLong \/ x > MaxToken) /\ ~(x > ChunkSize)
  <2>1. t = [s EXCEPT !.chunks = c, !.buffer = Append(kept, x)]
    BY <1>5 DEF Gather
  <2>2. Append(kept, x) \in Seq(Nat)
    <3> HIDE DEF kept
    <3> QED BY <1>2
  <2>3. IF full THEN c = (IF s.buffer # <<>> THEN Cut(s) ELSE s.chunks) /\ Append(kept, x) = <<x>>
        ELSE c = s.chunks /\ Append(kept, x) = More(s.buffer, x)
    BY <1>2 DEF Cut, More
  <2>4. ~full <=> Fits(s, x)
    BY <1>1 DEF Fits
  <2> DEFINE b == Append(kept, x)
  <2> HIDE DEF c, b, t
  <2>5. t.chunks = c /\ t.buffer = b /\ t.tooLong = FALSE
    BY <1>1, <1>5, <2>1 DEF b
  <2>6. t \in Gathering
    BY <1>1, <1>2, <2>1, <2>2 DEF Gathering
  <2>7. Takes(s, x, t)
    <3>1. x <= ChunkSize
      BY <1>1, <1>5
    <3> HIDE DEF full, kept
    <3> QED BY <2>3, <2>4, <2>5, <2>6, <3>1 DEF Takes, HandsOver, b
  <2> QED BY <1>5, <2>7 DEF t
<1> QED BY <1>3, <1>4, <1>5

LEMMA OneLine ==
  ASSUME NEW p \in Seq(Nat), NEW x \in Nat
  PROVE  Both(p, <<x>>) = More(p, x) /\ <<x>> \in Seq(Nat) /\ More(p, x) \in Seq(Nat)
<1>1. More(<<>>, x) = <<x>> /\ <<>> \in Seq(Nat) /\ <<x>> \in Seq(Nat) /\ More(p, x) \in Seq(Nat)
  BY DEF More
<1>2. Both(p, <<>>) = p
  BY GlueIs
<1>3. More(Both(p, <<>>), x) = Both(p, More(<<>>, x))
  <2> DEFINE T == Nat
             w == <<>>
  <2>1. p \in Seq(T) /\ w \in Seq(T) /\ x \in T
    OBVIOUS
  <2> HIDE DEF T, w
  <2>2. More(Both(p, w), x) = Both(p, More(w, x))
    BY <2>1, MoreOfBoth
  <2> QED BY <2>2 DEF w
<1> QED BY <1>1, <1>2, <1>3

\* The lines held are in order and none is lost when a chunk is cut.
LEMMA TakesHeld ==
  ASSUME NEW s \in Gathering, NEW x \in Nat, NEW t, Takes(s, x, t)
  PROVE  Held(t) = More(Held(s), x)
<1> DEFINE flat == FlattenSeq(s.chunks)
           held == Held(s)
<1>1. s.chunks \in Seq(Seq(Nat)) /\ s.buffer \in Seq(Nat) /\ t.chunks \in Seq(Seq(Nat)) /\ t.buffer \in Seq(Nat)
  BY DEF Takes, Gathering
<1>2. flat \in Seq(Nat) /\ held = Both(flat, s.buffer) /\ held \in Seq(Nat)
  <2>1. flat \in Seq(Nat)
    BY <1>1, FlattenIs
  <2>2. Both(flat, s.buffer) \in Seq(Nat)
    BY <1>1, <2>1, ConcatProperties DEF Both
  <2> QED BY <2>1, <2>2 DEF Held
<1>3. FlattenSeq(Cut(s)) = held /\ Cut(s) \in Seq(Seq(Nat))
  <2> DEFINE c == s.buffer
             q == s.chunks
  <2>1. q \in Seq(Seq(Nat)) /\ c \in Seq(Nat) /\ Cut(s) = Append(q, c)
    BY <1>1 DEF Cut
  <2> HIDE DEF q, c
  <2>2. FlattenSeq(Append(q, c)) = Both(FlattenSeq(q), c) /\ Append(q, c) \in Seq(Seq(Nat))
    BY <2>1, FlattenIs
  <2> QED BY <1>2, <2>1, <2>2 DEF q, c
<1>4. s.buffer = <<>> => flat = held
  BY <1>2, GlueIs
<1> HIDE DEF held
<1> SUFFICES Held(t) = More(held, x)
  BY DEF held
<1>5. /\ Both(held, <<x>>) = More(held, x) /\ <<x>> \in Seq(Nat)
      /\ More(held, x) \in Seq(Nat)
  BY <1>2, OneLine
<1>6. Held(t) = Both(FlattenSeq(t.chunks), t.buffer)
  BY DEF Held
<1>7. CASE t.chunks = s.chunks /\ t.buffer = More(s.buffer, x)
  <2>1. More(Both(flat, s.buffer), x) = Both(flat, More(s.buffer, x))
    <3> HIDE DEF flat
    <3> QED BY <1>1, <1>2, MoreOfBoth
  <2> QED BY <1>2, <1>6, <1>7, <2>1 DEF held
<1>8. ASSUME NEW c \in Seq(Seq(Nat)), c = IF s.buffer # <<>> THEN Cut(s) ELSE s.chunks,
             t.chunks = Append(c, <<x>>), t.buffer = <<>>
      PROVE  Held(t) = More(held, x)
  <2>1. FlattenSeq(c) = held
    BY <1>3, <1>4, <1>8
  <2>2. FlattenSeq(t.chunks) = Both(FlattenSeq(c), <<x>>)
    <3>1. FlattenSeq(Append(c, <<x>>)) = Both(FlattenSeq(c), <<x>>)
      BY <1>5, FlattenIs
    <3> QED BY <1>8, <3>1
  <2>3. FlattenSeq(t.chunks) = More(held, x)
    BY <1>5, <2>1, <2>2
  <2>4. Both(More(held, x), <<>>) = More(held, x)
    BY <1>5, GlueIs
  <2> QED BY <1>6, <1>8, <2>3, <2>4
<1>9. CASE HandsOver(s, t) /\ t.buffer = <<x>>
  <2>1. FlattenSeq(t.chunks) = held
    BY <1>3, <1>4, <1>9 DEF HandsOver
  <2> QED BY <1>5, <1>6, <1>9, <2>1
<1> QED BY <1>7, <1>8, <1>9 DEF Takes

LEMMA ShortAppend ==
  ASSUME NEW q \in Seq(Seq(Nat)), NEW c \in Seq(Nat), Short(c), \A i \in DOMAIN q : Short(q[i])
  PROVE  \A i \in DOMAIN Append(q, c) : Short(Append(q, c)[i])
<1> DEFINE r == Append(q, c)
<1>1. /\ Len(q) \in Nat /\ DOMAIN q = 1..Len(q) /\ DOMAIN r = 1..(Len(q) + 1)
      /\ \A i \in 1..Len(q) : r[i] = q[i]
      /\ r[Len(q) + 1] = c
  BY AppendProperties
<1> HIDE DEF r
<1>2. ASSUME NEW i \in DOMAIN r PROVE Short(r[i])
  <2>1. CASE i \in 1..Len(q)
    BY <1>1, <2>1
  <2>2. CASE i = Len(q) + 1
    BY <1>1, <2>2
  <2> QED BY <1>1, <1>2, <2>1, <2>2
<1> QED BY <1>2 DEF r

\* No chunk and no buffer gets longer than it may.
LEMMA TakesWithin ==
  ASSUME NEW s \in Gathering, NEW x \in Nat, NEW t, Takes(s, x, t), Within(s)
  PROVE  Within(t)
<1>1. s.chunks \in Seq(Seq(Nat)) /\ s.buffer \in Seq(Nat) /\ ChunkSize \in Nat
  BY ScanAssumption DEF Gathering
<1>2. TextLen(<<>>) = 0 /\ TextLen(<<x>>) = x /\ <<x>> \in Seq(Nat) /\ Len(<<x>>) = 1
  <2>1. <<>> \in Seq(Nat) /\ Append(<<>>, x) = <<x>> /\ <<x>> \in Seq(Nat) /\ Len(<<x>>) = 1
    OBVIOUS
  <2>2. TextLen(Append(<<>>, x)) = TextLen(<<>>) + x /\ TextLen(<<>>) = 0
    BY <2>1, TextLenIs
  <2> QED BY <2>1, <2>2
<1>3. Short(s.buffer) /\ \A i \in DOMAIN s.chunks : Short(s.chunks[i])
  <2>1. TextLen(s.buffer) <= ChunkSize /\ \A i \in DOMAIN s.chunks : Short(s.chunks[i])
    BY DEF Within
  <2>2. Short(s.buffer)
    BY <2>1 DEF Short
  <2> QED BY <2>1, <2>2
<1>4. \A i \in DOMAIN Cut(s) : Short(Cut(s)[i])
  <2> DEFINE c == s.buffer
             q == s.chunks
  <2>1. q \in Seq(Seq(Nat)) /\ c \in Seq(Nat) /\ Cut(s) = Append(q, c) /\ Short(c)
        /\ \A i \in DOMAIN q : Short(q[i])
    BY <1>1, <1>3 DEF Cut
  <2> HIDE DEF q, c
  <2>2. \A i \in DOMAIN Append(q, c) : Short(Append(q, c)[i])
    BY <2>1, ShortAppend
  <2> QED BY <2>1, <2>2
<1>5. CASE Fits(s, x) /\ t.chunks = s.chunks /\ t.buffer = More(s.buffer, x)
  <2>1. TextLen(More(s.buffer, x)) = TextLen(s.buffer) + x /\ TextLen(s.buffer) \in Nat
    BY <1>1, TextLenIs DEF More
  <2>2. TextLen(t.buffer) <= ChunkSize
    BY <1>1, <1>5, <2>1 DEF Fits
  <2> QED BY <1>3, <1>5, <2>2 DEF Within
<1>6. ASSUME NEW c \in Seq(Seq(Nat)), c = IF s.buffer # <<>> THEN Cut(s) ELSE s.chunks,
             t.chunks = Append(c, <<x>>), t.buffer = <<>>
      PROVE  Within(t)
  <2>1. \A i \in DOMAIN c : Short(c[i])
    BY <1>3, <1>4, <1>6
  <2>2. Short(<<x>>)
    BY <1>2 DEF Short
  <2> DEFINE one == <<x>>
  <2>3. one \in Seq(Nat) /\ Short(one)
    BY <1>2, <2>2
  <2> HIDE DEF one
  <2>4. \A i \in DOMAIN Append(c, one) : Short(Append(c, one)[i])
    BY <2>1, <2>3, ShortAppend
  <2>5. \A i \in DOMAIN t.chunks : Short(t.chunks[i])
    BY <1>6, <2>4 DEF one
  <2>6. TextLen(t.buffer) <= ChunkSize
    BY <1>1, <1>2, <1>6
  <2> QED BY <2>5, <2>6 DEF Within
<1>7. CASE x <= ChunkSize /\ HandsOver(s, t) /\ t.buffer = <<x>>
  <2>1. \A i \in DOMAIN t.chunks : Short(t.chunks[i])
    BY <1>3, <1>4, <1>7 DEF HandsOver
  <2>2. TextLen(t.buffer) <= ChunkSize
    BY <1>2, <1>7
  <2> QED BY <2>1, <2>2 DEF Within
<1> QED BY <1>5, <1>6, <1>7 DEF Takes

LEMMA PrefixIs ==
  ASSUME NEW text \in Seq(Nat)
  PROVE  /\ Prefix(text, 0) = <<>> /\ Prefix(text, Len(text)) = text
         /\ \A i \in 1..Len(text) : Prefix(text, i) = More(Prefix(text, i - 1), text[i])
<1>1. ASSUME NEW m \in 0..Len(text)
      PROVE  /\ Prefix(text, m) \in Seq(Nat) /\ Len(Prefix(text, m)) = m
             /\ \A j \in 1..m : Prefix(text, m)[j] = text[j]
  <2>1. m \in Int /\ 1 \in 1..Len(text) + 1 /\ m \in 0..Len(text)
    OBVIOUS
  <2>2. SubSeq(text, 1, m) \in Seq(Nat) /\ Len(SubSeq(text, 1, m)) = m
        /\ \A j \in 1..m : SubSeq(text, 1, m)[j] = text[j]
    BY <2>1
  <2> QED BY <2>2 DEF Prefix
<1>2. Len(text) \in Nat /\ 0 \in 0..Len(text) /\ Len(text) \in 0..Len(text)
  OBVIOUS
<1>3. Prefix(text, 0) = <<>>
  <2>1. Prefix(text, 0) \in Seq(Nat) /\ Len(Prefix(text, 0)) = 0
    BY <1>1, <1>2
  <2> QED BY <2>1
<1>4. Prefix(text, Len(text)) = text
  <2> DEFINE p == Prefix(text, Len(text))
  <2>1. p \in Seq(Nat) /\ Len(p) = Len(text) /\ \A j \in 1..Len(text) : p[j] = text[j]
    BY <1>1, <1>2
  <2> HIDE DEF p
  <2>2. p = text
    BY <2>1, SeqEqual
  <2> QED BY <2>2 DEF p
<1>5. ASSUME NEW i \in 1..Len(text)
      PROVE  Prefix(text, i) = More(Prefix(text, i - 1), text[i])
  <2> DEFINE p == Prefix(text, i - 1)
             q == Prefix(text, i)
             r == Append(p, text[i])
  <2>1. i \in 0..Len(text) /\ i - 1 \in 0..Len(text) /\ i \in Nat /\ text[i] \in Nat
    OBVIOUS
  <2>2. /\ p \in Seq(Nat) /\ Len(p) = i - 1 /\ \A j \in 1..(i - 1) : p[j] = text[j]
        /\ q \in Seq(Nat) /\ Len(q) = i /\ \A j \in 1..i : q[j] = text[j]
    BY <1>1, <2>1
  <2> HIDE DEF p, q
  <2>3. r \in Seq(Nat) /\ Len(r) = i /\ r[i] = text[i] /\ \A j \in 1..(i - 1) : r[j] = p[j]
    BY <2>1, <2>2, AppendProperties
  <2> HIDE DEF r
  <2>4. \A j \in 1..i : q[j] = r[j]
    <3>1. ASSUME NEW j \in 1..i PROVE q[j] = r[j]
      <4>1. j = i \/ j \in 1..(i - 1)
        BY <2>1
      <4> QED BY <2>2, <2>3, <4>1
    <3> QED BY <3>1
  <2>5. q = r
    BY <2>1, <2>2, <2>3, <2>4
  <2> QED BY <2>5 DEF p, q, r, More
<1> QED BY <1>3, <1>4, <1>5

\* Gather goes through the lines one by one.
LEMMA GatherSteps ==
  ASSUME NEW q \in Seq(Nat)
  PROVE  \E g \in [SUBSET (1..Len(q)) -> Gathering] :
            /\ g[1..0] = NothingGathered /\ g[1..Len(q)] = FoldLeft(Gather, NothingGathered, q)
            /\ \A i \in 1..Len(q) : g[1..i] = Gather(g[1..(i - 1)], q[i])
            /\ \A i \in 0..Len(q) : g[1..i] \in Gathering
<1> DEFINE n == Len(q)
           F == [p \in Gathering \X Nat |-> Gather(p[1], p[2])]
           Made(g) == g = [s \in SUBSET (1..n) |->
                             IF s = {} THEN NothingGathered
                             ELSE Gather(g[s \ {Max(s)}], q[Max(s)])]
<1>1. n \in Nat /\ DOMAIN q = 1..n /\ NothingGathered \in Gathering
  BY DEF NothingGathered, Gathering
<1>2. \A a \in Gathering, x \in Nat : Gather(a, x) \in Gathering /\ F[<<a, x>>] = Gather(a, x)
  <2>1. ASSUME NEW a \in Gathering, NEW x \in Nat PROVE Gather(a, x) \in Gathering
    BY GatherTakes DEF Takes
  <2> QED BY <2>1
<1>3. F \in [Gathering \X Nat -> Gathering]
  BY <1>2
<1> HIDE DEF F
<1>4. PICK g \in [SUBSET (1..n) -> Gathering] : Traces(g, F, NothingGathered, q)
  BY <1>1, <1>3, FoldSteps
<1>5. ASSUME NEW s \in SUBSET (1..n), s # {}
      PROVE  g[s] = Gather(g[s \ {Max(s)}], q[Max(s)])
  <2>1. g[s] = F[<<g[s \ {Max(s)}], q[Max(s)]>>] /\ s \ {Max(s)} \in SUBSET (1..n) /\ Max(s) \in 1..n
    BY <1>1, <1>4, <1>5 DEF Traces
  <2>2. g[s \ {Max(s)}] \in Gathering /\ q[Max(s)] \in Nat
    BY <2>1
  <2> QED BY <1>2, <2>1, <2>2
<1>6. g[{}] = NothingGathered
  BY <1>4 DEF Traces
<1>7. Made(g)
  BY <1>5, <1>6
<1> DEFINE made == CHOOSE k : Made(k)
<1>8. FoldLeft(Gather, NothingGathered, q) = made[1..n]
  BY <1>1 DEF FoldLeft, MapThenFoldSet
<1>9. Made(made)
  <2> HIDE DEF Made
  <2> QED BY <1>7
<1>10. made[1..n] = g[1..n]
  <2> HIDE DEF n, made
  <2>1. made[{}] = NothingGathered
        /\ \A s \in SUBSET (1..n) : s # {} => made[s] = Gather(made[s \ {Max(s)}], q[Max(s)])
    BY <1>9
  <2> HIDE DEF Made
  <2>2. \A s \in SUBSET (1..n) : s # {} /\ made[s \ {Max(s)}] = g[s \ {Max(s)}] => made[s] = g[s]
    BY <1>5, <2>1
  <2> QED BY <1>1, <1>6, <2>1, <2>2, FoldSame
<1> HIDE DEF made, Made
<1>11. g[1..0] = NothingGathered
  BY <1>4 DEF Traces
<1>12. \A i \in 0..n : g[1..i] \in Gathering
  <2>1. \A i \in 0..n : 1..i \in SUBSET (1..n)
    BY <1>1
  <2> HIDE DEF n
  <2> QED BY <1>4, <2>1
<1>13. ASSUME NEW i \in 1..n PROVE g[1..i] = Gather(g[1..(i - 1)], q[i])
  <2>1. g[1..i] = F[<<g[1..(i - 1)], q[i]>>] /\ i - 1 \in 0..n
    BY <1>1, <1>4 DEF Traces
  <2>2. g[1..(i - 1)] \in Gathering /\ q[i] \in Nat
    BY <1>12, <2>1
  <2> QED BY <1>2, <2>1, <2>2
<1> QED BY <1>8, <1>10, <1>11, <1>12, <1>13 DEF n

\* Each line is held as long as the scanner has stopped at none.
LEMMA GatheredMore ==
  ASSUME NEW text \in Seq(Nat), NEW i \in 1..Len(text), NEW s, Gathered(s, text, i - 1)
  PROVE  Gathered(Gather(s, text[i]), text, i)
<1> DEFINE x == text[i]
           t == Gather(s, x)
<1>1. x \in Nat /\ MaxToken \in Nat /\ i \in Nat
  BY ScanAssumption
<1>2. s \in Gathering /\ Within(s)
  BY DEF Gathered
<1>3. PICK m \in 0..(i - 1) :
        /\ Held(s) = Prefix(text, m)
        /\ \A j \in 1..m : text[j] <= MaxToken
        /\ IF s.tooLong THEN m < i - 1 /\ text[m + 1] > MaxToken ELSE m = i - 1
  BY DEF Gathered
<1>4. s.tooLong \in BOOLEAN
  BY <1>2 DEF Gathering
<1> HIDE DEF x
<1>5. CASE s.tooLong \/ x > MaxToken
  <2>1. t \in Gathering /\ t.tooLong /\ t.chunks = s.chunks /\ t.buffer = s.buffer
    BY <1>1, <1>2, <1>5, GatherTakes
  <2> HIDE DEF t
  <2>2. Held(t) = Prefix(text, m) /\ Within(t)
    BY <1>2, <1>3, <2>1 DEF Held, Within
  <2>3. m \in 0..i /\ m < i /\ text[m + 1] > MaxToken
    <3>1. CASE s.tooLong
      BY <1>1, <1>3, <3>1
    <3>2. CASE ~s.tooLong
      <4>1. m = i - 1 /\ m + 1 = i
        BY <1>1, <1>3, <3>2
      <4> QED BY <1>1, <1>5, <3>2, <4>1 DEF x
    <3> QED BY <3>1, <3>2
  <2>4. Gathered(t, text, i)
    BY <1>3, <2>1, <2>2, <2>3 DEF Gathered
  <2> QED BY <2>4 DEF t, x
<1>6. CASE ~(s.tooLong \/ x > MaxToken)
  <2>1. Takes(s, x, t)
    BY <1>1, <1>2, <1>6, GatherTakes
  <2> HIDE DEF t
  <2>2. t \in Gathering /\ t.tooLong = FALSE
    BY <2>1 DEF Takes
  <2>3. Held(t) = More(Held(s), x) /\ Within(t)
    BY <1>1, <1>2, <2>1, TakesHeld, TakesWithin
  <2>4. m = i - 1
    BY <1>3, <1>6
  <2>5. Held(t) = Prefix(text, i)
    BY <1>3, <2>3, <2>4, PrefixIs DEF x
  <2>6. \A j \in 1..i : text[j] <= MaxToken
    <3>1. ASSUME NEW j \in 1..i PROVE text[j] <= MaxToken
      <4>1. j = i \/ j \in 1..m
        BY <1>1, <2>4
      <4>2. x <= MaxToken
        BY <1>1, <1>6
      <4> QED BY <1>3, <4>1, <4>2 DEF x
    <3> QED BY <3>1
  <2>7. i \in 0..i
    BY <1>1
  <2>8. Gathered(t, text, i)
    BY <2>2, <2>3, <2>5, <2>6, <2>7 DEF Gathered
  <2> QED BY <2>8 DEF t, x
<1> QED BY <1>5, <1>6

LEMMA FirstTooLongIs ==
  ASSUME NEW text \in Seq(Nat)
  PROVE  /\ (\A j \in 1..Len(text) : text[j] <= MaxToken) => FirstTooLong(text) = 0
         /\ \A m \in 0..(Len(text) - 1) :
              text[m + 1] > MaxToken /\ (\A j \in 1..m : text[j] <= MaxToken)
                => FirstTooLong(text) = m + 1
<1> DEFINE n == Len(text)
           I == {j \in 1..n : text[j] > MaxToken}
<1>1. n \in Nat /\ MaxToken \in Nat /\ \A j \in 1..n : text[j] \in Nat
  BY ScanAssumption
<1>2. FirstTooLong(text) = IF I # {} THEN Min(I) ELSE 0
  BY DEF FirstTooLong, SelectInSeq
<1>3. ASSUME \A j \in 1..n : text[j] <= MaxToken PROVE FirstTooLong(text) = 0
  <2>1. I = {}
    BY <1>1, <1>3
  <2> QED BY <1>2, <2>1
<1>4. ASSUME NEW m \in 0..(n - 1), text[m + 1] > MaxToken, \A j \in 1..m : text[j] <= MaxToken
      PROVE  FirstTooLong(text) = m + 1
  <2>1. I \in SUBSET (1..n) /\ m + 1 \in I
    BY <1>1, <1>4
  <2>2. \A j \in I : j >= m + 1
    <3>1. ASSUME NEW j \in I, j < m + 1 PROVE FALSE
      <4>1. j \in 1..m /\ j \in 1..n
        BY <1>1, <3>1
      <4>2. text[j] \in Nat /\ text[j] <= MaxToken /\ text[j] > MaxToken
        <5>1. text[j] > MaxToken
          BY <3>1
        <5>2. text[j] <= MaxToken
          BY <1>4, <4>1
        <5> QED BY <1>1, <4>1, <5>1, <5>2
      <4>3. \A a, b \in Nat : a <= b => ~(a > b)
        OBVIOUS
      <4> QED BY <1>1, <4>2, <4>3
    <3> QED BY <1>1, <3>1
  <2>3. I # {}
    BY <2>1
  <2> HIDE DEF I
  <2>4. Min(I) \in I /\ \A j \in I : Min(I) <= j
    BY <1>1, <2>1, <2>3, MinOf
  <2>5. Min(I) <= m + 1 /\ Min(I) >= m + 1 /\ Min(I) \in 1..n
    BY <2>1, <2>2, <2>4
  <2>6. Min(I) = m + 1
    BY <1>1, <2>5
  <2> QED BY <1>2, <2>3, <2>6
<1> QED BY <1>3, <1>4

\* The lines of a text that fit the scanner, up to the first one that does not.
UpToTooLong(text) ==
  IF FirstTooLong(text) # 0 THEN Prefix(text, FirstTooLong(text) - 1) ELSE text

\* What gitChunk makes of any text: its lines up to the first too long one, none in too long a chunk.
THEOREM GitChunkIs ==
  ASSUME NEW text \in Seq(Nat)
  PROVE  /\ FlattenSeq(gitChunk(text)) = UpToTooLong(text)
         /\ \A c \in DOMAIN gitChunk(text) : Short(gitChunk(text)[c])
<1> DEFINE n == Len(text)
           s == FoldLeft(Gather, NothingGathered, text)
<1>1. PICK g \in [SUBSET (1..n) -> Gathering] :
        /\ g[1..0] = NothingGathered /\ g[1..n] = s
        /\ \A i \in 1..n : g[1..i] = Gather(g[1..(i - 1)], text[i])
  BY GatherSteps
<1>2. n \in Nat
  OBVIOUS
<1>3. gitChunk(text) = IF s.buffer = <<>> THEN s.chunks ELSE Append(s.chunks, s.buffer)
  BY DEF gitChunk, NothingGathered
<1> HIDE DEF s
<1> DEFINE G == {i \in 0..n : Gathered(g[1..i], text, i)}
<1>4. 0 \in G
  <2>1. Gathered(NothingGathered, text, 0)
    <3> DEFINE b == NothingGathered
    <3>1. b \in Gathering /\ b.chunks = <<>> /\ b.buffer = <<>> /\ b.tooLong = FALSE
      BY DEF NothingGathered, Gathering
    <3> HIDE DEF b
    <3>2. Both(<<>>, <<>>) = <<>>
      <4>1. <<>> \in Seq(Nat)
        OBVIOUS
      <4>2. \A d \in Seq(Nat) : Both(d, <<>>) = d
        BY GlueIs
      <4> HIDE DEF b
      <4> QED BY <4>1, <4>2, Zenon
    <3>3. Held(b) = Prefix(text, 0)
      BY <3>1, <3>2, FlattenIs, PrefixIs DEF Held
    <3>4. Within(b)
      BY <3>1, TextLenIs, ScanAssumption DEF Within
    <3>5. Gathered(b, text, 0)
      BY <3>1, <3>3, <3>4 DEF Gathered
    <3> QED BY <3>5 DEF b
  <2> QED BY <1>1, <1>2, <2>1
<1>5. ASSUME NEW i \in 1..n, i - 1 \in G PROVE i \in G
  <2>1. i \in 0..n /\ Gathered(g[1..(i - 1)], text, i - 1)
    BY <1>2, <1>5
  <2>2. Gathered(Gather(g[1..(i - 1)], text[i]), text, i)
    BY <2>1, GatheredMore
  <2> QED BY <1>1, <2>1, <2>2
<1>6. Gathered(s, text, n)
  <2>1. \A i \in 0..n : i \in G
    <3> HIDE DEF G, n
    <3> QED BY <1>2, <1>4, <1>5, UpTo
  <2>2. n \in G
    BY <1>2, <2>1
  <2> QED BY <1>1, <2>2
<1>7. PICK m \in 0..n :
        /\ Held(s) = Prefix(text, m)
        /\ \A j \in 1..m : text[j] <= MaxToken
        /\ IF s.tooLong THEN m < n /\ text[m + 1] > MaxToken ELSE m = n
  BY <1>6 DEF Gathered
<1>8. s.chunks \in Seq(Seq(Nat)) /\ s.buffer \in Seq(Nat) /\ Within(s)
  BY <1>6 DEF Gathered, Gathering
<1>9. Held(s) = UpToTooLong(text)
  <2>1. CASE s.tooLong
    <3>1. m \in 0..(n - 1) /\ text[m + 1] > MaxToken
      BY <1>2, <1>7, <2>1
    <3>2. FirstTooLong(text) = m + 1
      BY <1>7, <3>1, FirstTooLongIs
    <3>3. m + 1 # 0 /\ (m + 1) - 1 = m
      OBVIOUS
    <3> QED BY <1>7, <3>2, <3>3 DEF UpToTooLong
  <2>2. CASE ~s.tooLong
    <3>1. m = n /\ \A j \in 1..n : text[j] <= MaxToken
      BY <1>7, <2>2
    <3>2. FirstTooLong(text) = 0
      BY <3>1, FirstTooLongIs
    <3> QED BY <1>7, <3>1, <3>2, PrefixIs DEF UpToTooLong
  <2> QED BY <2>1, <2>2
<1> DEFINE q == s.chunks
           c == s.buffer
<1>10. /\ FlattenSeq(q) \in Seq(Nat) /\ FlattenSeq(Append(q, c)) = Both(FlattenSeq(q), c)
       /\ Held(s) = Both(FlattenSeq(q), c)
  <2>1. q \in Seq(Seq(Nat)) /\ c \in Seq(Nat) /\ Held(s) = Both(FlattenSeq(q), c)
    BY <1>8 DEF Held
  <2> HIDE DEF q, c
  <2> QED BY <2>1, FlattenIs
<1>11. Short(c) /\ \A i \in DOMAIN q : Short(q[i])
  <2>1. TextLen(c) <= ChunkSize /\ \A i \in DOMAIN q : Short(q[i])
    BY <1>8 DEF Within
  <2> HIDE DEF q, c
  <2>2. Short(c)
    BY <2>1 DEF Short
  <2> QED BY <2>1, <2>2
<1>12. q \in Seq(Seq(Nat)) /\ c \in Seq(Nat) /\ gitChunk(text) = IF c = <<>> THEN q ELSE Append(q, c)
  BY <1>3, <1>8
<1> HIDE DEF q, c
<1>13. \A i \in DOMAIN Append(q, c) : Short(Append(q, c)[i])
  BY <1>11, <1>12, ShortAppend
<1>14. FlattenSeq(gitChunk(text)) = Held(s)
  BY <1>10, <1>12, GlueIs
<1>15. \A i \in DOMAIN gitChunk(text) : Short(gitChunk(text)[i])
  BY <1>11, <1>12, <1>13
<1> QED BY <1>9, <1>14, <1>15

(***************************************************************************)
(* However large a diff is and whatever its lines, the chunks it is cut    *)
(* into are its lines in their order, up to the first one the scanner      *)
(* cannot hold, and only a chunk of one line is longer than ChunkSize.     *)
(***************************************************************************)
THEOREM NoLineLost == Spec => []ChunksCoverDiffs
<1>1. ParseInv => ChunksCoverDiffs
  <2> SUFFICES ASSUME ParseInv, NEW i \in DOMAIN diffChan
               PROVE  LET d == diffChan[i]
                          chunks == ChunksOf(d)
                          large == ~staged /\ TextLen(d.text) > ChunkSize + PeekSize
                      IN /\ FlattenSeq(chunks) =
                              IF large /\ FirstTooLong(d.text) # 0
                              THEN SubSeq(d.text, 1, FirstTooLong(d.text) - 1) ELSE d.text
                         /\ large => \A c \in DOMAIN chunks :
                                       Len(chunks[c]) = 1 \/ TextLen(chunks[c]) <= ChunkSize
    BY DEF ChunksCoverDiffs
  <2> DEFINE text == diffChan[i].text
             large == ~staged /\ TextLen(text) > ChunkSize + PeekSize
             chunks == ChunksOf(diffChan[i])
  <2>1. text \in Seq(Nat)
    <3>1. diffChan \in Seq(Diff)
      BY DEF ParseInv, ParseTypes
    <3>2. diffChan[i] \in Diff
      BY <3>1
    <3> QED BY <3>2 DEF Diff
  <2>2. chunks = IF large THEN gitChunk(text) ELSE <<text>>
    BY DEF ChunksOf
  <2> HIDE DEF text, large, chunks
  <2>3. CASE large
    <3>1. FlattenSeq(chunks) = UpToTooLong(text) /\ \A c \in DOMAIN chunks : Short(chunks[c])
      BY <2>1, <2>2, <2>3, GitChunkIs
    <3>2. \A c \in DOMAIN chunks : Len(chunks[c]) = 1 \/ TextLen(chunks[c]) <= ChunkSize
      BY <3>1 DEF Short
    <3>3. FlattenSeq(chunks) = IF FirstTooLong(text) # 0 THEN SubSeq(text, 1, FirstTooLong(text) - 1) ELSE text
      BY <3>1 DEF UpToTooLong, Prefix
    <3> QED BY <2>3, <3>2, <3>3 DEF text, large, chunks
  <2>4. CASE ~large
    <3>1. <<>> \in Seq(Seq(Nat)) /\ Append(<<>>, text) = <<text>>
      BY <2>1
    <3>2. FlattenSeq(Append(<<>>, text)) = Both(FlattenSeq(<<>>), text) /\ FlattenSeq(<<>>) = <<>>
      BY <2>1, <3>1, FlattenIs
    <3>3. Both(<<>>, text) = text
      BY <2>1, GlueIs
    <3>4. FlattenSeq(chunks) = text
      BY <2>2, <2>4, <3>1, <3>2, <3>3
    <3> QED BY <2>4, <3>4 DEF text, large, chunks
  <2> QED BY <2>3, <2>4
<1> QED BY <1>1, ParseInvariant, PTL

============================================================================

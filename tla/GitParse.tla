------------------------------ MODULE GitParse ------------------------------
(***************************************************************************)
(* The parser of `git log -p` and `git diff --cached`                      *)
(* (pkg/gitparse/gitparse.go): FromReader reads the output of git line by  *)
(* line, a state machine decides what a line is from the line before it,   *)
(* and every hunk with text becomes a Diff on diffChan, on which the       *)
(* goroutine blocks when the channel is full.                              *)
(*                                                                         *)
(* A line is [t, n]: what its first characters say, and the number the     *)
(* parser takes from it (the commit's hash, the hunk's number, the file,   *)
(* or the length of a line of text).  Text is the sequence of the lengths  *)
(* of its lines.                                                           *)
(***************************************************************************)
EXTENDS Naturals, Sequences, FiniteSets, SequencesExt

CONSTANTS
  MaxDiffSize,   \* Parser.maxDiffSize
  DiffCap,       \* capacity of diffChan
  MaxCommits,    \* bounds on what git shows: commits,
  MaxFiles,      \*   changed files,
  MaxHunks,      \*   hunks,
  MaxBody,       \*   lines of hunks,
  MaxJunk,       \*   lines of a kind the parser has no case for,
  Sizes,         \*   and the lengths of its lines of text
  MayCancel      \* whether the context may be cancelled

ASSUME GitAssumption ==
  /\ MaxDiffSize \in Nat /\ DiffCap \in Nat \ {0}
  /\ {MaxCommits, MaxFiles, MaxHunks, MaxBody, MaxJunk} \subseteq Nat
  /\ Sizes \subseteq Nat \ {0}
  /\ MayCancel \in BOOLEAN

VARIABLES
  staged,       \* isStaged: the output is that of git diff --cached
  git,          \* what git has shown so far
  ctxDone,      \* the context is done
  parser,       \* "loop", "cleanup", "closing", or "done": the channel is closed
  latestState,
  currentCommit,
  currentDiff,
  pending,      \* the diffs this iteration of the loop still has to send
  diffChan,
  owed,         \* the texts git has shown and nobody has received
  emitted       \* the commits a diff has been sent for

parserVars == <<parser, latestState, currentCommit, currentDiff, pending>>
parseVars == <<staged, git, ctxDone, parserVars, diffChan, owed, emitted>>

----------------------------------------------------------------------------
(* What git prints.  It is outside src/: the positions are those of the    *)
(* examples in gitparse_test.go.                                           *)

BodyText == {"ctx", "plus", "minus", "+++", "---"}

(***************************************************************************)
(* The lines that may follow a position, and the position they lead to.    *)
(* In the text of a hunk an added "++ x" reads as "+++ x" and a removed    *)
(* "-- x" as "--- x": what they are depends on where they stand.           *)
(***************************************************************************)
Grammar ==
  [start |-> IF staged THEN {<<"diff", "diff">>} ELSE {<<"commit", "commit">>},
   commit |-> {<<"merge", "merge">>, <<"author", "author">>},
   merge |-> {<<"author", "author">>},
   author |-> {<<"date", "date">>},
   date |-> {<<"blank", "title">>},
   title |-> {<<"msg", "message">>, <<"diff", "diff">>, <<"commit", "commit">>},
   message |-> {<<"blank", "rule">>},
   rule |-> {<<"diff", "diff">>, <<"commit", "commit">>, <<"junk", "rule">>},
   diff |-> {<<"mode", "mode">>, <<"index", "index">>},
   mode |-> {<<"index", "index">>, <<"---", "from">>, <<"diff", "diff">>, <<"junk", "mode">>,
             <<"blank", "gap">>},
   index |-> {<<"binary", "binary">>, <<"badbinary", "binary">>, <<"---", "from">>,
              <<"diff", "diff">>, <<"blank", "gap">>},
   binary |-> {<<"diff", "diff">>, <<"blank", "gap">>},
   from |-> {<<"+++", "to">>, <<"bad+++", "to">>},
   to |-> {<<"@@", "hunk">>},
   hunk |-> {<<t, "body">> : t \in BodyText},
   body |-> {<<t, "body">> : t \in BodyText \cup {"warn"}}
              \cup {<<"@@", "hunk">>, <<"diff", "diff">>, <<"blank", "gap">>},
   gap |-> {<<"commit", "commit">>}]

\* Where the output may end.
MayEnd == {"start", "title", "message", "mode", "index", "binary", "body"}

\* The number on a line: a file of number 0 is /dev/null, that is, deleted.
Numbers(t, g) ==
  CASE t = "commit" -> {g.commit + 1}
    [] t = "@@" -> {g.hunk + 1}
    [] t = "binary" \/ (t = "+++" /\ g.at = "from") -> {0, g.file}
    [] t = "plus" \/ (t = "+++" /\ g.at # "from") -> Sizes
    [] OTHER -> {0}

\* Within the bounds, and git prints nothing that it could then not go on from.
RoomForHunk(g) == g.hunk < MaxHunks /\ g.body < MaxBody
Allowed(t, g) ==
  /\ t = "commit" => g.commit < MaxCommits
  /\ t = "diff" => g.file < MaxFiles
  /\ t = "@@" \/ (t = "---" /\ g.at \in {"mode", "index"}) => RoomForHunk(g)
  /\ g.at \in {"hunk", "body"} /\ t \in BodyText \cup {"warn"} =>
       g.body < MaxBody /\ (g.path = 0 => t = "minus")
  /\ t = "junk" => g.junk < MaxJunk
  /\ t = "blank" /\ g.at # "date" =>
       ~staged /\ (g.commit < MaxCommits \/ (g.at = "message" /\ g.file < MaxFiles))

Shows == \* the lines git may print next, each with the position it leads to
  UNION {{[t |-> f[1], n |-> n, to |-> f[2]] : n \in Numbers(f[1], git)} :
           f \in {e \in Grammar[git.at] : Allowed(e[1], git)}}

\* What git keeps of a line: where it is, and whether the header of the file was one
\* the parser does not know (lost).
GitAfter(l) ==
  LET g == [git EXCEPT !.at = l.to] IN
  CASE l.t = "commit" -> [g EXCEPT !.commit = l.n, !.lost = FALSE]
    [] l.t = "diff" -> [g EXCEPT !.file = @ + 1, !.lost = FALSE]
    [] l.t = "junk" -> [g EXCEPT !.junk = @ + 1, !.lost = TRUE]
    [] l.t \in {"bad+++", "badbinary"} -> [g EXCEPT !.lost = TRUE]
    [] l.t = "+++" /\ l.to = "to" -> [g EXCEPT !.path = l.n]
    [] l.t = "@@" -> [g EXCEPT !.hunk = l.n, !.text = FALSE]
    [] l.to = "body" -> [g EXCEPT !.body = @ + 1,
                                  !.text = @ \/ l.t \in {"ctx", "plus", "+++"}]
    [] OTHER -> g

(***************************************************************************)
(* What the parser owes for a line: the added lines of a hunk, and a line  *)
(* break for each line of context, of every file whose header it knows; a  *)
(* binary file by its name.                                                *)
(***************************************************************************)
OwedAfter(l) ==
  IF git.lost THEN owed
  ELSE IF l.to = "body" /\ l.t \in {"ctx", "plus", "+++"}
  THEN LET length == IF l.t = "ctx" THEN 1 ELSE l.n IN
       IF git.text
       THEN [owed EXCEPT ![Len(owed)].text = Append(@, length)]
       ELSE Append(owed, [commit |-> git.commit, path |-> git.path, line |-> git.hunk,
                          binary |-> FALSE, text |-> <<length>>])
  ELSE IF l.t = "binary" /\ l.n # 0
  THEN Append(owed, [commit |-> git.commit, path |-> l.n, line |-> 0,
                     binary |-> TRUE, text |-> <<>>])
  ELSE owed

----------------------------------------------------------------------------
(* The line predicates: what a line is, after the state before it.         *)

isMergeLine(l) == ~staged /\ latestState = "CommitLine" /\ l.t = "merge"
isCommitLine(l) ==
  /\ ~staged
  /\ latestState \in {"Initial", "MessageStartLine", "MessageEndLine", "ModeLine", "IndexLine",
                      "BinaryFileLine", "ToFileLine", "HunkContentLine", "ParseFailure"}
  /\ l.t = "commit"
isAuthorLine(l) == ~staged /\ latestState \in {"CommitLine", "MergeLine"} /\ l.t = "author"
isDateLine(l) == ~staged /\ latestState = "AuthorLine" /\ l.t = "date"
isMessageStartLine(l) == ~staged /\ latestState = "DateLine" /\ l.t = "blank"
isMessageLine(l) ==
  ~staged /\ latestState \in {"MessageStartLine", "MessageLine"} /\ l.t = "msg"
isMessageEndLine(l) == ~staged /\ latestState = "MessageLine" /\ l.t = "blank"
isDiffLine(l) == (latestState = "Initial" => staged) /\ l.t = "diff"
isModeLine(l) == latestState \in {"DiffLine", "ModeLine"} /\ l.t = "mode"
isIndexLine(l) == latestState \in {"DiffLine", "ModeLine"} /\ l.t = "index"
isBinaryLine(l) == latestState = "IndexLine" /\ l.t \in {"binary", "badbinary"}
isFromFileLine(l) == latestState \in {"IndexLine", "ModeLine"} /\ l.t = "---"
isToFileLine(l) == latestState = "FromFileLine" /\ l.t \in {"+++", "bad+++"}
isHunkLineNumberLine(l) == latestState \in {"ToFileLine", "HunkContentLine"} /\ l.t = "@@"
InHunk == latestState \in {"HunkLineNumberLine", "HunkContentLine"}
isHunkContextLine(l) == InHunk /\ l.t \in {"ctx", "msg"}
isHunkPlusLine(l) == InHunk /\ l.t \in {"plus", "+++", "bad+++"}
isHunkMinusLine(l) == InHunk /\ l.t \in {"minus", "---"}
isHunkNewlineWarningLine(l) == latestState = "HunkContentLine" /\ l.t = "warn"
isHunkEmptyLine(l) == InHunk /\ l.t = "blank"
isCommitSeparatorLine(l) ==
  latestState \in {"ModeLine", "IndexLine", "BinaryFileLine", "ToFileLine"} /\ l.t = "blank"

----------------------------------------------------------------------------
(* Diffs.                                                                  *)

TextLen(text) == FoldLeft(LAMBDA x, y : x + y, 0, text)

newDiff(commit) == [commit |-> commit, path |-> 0, line |-> 0, binary |-> FALSE, text |-> <<>>]
NoCommit == [made |-> FALSE, hash |-> 0, hasDiffs |-> FALSE]
HasText(d) == d.text # <<>> \/ d.binary

\* Sends after the line, and the commits they are sent for.
Sending(diffs) ==
  /\ pending' = diffs
  /\ emitted' = emitted \cup {diffs[i].commit : i \in DOMAIN diffs}

Current == IF HasText(currentDiff) THEN <<currentDiff>> ELSE <<>>

\* No empty diff stands for a commit that has none.
CompletedNoEmpty == Current

\* What the line sends before the commit it starts.
Completed ==
  Current \o (IF currentCommit.made /\ ~currentCommit.hasDiffs /\ Current = <<>>
              THEN <<newDiff(currentCommit.hash)>> ELSE <<>>)

CommitCase(l) ==
  /\ isCommitLine(l)
  /\ Sending(Completed)
  /\ currentCommit' = [made |-> TRUE, hash |-> l.n, hasDiffs |-> FALSE]
  /\ currentDiff' = newDiff(l.n)
  /\ latestState' = "CommitLine"

\* The cases that only note the state.
HeaderState(l) ==
  CASE isMergeLine(l) -> "MergeLine"
    [] isAuthorLine(l) -> "AuthorLine"
    [] isDateLine(l) -> "DateLine"
    [] isMessageStartLine(l) -> "MessageStartLine"
    [] isMessageLine(l) -> "MessageLine"
    [] isMessageEndLine(l) -> "MessageEndLine"
    [] isModeLine(l) -> "ModeLine"
    [] isIndexLine(l) -> "IndexLine"
    [] isFromFileLine(l) -> "FromFileLine"
    [] isHunkMinusLine(l) \/ isHunkNewlineWarningLine(l) \/ isHunkEmptyLine(l)
         -> "HunkContentLine"
    [] isCommitSeparatorLine(l) -> latestState
    [] OTHER -> "none"

HeaderCase(l) ==
  /\ HeaderState(l) # "none"
  /\ latestState' = HeaderState(l)
  /\ Sending(<<>>)
  /\ UNCHANGED <<currentCommit, currentDiff>>

\* The first diff of staged changes, or of a log that starts with junk, has no commit line.
DiffCase(l) ==
  /\ isDiffLine(l)
  /\ latestState' = "DiffLine"
  /\ Sending(Current)
  /\ currentCommit' = [currentCommit EXCEPT !.made = TRUE,
                                            !.hasDiffs = @ \/ Current # <<>>]
  /\ currentDiff' = newDiff(currentCommit.hash)

BinaryCase(l) ==
  /\ isBinaryLine(l)
  /\ Sending(<<>>)
  /\ latestState' = IF l.t = "badbinary" THEN "ParseFailure" ELSE "BinaryFileLine"
  /\ currentDiff' = IF l.t = "binary" /\ l.n # 0
                    THEN [currentDiff EXCEPT !.path = l.n, !.binary = TRUE]
                    ELSE currentDiff
  /\ UNCHANGED currentCommit

ToFileCase(l) ==
  /\ isToFileLine(l)
  /\ Sending(<<>>)
  /\ latestState' = IF l.t = "bad+++" THEN "ParseFailure" ELSE "ToFileLine"
  /\ currentDiff' = IF l.t = "+++" THEN [currentDiff EXCEPT !.path = l.n] ELSE currentDiff
  /\ UNCHANGED currentCommit

\* The path of the file is only on the first of its hunks.
HunkCaseForgetsPath(l) ==
  /\ isHunkLineNumberLine(l)
  /\ latestState' = "HunkLineNumberLine"
  /\ Sending(Current)
  /\ currentDiff' = [newDiff(currentCommit.hash) EXCEPT !.line = l.n]
  /\ UNCHANGED currentCommit

\* The hunk before is sent, but hasDiffs is left as it is.
HunkCase(l) ==
  /\ isHunkLineNumberLine(l)
  /\ latestState' = "HunkLineNumberLine"
  /\ Sending(Current)
  /\ currentDiff' = [newDiff(currentCommit.hash) EXCEPT !.path = currentDiff.path, !.line = l.n]
  /\ UNCHANGED currentCommit

ContentCase(l) ==
  /\ isHunkContextLine(l) \/ isHunkPlusLine(l)
  /\ latestState' = "HunkContentLine"
  /\ Sending(<<>>)
  /\ currentDiff' = [currentDiff EXCEPT !.text =
                       Append(@, IF isHunkContextLine(l) THEN 1 ELSE l.n)]
  /\ UNCHANGED currentCommit

\* "Skip ahead until we find the next diff or commit."
InvalidCase(l) ==
  /\ HeaderState(l) = "none"
  /\ ~isCommitLine(l) /\ ~isDiffLine(l) /\ ~isBinaryLine(l) /\ ~isToFileLine(l)
  /\ ~isHunkLineNumberLine(l) /\ ~isHunkContextLine(l) /\ ~isHunkPlusLine(l)
  /\ latestState' = "ParseFailure"
  /\ Sending(<<>>)
  /\ UNCHANGED <<currentCommit, currentDiff>>

----------------------------------------------------------------------------
ParseInit ==
  /\ staged \in BOOLEAN
  /\ git = [at |-> "start", commit |-> 0, file |-> 0, path |-> 0, hunk |-> 0, body |-> 0,
            text |-> FALSE, lost |-> FALSE, junk |-> 0]
  /\ ctxDone = FALSE
  /\ parser = "loop"
  /\ latestState = "Initial"
  /\ currentCommit = NoCommit
  /\ currentDiff = newDiff(0)
  /\ pending = <<>> /\ diffChan = <<>>
  /\ owed = <<>> /\ emitted = {}

Case(l) ==
  \/ CommitCase(l) \/ HeaderCase(l) \/ DiffCase(l) \/ BinaryCase(l) \/ ToFileCase(l)
  \/ HunkCase(l) \/ ContentCase(l) \/ InvalidCase(l)

\* One iteration of the loop.  A diff over the size limit ends it for good.
ReadLine ==
  /\ parser = "loop" /\ pending = <<>> /\ ~ctxDone
  /\ \E l \in Shows :
       /\ Case(l)
       /\ git' = GitAfter(l)
       /\ owed' = OwedAfter(l)
  /\ parser' = IF TextLen(currentDiff'.text) > MaxDiffSize THEN "cleanup" ELSE "loop"
  /\ UNCHANGED <<staged, ctxDone, diffChan>>

Send ==
  /\ pending # <<>> /\ Len(diffChan) < DiffCap
  /\ diffChan' = Append(diffChan, Head(pending))
  /\ pending' = Tail(pending)
  /\ UNCHANGED <<staged, git, ctxDone, parser, latestState, currentCommit, currentDiff,
                 owed, emitted>>

\* The output has ended, or the context is done.
StopReading ==
  /\ parser = "loop" /\ pending = <<>>
  /\ ctxDone \/ git.at \in MayEnd
  /\ parser' = "cleanup"
  /\ UNCHANGED <<staged, git, ctxDone, latestState, currentCommit, currentDiff, pending,
                 diffChan, owed, emitted>>

cleanupParse ==
  /\ parser = "cleanup" /\ pending = <<>>
  /\ Sending(IF HasText(currentDiff)
             THEN <<[currentDiff EXCEPT !.commit = currentCommit.hash]>> ELSE <<>>)
  /\ currentDiff' = newDiff(0)
  /\ parser' = "closing"
  /\ UNCHANGED <<staged, git, ctxDone, latestState, currentCommit, diffChan, owed>>

CloseChannel ==
  /\ parser = "closing" /\ pending = <<>>
  /\ parser' = "done"
  /\ UNCHANGED <<staged, git, ctxDone, latestState, currentCommit, currentDiff, pending,
                 diffChan, owed, emitted>>

Cancel ==
  /\ MayCancel /\ ~ctxDone
  /\ ctxDone' = TRUE
  /\ UNCHANGED <<staged, git, parserVars, diffChan, owed, emitted>>

Parse == ReadLine \/ Send \/ StopReading \/ cleanupParse \/ CloseChannel
=============================================================================

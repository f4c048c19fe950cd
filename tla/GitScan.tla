------------------------------ MODULE GitScan ------------------------------
(***************************************************************************)
(* ScanCommits and ScanStaged (pkg/sources/git/git.go): the goroutine of   *)
(* the source ranges over the channel of the parser's diffs and reports    *)
(* their text as chunks.  It stops at the depth limit, at the base commit  *)
(* or when a chunk cannot be reported; the parser is not told.             *)
(***************************************************************************)
EXTENDS GitParse

CONSTANTS
  Options,     \* pairs of scanOptions.MaxDepth and BaseHash; 0 is no limit and no base
  Excluded,    \* files the filter does not pass
  ChunkSize, PeekSize,
  MaxToken     \* the longest line bufio.Scanner returns

ASSUME ScanAssumption ==
  /\ Options \subseteq Nat \X Nat
  /\ ChunkSize \in Nat \ {0} /\ PeekSize \in Nat /\ MaxToken \in Nat

VARIABLES
  maxDepth, base,  \* the scan options
  scan,            \* "range" or "done"
  depth,           \* commits met so far
  lastCommitHash,
  reachedBase,
  stop,            \* why the scan has ended: "none", "end", "depth", "base" or "error"
  stopAt           \* the commit of the diff it stopped at

scanVars == <<maxDepth, base, scan, depth, lastCommitHash, reachedBase, stop, stopAt>>
vars == <<parseVars, scanVars>>

----------------------------------------------------------------------------
\* The lines gathered before a long one are sent after it.
GatherOutOfOrder(s, length) ==
  LET full == length + TextLen(s.buffer) > ChunkSize
      sent == IF full /\ s.buffer # <<>> THEN Append(s.chunks, s.buffer) ELSE s.chunks
      kept == IF full THEN <<>> ELSE s.buffer
  IN IF s.tooLong \/ length > MaxToken THEN [s EXCEPT !.tooLong = TRUE]
     ELSE IF length > ChunkSize
     THEN [s EXCEPT !.chunks = Append(s.chunks, <<length>>)]
     ELSE [s EXCEPT !.chunks = sent, !.buffer = Append(kept, length)]

(***************************************************************************)
(* gitChunk: the lines of a large diff are gathered into chunks of at most *)
(* ChunkSize.  A longer line is a chunk of its own, and one the scanner    *)
(* cannot hold ends the loop, after which what is gathered is still sent.  *)
(***************************************************************************)
Gather(s, length) ==
  LET full == length > ChunkSize \/ length + TextLen(s.buffer) > ChunkSize
      sent == IF full /\ s.buffer # <<>> THEN Append(s.chunks, s.buffer) ELSE s.chunks
      kept == IF full THEN <<>> ELSE s.buffer
  IN IF s.tooLong \/ length > MaxToken THEN [s EXCEPT !.tooLong = TRUE]
     ELSE IF length > ChunkSize
     THEN [s EXCEPT !.chunks = Append(sent, <<length>>), !.buffer = kept]
     ELSE [s EXCEPT !.chunks = sent, !.buffer = Append(kept, length)]

gitChunk(text) ==
  LET s == FoldLeft(Gather, [chunks |-> <<>>, buffer |-> <<>>, tooLong |-> FALSE], text)
  IN IF s.buffer = <<>> THEN s.chunks ELSE Append(s.chunks, s.buffer)

\* The chunks of a diff that is not binary.
ChunksOf(d) ==
  IF ~staged /\ TextLen(d.text) > ChunkSize + PeekSize THEN gitChunk(d.text) ELSE <<d.text>>

----------------------------------------------------------------------------
ScanInit ==
  /\ \E o \in Options : maxDepth = o[1] /\ base = o[2]
  /\ scan = "range" /\ depth = 0 /\ lastCommitHash = 0 /\ reachedBase = FALSE
  /\ stop = "none" /\ stopAt = 0

Take == \* the next diff leaves the channel
  /\ scan = "range" /\ diffChan # <<>>
  /\ diffChan' = Tail(diffChan)
  /\ owed' = IF HasText(Head(diffChan)) THEN Tail(owed) ELSE owed
  /\ UNCHANGED <<staged, git, ctxDone, parserVars, emitted, maxDepth, base>>

Stop(why, d) == scan' = "done" /\ stop' = why /\ stopAt' = d.commit

AtDepthLimit == maxDepth > 0 /\ depth >= maxDepth
AtBase(d) ==
  IF staged THEN reachedBase /\ d.commit # base ELSE base # 0 /\ d.commit = base

BreakLoop ==
  /\ Take
  /\ LET d == Head(diffChan) IN
     \/ /\ AtDepthLimit
        /\ Stop("depth", d) /\ UNCHANGED <<depth, lastCommitHash>>
     \/ /\ ~AtDepthLimit /\ AtBase(d)
        /\ Stop("base", d)
        \* ScanStaged counts the commit before it looks at the base.
        /\ depth' = IF staged /\ d.commit # lastCommitHash THEN depth + 1 ELSE depth
        /\ lastCommitHash' = IF staged THEN d.commit ELSE lastCommitHash
  /\ UNCHANGED reachedBase

\* Only large or text diffs are reported as chunks; a binary file goes to handleBinary.
Reports(d) == d.path # 0 /\ d.path \notin Excluded /\ HasText(d)

\* Every diff is a commit of its own to the depth.
ScanDiffCountsDiffs ==
  /\ Take
  /\ LET d == Head(diffChan) IN
     /\ ~AtDepthLimit /\ ~AtBase(d)
     /\ depth' = depth + 1
     /\ lastCommitHash' = d.commit
     /\ reachedBase' = (reachedBase \/ (staged /\ base # 0 /\ d.commit = base))
     /\ UNCHANGED <<scan, stop, stopAt>>

(***************************************************************************)
(* The diff is scanned: chunks are reported one by one, and reporting      *)
(* fails only when the context is done.  gitChunk and handleBinary keep    *)
(* the error to themselves, so the loop ends only after the single chunk   *)
(* of a small diff.                                                        *)
(***************************************************************************)
ScanDiff ==
  /\ Take
  /\ LET d == Head(diffChan) IN
     /\ ~AtDepthLimit /\ ~AtBase(d)
     /\ depth' = IF d.commit # lastCommitHash THEN depth + 1 ELSE depth
     /\ lastCommitHash' = d.commit
     /\ reachedBase' = (reachedBase \/ (staged /\ base # 0 /\ d.commit = base))
     /\ \/ UNCHANGED <<scan, stop, stopAt>>
        \/ /\ ctxDone /\ Reports(d) /\ ~d.binary
           /\ staged \/ TextLen(d.text) <= ChunkSize + PeekSize
           /\ Stop("error", d)

\* The loop keeps looking at an empty channel, closed or not.
RangeSpins ==
  /\ scan = "range" /\ diffChan = <<>> /\ parser = "done"
  /\ reachedBase' = ~reachedBase
  /\ UNCHANGED <<parseVars, maxDepth, base, scan, depth, lastCommitHash, stop, stopAt>>

RangeEnds ==
  /\ scan = "range" /\ diffChan = <<>> /\ parser = "done"
  /\ scan' = "done" /\ stop' = "end"
  /\ UNCHANGED <<parseVars, maxDepth, base, depth, lastCommitHash, reachedBase, stopAt>>

ScanLoop == BreakLoop \/ ScanDiff \/ RangeEnds

Init == ParseInit /\ ScanInit
Next ==
  \/ Parse /\ UNCHANGED scanVars
  \/ Cancel /\ UNCHANGED scanVars
  \/ ScanLoop
Spec == Init /\ [][Next]_vars

\* The parser's goroutine runs and git's output is finite; the source's goroutine runs.
FairSpec == Spec /\ WF_vars(Parse /\ UNCHANGED scanVars) /\ WF_vars(ScanLoop)

----------------------------------------------------------------------------
(* Properties.                                                             *)

Diff == [commit : 0..MaxCommits, path : Nat, line : Nat, binary : BOOLEAN, text : Seq(Nat)]
TypeOK ==
  /\ parser \in {"loop", "cleanup", "closing", "done"}
  /\ staged \in BOOLEAN /\ ctxDone \in BOOLEAN
  /\ currentCommit \in [made : BOOLEAN, hash : 0..MaxCommits, hasDiffs : BOOLEAN]
  /\ currentDiff \in Diff
  /\ pending \in Seq(Diff) /\ Len(pending) <= 2
  /\ diffChan \in Seq(Diff) /\ Len(diffChan) <= DiffCap
  /\ owed \in Seq(Diff) /\ emitted \subseteq 0..MaxCommits
  /\ <<maxDepth, base>> \in Options
  /\ scan \in {"range", "done"} /\ depth \in Nat /\ lastCommitHash \in 0..MaxCommits
  /\ stop \in {"none", "end", "depth", "base", "error"} /\ stopAt \in 0..MaxCommits

(***************************************************************************)
(* The text of the log and nothing else reaches the scan, in the order of  *)
(* the log and under the right commit, file and hunk: the diffs in the     *)
(* channel, those still to be sent and the one being built are, together,  *)
(* what is owed.  Only the limit on the size of a diff may cut text off.   *)
(***************************************************************************)
KeepText(kept, d) == IF HasText(d) THEN Append(kept, d) ELSE kept
WithText(diffs) == FoldLeft(KeepText, <<>>, diffs)
OnTheWay == WithText(diffChan \o pending \o Current)
DiffsAsLogged == OnTheWay = owed

(***************************************************************************)
(* Every commit the log has moved past reaches the scan, even when it has  *)
(* no diff to show, so that the depth and the base can be found: the       *)
(* hasDiffs flag, which the hunks do not set, never hides one.             *)
(***************************************************************************)
CommitsReported == \A h \in 1..currentCommit.hash : h < currentCommit.hash => h \in emitted

(***************************************************************************)
(* The scan stops where the options say: not before the commit at the      *)
(* depth limit, and at the base with every newer commit behind it.         *)
(***************************************************************************)
StopsWhereAsked ==
  /\ maxDepth > 0 => depth <= maxDepth
  /\ ~staged => depth = lastCommitHash
  /\ stop = "depth" => lastCommitHash = maxDepth /\ stopAt >= maxDepth
  /\ stop = "base" => ~staged /\ stopAt = base /\ lastCommitHash = base - 1

(***************************************************************************)
(* A claim the code does not keep: with a maximum depth of n ("Maximum     *)
(* depth of commits to scan") the n-th commit is scanned like the others.  *)
(* The limit is looked at before the diff is known to be of a new commit,  *)
(* so only the first diff of that commit is.                               *)
(***************************************************************************)
DepthLimitWhole == stop = "depth" => stopAt > maxDepth

(***************************************************************************)
(* The chunks of a diff are its lines in order up to the first one the     *)
(* scanner cannot hold, and none is longer than ChunkSize but for a single *)
(* long line.                                                              *)
(***************************************************************************)
FirstTooLong(text) == SelectInSeq(text, LAMBDA x : x > MaxToken)
ChunksCoverDiffs ==
  \A i \in DOMAIN diffChan :
    LET d == diffChan[i]
        chunks == ChunksOf(d)
        large == ~staged /\ TextLen(d.text) > ChunkSize + PeekSize
    IN /\ FlattenSeq(chunks) =
            IF large /\ FirstTooLong(d.text) # 0
            THEN SubSeq(d.text, 1, FirstTooLong(d.text) - 1) ELSE d.text
       /\ large => \A c \in DOMAIN chunks :
                     Len(chunks[c]) = 1 \/ TextLen(chunks[c]) <= ChunkSize

(***************************************************************************)
(* ScanCommits returns, whatever it stops at and however full the channel  *)
(* of the parser is.                                                       *)
(***************************************************************************)
ScanReturns == <>(scan = "done")
=============================================================================

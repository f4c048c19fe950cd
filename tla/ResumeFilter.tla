---------------------------- MODULE ResumeFilter ----------------------------
(***************************************************************************)
(* The functions of pkg/sources/resume.go.  Repository URLs are numbers,   *)
(* ordered as the code orders the strings; a resume info is the sequence   *)
(* its string encodes, and the empty sequence is the empty string.         *)
(***************************************************************************)
EXTENDS Naturals, Sequences, SequencesExt

\* RemoveRepoFromResumeInfo: the first occurrence, if there is one.
RemoveRepoFromResumeInfo(resume, repo) == RemoveFirst(resume, repo)

\* ResumedAsDocumented, faulty variant: no entry is ever passed over.
VisitRepoNeverMoves(repos, resume, walk, i) ==
  IF repos[i] = resume[walk.entry]
  THEN [walk EXCEPT !.lastFound = i, !.found = Append(@, repos[i])]
  ELSE walk

\* The body of the filter's loop.  At most one entry is passed over for each
\* repository, and the loop is left when the last entry has been.
VisitRepo(repos, resume, walk, i) ==
  LET entry == IF repos[i] > resume[walk.entry] THEN walk.entry + 1 ELSE walk.entry
      isNext == entry <= Len(resume) /\ repos[i] = resume[entry]
  IN  [entry |-> entry,
       lastFound |-> IF isNext THEN i ELSE walk.lastFound,
       found |-> IF isNext THEN Append(walk.found, repos[i]) ELSE walk.found]

\* FilterReposToResume's first result; the second, the progress offset, is
\* the difference of the lengths.
FilterReposToResume(repos, resume) ==
  IF resume = <<>> THEN repos
  ELSE LET Visit(walk, i) == IF walk.entry > Len(resume) THEN walk
                             ELSE VisitRepo(repos, resume, walk, i)
           walked == FoldLeft(Visit, [entry |-> 1, lastFound |-> 0, found |-> <<>>],
                              [i \in DOMAIN repos |-> i])
       IN  walked.found \o SubSeq(repos, walked.lastFound + 1, Len(repos))
=============================================================================

----------------------------- MODULE ResumeScan -----------------------------
(***************************************************************************)
(* The scan loop of the GitHub and GitLab sources over the repositories    *)
(* they have enumerated, with a pool of goroutines and the resume info     *)
(* that lets a later process continue.  A process may stop at any moment;  *)
(* what it leaves behind is the progress someone saved last.               *)
(***************************************************************************)
EXTENDS ResumeFilter, FiniteSets, FiniteSetsExt

CONSTANTS
  Listings,     \* the sets of repositories an enumeration may find
  Concurrency,  \* the limit of jobPool
  MaxProcesses  \* bound: processes started

Repos == UNION Listings

ASSUME ResumeAssumption ==
  /\ Listings \subseteq SUBSET Nat /\ IsFiniteSet(Repos)
  /\ Concurrency \in Nat \ {0} /\ MaxProcesses \in Nat

VARIABLES
  phase,       \* the process: "down", "scanning", "completed"
  processes,   \* processes started so far
  cancelled,   \* whether the scan's context is done
  listed,      \* what this process has enumerated
  toScan,      \* s.repos once filtered
  launched,    \* how many of them the loop has given to jobPool
  state,       \* the goroutine of each repository
  resumeInfo,  \* resumeInfoSlice
  progress,    \* the source's Progress
  saved,       \* the copy of it outside the process
  finished,    \* every repository whose scan has ended, in any process
  overtaken    \* history: in some process a goroutine has begun to scan its
               \* repository before that of a repository launched earlier

procVars == <<phase, processes, cancelled, listed, toScan>>
vars == <<procVars, launched, state, resumeInfo, progress, saved, finished, overtaken>>

\* sort.Strings
Sorted(S) == CHOOSE q \in [1..Cardinality(S) -> S] : \A i, j \in DOMAIN q : i < j => q[i] < q[j]
Fresh == [resume |-> <<>>, completed |-> 0, remaining |-> 0]
Offset == Cardinality(listed) - Len(toScan)
ActiveRepos == {r \in Repos : state[r] \in {"launched", "scanning"}}
Scanning == {r \in Repos : state[r] = "scanning"}
Position(r) == SelectInSeq(toScan, LAMBDA x : x = r)
Overtakes(r) == \E i \in 1..(Position(r) - 1) : state[toScan[i]] = "launched"

\* Progress.SetProgressComplete; the percentage is completed over remaining.
SetProgressComplete(i, scope, resume) ==
  progress' = [resume |-> resume, completed |-> i, remaining |-> scope]

Init ==
  /\ phase = "down" /\ processes = 0 /\ cancelled = FALSE
  /\ listed = {} /\ toScan = <<>> /\ launched = 0
  /\ state = [r \in Repos |-> "none"]
  /\ resumeInfo = <<>> /\ progress = Fresh /\ saved = Fresh
  /\ finished = {} /\ overtaken = FALSE

----------------------------------------------------------------------------
(* Faulty variants: the code with one plausible bug, for the property      *)
(* named in the comment.  Specifications never use them.                   *)

\* BegunIsResumed: the info is encoded before the repository is added.
BeginScanEncodesFirst(r) ==
  /\ state[r] = "launched" /\ ~cancelled
  /\ resumeInfo' = Sorted(ToSet(resumeInfo) \cup {r})
  /\ SetProgressComplete(Position(r) - 1 + Offset, Len(toScan) + Offset, resumeInfo)
  /\ state' = [state EXCEPT ![r] = "scanning"]
  /\ overtaken' = (overtaken \/ Overtakes(r))
  /\ UNCHANGED <<procVars, launched, saved, finished>>

\* NothingSkipped: a resumed scan goes on behind the first repository.
StartSkipsFirst(found) ==
  /\ phase = "down" /\ processes < MaxProcesses
  /\ phase' = "scanning" /\ processes' = processes + 1 /\ cancelled' = FALSE
  /\ listed' = found
  /\ toScan' = FilterReposToResume(Sorted(found), saved.resume)
  /\ launched' = (IF saved.resume = <<>> THEN 0 ELSE 1)
  /\ state' = [r \in Repos |-> "none"]
  /\ resumeInfo' = <<>> /\ progress' = [Fresh EXCEPT !.resume = saved.resume]
  /\ UNCHANGED <<saved, finished, overtaken>>

\* CompletedMeansScanned: jobPool.Wait is missing.
CompleteUnjoined ==
  /\ phase = "scanning" /\ launched = Len(toScan)
  /\ SetProgressComplete(Len(toScan), Len(toScan), <<>>)
  /\ phase' = "completed"
  /\ UNCHANGED <<processes, cancelled, listed, toScan, launched, state, resumeInfo,
                 saved, finished, overtaken>>

----------------------------------------------------------------------------
(* The process.                                                            *)

\* Enumeration, then scan's call of FilterReposToResume with the resume info
\* the process was given.
Start(found) ==
  /\ phase = "down" /\ processes < MaxProcesses
  /\ phase' = "scanning" /\ processes' = processes + 1 /\ cancelled' = FALSE
  /\ listed' = found
  /\ toScan' = FilterReposToResume(Sorted(found), saved.resume)
  /\ launched' = 0 /\ state' = [r \in Repos |-> "none"]
  /\ resumeInfo' = <<>> /\ progress' = [Fresh EXCEPT !.resume = saved.resume]
  /\ UNCHANGED <<saved, finished, overtaken>>

\* jobPool.Go: the loop waits while the pool is full.
Launch ==
  /\ phase = "scanning" /\ launched < Len(toScan)
  /\ Cardinality(ActiveRepos) < Concurrency
  /\ launched' = launched + 1
  /\ state' = [state EXCEPT ![toScan[launched + 1]] = "launched"]
  /\ UNCHANGED <<procVars, resumeInfo, progress, saved, finished, overtaken>>

\* A goroutine that starts after the cancellation returns at once.
SkipCancelled(r) ==
  /\ state[r] = "launched" /\ cancelled
  /\ state' = [state EXCEPT ![r] = "ended"]
  /\ UNCHANGED <<procVars, launched, resumeInfo, progress, saved, finished, overtaken>>

\* setProgressCompleteWithRepo, under resumeInfoMutex.
BeginScan(r) ==
  /\ state[r] = "launched" /\ ~cancelled
  /\ resumeInfo' = Sorted(ToSet(resumeInfo) \cup {r})
  /\ SetProgressComplete(Position(r) - 1 + Offset, Len(toScan) + Offset, resumeInfo')
  /\ state' = [state EXCEPT ![r] = "scanning"]
  /\ overtaken' = (overtaken \/ Overtakes(r))
  /\ UNCHANGED <<procVars, launched, saved, finished>>

\* The scan has succeeded, failed, or been cut short by the cancellation; the
\* deferred call removes the repository and leaves progress as it is.
EndScan(r) ==
  /\ state[r] = "scanning"
  /\ \/ finished' = finished \cup {r}
     \/ cancelled /\ UNCHANGED finished
  /\ resumeInfo' = RemoveRepoFromResumeInfo(resumeInfo, r)
  /\ state' = [state EXCEPT ![r] = "ended"]
  /\ UNCHANGED <<procVars, launched, progress, saved, overtaken>>

\* After jobPool.Wait: the final call of SetProgressComplete.
Complete ==
  /\ phase = "scanning" /\ launched = Len(toScan) /\ ActiveRepos = {}
  /\ SetProgressComplete(Len(toScan), Len(toScan), <<>>)
  /\ phase' = "completed"
  /\ UNCHANGED <<processes, cancelled, listed, toScan, launched, state, resumeInfo,
                 saved, finished, overtaken>>

----------------------------------------------------------------------------
(* Its surroundings.                                                       *)

Cancel ==
  /\ phase = "scanning" /\ ~cancelled
  /\ cancelled' = TRUE
  /\ UNCHANGED <<phase, processes, listed, toScan, launched, state, resumeInfo,
                 progress, saved, finished, overtaken>>

\* GetProgress, by whoever keeps it for the next process.
Save ==
  /\ phase # "down" /\ saved # progress
  /\ saved' = progress
  /\ UNCHANGED <<procVars, launched, state, resumeInfo, progress, finished, overtaken>>

\* The process stops, with or without having completed.
Stop ==
  /\ phase # "down"
  /\ phase' = "down"
  /\ UNCHANGED <<processes, cancelled, listed, toScan, launched, state, resumeInfo,
                 progress, saved, finished, overtaken>>

Next ==
  \/ \E found \in Listings : Start(found)
  \/ phase # "down" /\ \E r \in Repos : SkipCancelled(r) \/ BeginScan(r) \/ EndScan(r)
  \/ Launch \/ Complete \/ Cancel \/ Save \/ Stop
  \/ phase = "down" /\ processes = MaxProcesses /\ UNCHANGED vars

Spec == Init /\ [][Next]_vars

----------------------------------------------------------------------------
(* Properties.                                                             *)

Progresses == [resume : Seq(Repos), completed : Nat, remaining : Nat]
TypeOK ==
  /\ phase \in {"down", "scanning", "completed"} /\ processes \in 0..MaxProcesses
  /\ cancelled \in BOOLEAN /\ listed \in SUBSET Repos
  /\ toScan \in Seq(listed) /\ IsInjective(toScan) /\ launched \in 0..Len(toScan)
  /\ state \in [Repos -> {"none", "launched", "scanning", "ended"}]
  /\ resumeInfo \in Seq(Repos) /\ finished \in SUBSET Repos
  /\ progress \in Progresses /\ saved \in Progresses /\ overtaken \in BOOLEAN

Resumed(found, info) == ToSet(FilterReposToResume(Sorted(found), info.resume))

(***************************************************************************)
(* A repository whose scan has begun and not ended is scanned again by a   *)
(* process that resumes from the progress as it is now: encoding under     *)
(* resumeInfoMutex, the stale encoding left by EndScan and the filter      *)
(* together never lose one, however many goroutines scan.                  *)
(***************************************************************************)
BegunIsResumed ==
  phase = "scanning" => Scanning \subseteq Resumed(listed, progress)

(***************************************************************************)
(* Whatever was saved, and whenever the process stops: a repository that   *)
(* no process has finished is scanned by the next one.  The listing must   *)
(* stay the same, and goroutines must begin in the order of their launch.  *)
(***************************************************************************)
NothingSkipped ==
  ~overtaken => \A found \in Listings : found \ finished \subseteq Resumed(found, saved)

(***************************************************************************)
(* "Completed GitHub scan" is true of the whole listing, the repositories  *)
(* earlier processes were trusted to have scanned included, unless the     *)
(* scan was cancelled or goroutines began out of order.                    *)
(***************************************************************************)
CompletedMeansScanned ==
  phase = "completed" /\ ~cancelled /\ ~overtaken => listed \subseteq finished

(***************************************************************************)
(* A claim the code does not keep: the comment of FilterReposToResume says *)
(* that "we know repositories that have not finished scanning are the ones *)
(* included in the resumeInfo, and those that come after", in any order in *)
(* which the goroutines run.                                               *)
(***************************************************************************)
NothingEverSkipped ==
  \A found \in Listings : found \ finished \subseteq Resumed(found, saved)

\* The offset and the loop's index add up: PercentComplete is below 100 as
\* long as some repository is still to be scanned.
CompletedBelowScope ==
  phase = "scanning" /\ Scanning # {} => progress.completed < progress.remaining

(***************************************************************************)
(* The repositories resume.go says are scanned: "the ones included in the  *)
(* resumeInfo, and those that come after the last repository in the        *)
(* resumeInfo", the last one that is found.                                *)
(***************************************************************************)
DocumentedScan(found, resume) ==
  LET known == ToSet(resume) \cap found
  IN  IF known = {} THEN found
      ELSE {r \in found : r \in known \/ r > Max(known)}

ResumedAsDocumented ==
  phase = "scanning" /\ launched = 0 =>
    toScan = Sorted(DocumentedScan(listed, progress.resume))
=============================================================================

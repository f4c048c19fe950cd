----------------------------- MODULE CleanTemp -----------------------------
(***************************************************************************)
(* The directory of temporary files, shared by the scans of one machine    *)
(* (pkg/cleantemp/cleantemp.go).  Files and directories are named after    *)
(* the pid of their process.  Each process cleans the directory when it    *)
(* starts, while it already scans, when it is told to stop and when it has *)
(* finished (main.go): it lists the processes of its name, then removes,   *)
(* entry by entry, what is named after none of them.                       *)
(*                                                                         *)
(* One process, Host, is the one whose spooled text SpoolWriter models;    *)
(* the others make files and directories.                                  *)
(***************************************************************************)
EXTENDS SpoolWriter

CONSTANTS
  Procs, Host,        \* processes, each started once
  Pids,               \* their pids, which the system uses again
  ExecOf, ShownAs,    \* the name of a process's executable, and what the process list shows
  Cleaners, OwnerOf   \* calls of CleanTempArtifacts, and the process of each

ASSUME CleanAssumption ==
  /\ Host \in Procs /\ None \notin Pids
  /\ ExecOf \in [Procs -> STRING] /\ ShownAs \in [Procs -> STRING]
  /\ OwnerOf \in [Cleaners -> Procs]

VARIABLES
  status,    \* a process is "new", "running" or "gone"
  pid,
  made,      \* the artifacts of the other processes: [by, dir]
  cleaning,  \* a cleaner is "idle", has "listed", is "reading", or has "stopped" for good
  pids,      \* the pids it has listed
  entries,   \* the entries of the directory when it was opened
  seen,      \* those it has looked at
  orphans,   \* the artifacts of processes that had gone when it listed
  before     \* the processes that were running then

cleanVars == <<cleaning, pids, entries, seen, orphans, before>>
vars == <<spoolVars, status, pid, made, cleanVars>>

----------------------------------------------------------------------------
Files == [w : Writers] \* a file of Host is [w]; another artifact is [by, dir]
Present == [w : onDisk] \cup made

IsSpoolFile(e) == e \in Files
Maker(e) == IF IsSpoolFile(e) THEN Host ELSE e.by
IsDir(e) == ~IsSpoolFile(e) /\ e.dir
Running == {p \in Procs : status[p] = "running"}

Init ==
  /\ SpoolInit
  /\ status = [p \in Procs |-> "new"] /\ pid = [p \in Procs |-> None]
  /\ made = {}
  /\ cleaning = [c \in Cleaners |-> "idle"]
  /\ LET none == [c \in Cleaners |-> {}]
     IN pids = none /\ entries = none /\ seen = none
        /\ orphans = none /\ before = none

\* Cleaners that have returned or been killed keep nothing.
Forget(cs) ==
  LET kept(f) == [c \in Cleaners |-> IF c \in cs THEN {} ELSE f[c]]
  IN pids' = kept(pids) /\ entries' = kept(entries) /\ seen' = kept(seen)
     /\ orphans' = kept(orphans) /\ before' = kept(before)

\* A process gets a pid no running process has.
Start(p) ==
  /\ status[p] = "new"
  /\ \E i \in Pids \ {pid[q] : q \in Running} : pid' = [pid EXCEPT ![p] = i]
  /\ status' = [status EXCEPT ![p] = "running"]
  /\ UNCHANGED <<spoolVars, made, cleanVars>>

\* It ends or is killed; what it has made stays, and what it had in memory is gone.
End(p) ==
  /\ status[p] = "running"
  /\ status' = [status EXCEPT ![p] = "gone"]
  /\ cleaning' = [c \in Cleaners |-> IF OwnerOf[c] = p THEN "stopped" ELSE cleaning[c]]
  /\ Forget({c \in Cleaners : OwnerOf[c] = p})
  /\ IF p = Host THEN SpoolGone ELSE UNCHANGED spoolVars
  /\ UNCHANGED <<pid, made>>

\* A clone's directory, or a file of a handler; each process has one at most (a bound).
MkdirTemp(p) ==
  /\ p \in Running \ {Host} /\ \A e \in made : e.by # p
  /\ \E d \in BOOLEAN : made' = made \cup {[by |-> p, dir |-> d]}
  /\ UNCHANGED <<spoolVars, status, pid, cleanVars>>

RemoveOwn(p) ==
  /\ p \in Running
  /\ \E e \in made : e.by = p /\ made' = made \ {e}
  /\ UNCHANGED <<spoolVars, status, pid, cleanVars>>

HostStep ==
  /\ Host \in Running
  /\ \E w \in Writers : SpoolStep(w)
  /\ UNCHANGED <<status, pid, made, cleanVars>>

----------------------------------------------------------------------------
(* CleanTempArtifacts.                                                     *)

Cleans(c, from) == OwnerOf[c] \in Running /\ cleaning[c] = from

SameName(c) == {p \in Running : ShownAs[p] = ExecOf[OwnerOf[c]]}

\* With no process of its name, not even its own, it does nothing.
ListProcesses(c) ==
  /\ Cleans(c, "idle") /\ SameName(c) # {}
  /\ pids' = [pids EXCEPT ![c] = {pid[p] : p \in SameName(c)}]
  /\ orphans' = [orphans EXCEPT ![c] = {e \in Present : Maker(e) \notin Running}]
  /\ cleaning' = [cleaning EXCEPT ![c] = "listed"]
  /\ before' = [before EXCEPT ![c] = Running]
  /\ UNCHANGED <<spoolVars, status, pid, made, entries, seen>>

OpenDir(c) ==
  /\ Cleans(c, "listed")
  /\ entries' = [entries EXCEPT ![c] = Present]
  /\ cleaning' = [cleaning EXCEPT ![c] = "reading"]
  /\ UNCHANGED <<spoolVars, status, pid, made, pids, seen, orphans, before>>

(***************************************************************************)
(* Reading a directory that changes returns what was in it all along, and  *)
(* may or may not return what has come or gone since it was opened.  A     *)
(* reading that fails is tried again at once, which changes nothing.       *)
(***************************************************************************)
Unseen(c) == (entries[c] \cup Present) \ seen[c]

\* Only the pid of the process itself is compared.
LiveOwnOnly(c, e) == pid[Maker(e)] = pid[OwnerOf[c]]

Live(c, e) == pid[Maker(e)] \in pids[c]

\* The break leaves both loops.
KeepEntryBreaksOut(c) ==
  /\ Cleans(c, "reading")
  /\ \E e \in Unseen(c) :
       Live(c, e)
  /\ cleaning' = [cleaning EXCEPT ![c] = "idle"]
  /\ Forget({c})
  /\ UNCHANGED <<spoolVars, status, pid, made>>

KeepEntry(c) ==
  /\ Cleans(c, "reading")
  /\ \E e \in Unseen(c) :
       /\ Live(c, e)
       /\ seen' = [seen EXCEPT ![c] = @ \cup {e}]
  /\ UNCHANGED <<spoolVars, status, pid, made, cleaning, pids, entries, orphans, before>>

\* Removing a file that has gone is an error, which ends the cleaning.
RemoveEntry(c) ==
  /\ Cleans(c, "reading")
  /\ \E e \in Unseen(c) :
       /\ ~Live(c, e)
       /\ onDisk' = {w \in onDisk : e # [w |-> w]}
       /\ made' = made \ {e}
       /\ IF e \in Present \/ IsDir(e)
          THEN /\ seen' = [seen EXCEPT ![c] = @ \cup {e}]
               /\ UNCHANGED <<cleaning, pids, entries, orphans, before>>
          ELSE cleaning' = [cleaning EXCEPT ![c] = "stopped"] /\ Forget({c})
  /\ UNCHANGED <<phase, buf, file, size, text, large, pool, fresh, wrote, failed, mixed, got,
                 status, pid>>

EndOfDir(c) ==
  /\ Cleans(c, "reading")
  /\ entries[c] \cap Present \subseteq seen[c]
  /\ cleaning' = [cleaning EXCEPT ![c] = "idle"]
  /\ Forget({c})
  /\ UNCHANGED <<spoolVars, status, pid, made>>

CleanTempArtifacts(c) ==
  ListProcesses(c) \/ OpenDir(c) \/ KeepEntry(c) \/ RemoveEntry(c) \/ EndOfDir(c)

Next ==
  \/ \E p \in Procs : Start(p) \/ End(p) \/ MkdirTemp(p) \/ RemoveOwn(p)
  \/ HostStep
  \/ \E c \in Cleaners : CleanTempArtifacts(c)

Spec == Init /\ [][Next]_vars

----------------------------------------------------------------------------
(* Properties.                                                             *)

(***************************************************************************)
(* A file that Host still has to open is removed, so that its text cannot  *)
(* be read back, only by a cleaner that did not see Host on its list: Host *)
(* has started since, or is shown under another name.                      *)
(***************************************************************************)
LostToStaleList ==
  \A w \in onDisk \ onDisk' : Host \in Running /\ phase[w] # "open" =>
    \E c \in Cleaners : cleaning[c] = "reading"
      /\ (Host \notin before[c] \/ ShownAs[Host] # ExecOf[OwnerOf[c]])
LostOnlyToStaleLists == [][LostToStaleList]_vars

(***************************************************************************)
(* A cleaner that returns without an error has left nothing of a process   *)
(* that had gone when it listed the processes, unless one of its name had  *)
(* the same pid again.                                                     *)
(***************************************************************************)
LeavesNoOrphan ==
  \A c \in Cleaners : cleaning[c] = "reading" /\ cleaning'[c] = "idle" =>
    \A e \in orphans[c] \cap Present' : Live(c, e)
OrphansRemoved == [][LeavesNoOrphan]_vars

(***************************************************************************)
(* The invariant behind both: a cleaner at work has the pids of the        *)
(* processes of its name that were running when it listed them; what was   *)
(* orphaned then stays so, was there when the directory was opened, and is *)
(* not kept unless its pid was listed.                                     *)
(***************************************************************************)
Artifacts == Files \cup [by : Procs \ {Host}, dir : BOOLEAN]
CleanTypeOK ==
  /\ status \in [Procs -> {"new", "running", "gone"}] /\ DOMAIN pid = Procs
  /\ onDisk \subseteq Writers /\ made \subseteq [by : Procs \ {Host}, dir : BOOLEAN]
  /\ cleaning \in [Cleaners -> {"idle", "listed", "reading", "stopped"}]
  /\ DOMAIN pids = Cleaners
  /\ {entries, seen, orphans} \subseteq [Cleaners -> SUBSET Artifacts]
  /\ before \in [Cleaners -> SUBSET Procs]
Started == {p \in Procs : status[p] # "new"}
Listed(c) == cleaning[c] \in {"listed", "reading"} =>
  /\ before[c] \subseteq Started
  /\ \A p \in before[c] : ShownAs[p] = ExecOf[OwnerOf[c]] => pid[p] \in pids[c]
  /\ \A e \in orphans[c] : status[Maker(e)] = "gone"
Read(c) ==
  /\ cleaning[c] # "reading" => seen[c] = {}
  /\ cleaning[c] = "reading" => orphans[c] \cap Present \subseteq entries[c]
  /\ \A e \in orphans[c] \cap seen[c] \cap Present : Live(c, e)
CleanInv ==
  /\ CleanTypeOK
  /\ \A e \in Present : Maker(e) \in Started
  /\ \A c \in Cleaners : Listed(c) /\ Read(c)
=============================================================================

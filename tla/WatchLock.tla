----------------------------- MODULE WatchLock -----------------------------
(***************************************************************************)
(* _WatchLock of labs/research_dashboard_v10_43c.py: the lock file of the   *)
(* processes that refresh the dashboard.  Its creation is exclusive; the    *)
(* check for a living owner, the removal of what is there, the creation     *)
(* and the writing of the owner are steps of their own, and the check may   *)
(* take a living owner for dead.                                            *)
(***************************************************************************)
EXTENDS FiniteSets

CONSTANTS
    Watcher,   \* processes
    Misled     \* those whose check of the owner may go wrong

(* What the constants are; the instance checks it. *)
WatchAssumption == {"nobody", "dead"} \cap Watcher = {} /\ Misled \subseteq Watcher

VARIABLES
    pc,
    lockFile,   \* owner, and whether its name has been written into the file
    early,      \* by process: who watched when it read the file and was not mistaken
                \* for dead (history)
    robbed      \* lost the file to a process that had not seen them watch (history)

watchVars == <<pc, lockFile, early, robbed>>

NoFile == [owner |-> "nobody", filled |-> FALSE]
Present == lockFile # NoFile
(* What the file really says: _read_json gives nothing for an empty one, and a *)
(* dead owner has no process. *)
Held == lockFile.filled /\ lockFile.owner \in Watcher
Watching == {p \in Watcher : pc[p] \in {"watch", "unlinkOwn"}}

WatchInit ==
    /\ pc = [p \in Watcher |-> "down"]
    /\ lockFile = NoFile
    /\ early = [p \in Watcher |-> {}]
    /\ robbed = {}

Goto(p, label) == pc' = [pc EXCEPT ![p] = label]

(* p is gone: whoever starts under its name is another process. *)
End(p) ==
    /\ Goto(p, "down")
    /\ early' = [q \in Watcher |-> IF q = p THEN {} ELSE early[q] \ {p}]

(* acquire reads the file; with a living owner the command is refused.  But the *)
(* reading swallows an error and tells nothing then, and _pid_alive answers that *)
(* the owner is dead when tasklist is late or the signal may not be sent. *)
Acquire(p) ==
    /\ pc[p] = "down"
    /\ \/ ~Held /\ early' = [early EXCEPT ![p] = Watching]
       \/ Held /\ p \in Misled /\ early' = [early EXCEPT ![p] = Watching \ {lockFile.owner}]
    /\ Goto(p, "exists")
    /\ UNCHANGED <<lockFile, robbed>>

Exists(p) ==
    /\ pc[p] = "exists"
    /\ Goto(p, IF Present THEN "unlink" ELSE "create")
    /\ UNCHANGED <<lockFile, early, robbed>>

(* The file is removed, whose it may be by now.  The unlink raises without a file, *)
(* and may raise with one: whatever the second reading tells, acquire is over. *)
Unlink(p) ==
    /\ pc[p] = "unlink"
    /\ \/ /\ Present
          /\ lockFile' = NoFile
          /\ robbed' = robbed \cup ({lockFile.owner} \cap (Watcher \ early[p]))
          /\ Goto(p, "create")
          /\ UNCHANGED early
       \/ End(p) /\ UNCHANGED <<lockFile, robbed>>

(* A slip: the file is opened without O_EXCL. *)
CreateShared(p) ==
    /\ pc[p] = "create"
    /\ lockFile' = [owner |-> p, filled |-> FALSE]
    /\ Goto(p, "fill")
    /\ UNCHANGED <<early, robbed>>

(* os.open with O_EXCL; it raises when another process was first. *)
Create(p) ==
    /\ pc[p] = "create"
    /\ IF Present THEN End(p) /\ UNCHANGED lockFile
       ELSE /\ lockFile' = [owner |-> p, filled |-> FALSE]
            /\ Goto(p, "fill")
            /\ UNCHANGED early
    /\ UNCHANGED robbed

(* os.write to the file this process opened, removed or not. *)
Fill(p) ==
    /\ pc[p] = "fill"
    /\ Goto(p, "watch")
    /\ lockFile' = IF lockFile.owner = p THEN [owner |-> p, filled |-> TRUE] ELSE lockFile
    /\ UNCHANGED <<early, robbed>>

(* A reading that raises leaves the file to a dead owner, like Crash. *)
Release(p) ==
    /\ pc[p] = "watch"
    /\ IF lockFile.filled /\ lockFile.owner = p
       THEN Goto(p, "unlinkOwn") /\ UNCHANGED <<early, robbed>>
       ELSE End(p) /\ robbed' = robbed \ {p}
    /\ UNCHANGED lockFile

(* The unlink of release: the file may have changed hands since it was read, *)
(* which only happens to a process that was robbed.  When it raises the file stays *)
(* with a dead owner, like after Crash. *)
ReleaseUnlink(p) ==
    /\ pc[p] = "unlinkOwn"
    /\ End(p)
    /\ lockFile' = NoFile
    /\ robbed' = (robbed \cup (IF p \in robbed THEN {lockFile.owner} \cap Watcher ELSE {})) \ {p}

Crash(p) ==
    /\ pc[p] # "down"
    /\ End(p)
    /\ lockFile' = IF lockFile.owner = p THEN [owner |-> "dead", filled |-> lockFile.filled]
                   ELSE lockFile
    /\ robbed' = robbed \ {p}

WatchNext ==
    \E p \in Watcher :
        \/ Acquire(p) \/ Exists(p) \/ Unlink(p) \/ Create(p) \/ Fill(p)
        \/ Release(p) \/ ReleaseUnlink(p) \/ Crash(p)

WatchSpec == WatchInit /\ [][WatchNext]_watchVars
-----------------------------------------------------------------------------
(* Every variable keeps its type. *)
WatchTypeOK ==
    /\ pc \in [Watcher -> {"down", "exists", "unlink", "create", "fill", "watch", "unlinkOwn"}]
    /\ lockFile \in [owner : Watcher \cup {"nobody", "dead"}, filled : BOOLEAN]
    /\ early \in [Watcher -> SUBSET Watcher]
    /\ robbed \subseteq Watcher

(* A watcher holds the file, so there is one at a time, unless it was robbed: by a *)
(* process that had read the file before this watcher was at work, or whose check *)
(* took it for dead.  Nobody who saw it alive displaces it, and neither does a *)
(* robbed or a dying watcher or the release of another one, at whatever step *)
(* (labs/research_dashboard_v10_43c.py:689-747). *)
WatcherOwnsFile ==
    \A p \in Watching \ robbed : pc[p] = "watch" => lockFile = [owner |-> p, filled |-> TRUE]

(* Two watchers are never at work at once: the second one is refused *)
(* (test_researchops_v10_43c_dashboard_watch.py:127-142; *)
(* labs/research_dashboard_v10_43c.py:606-608). *)
OneWatcher == \A p, q \in Watching : p = q
=============================================================================

------------------------------ MODULE Backups ------------------------------
(***************************************************************************)
(* Exports and prunes of the local backups in data_vault.py.  The worker's  *)
(* background thread exports with an upload and prunes after it; requests   *)
(* to the health server, served by a thread of the same process, export the *)
(* same way or only prune.  One lock keeps the exports apart; a prune looks *)
(* at the lock once and takes nothing.                                      *)
(***************************************************************************)
EXTENDS Naturals, Sequences, FiniteSets, FiniteSetsExt, SequencesExt

CONSTANTS
    Thread,
    Requests,     \* the threads that prune without an export: the health server's
    Keep,         \* data_vault_max_backups_local
    MaxSecond,    \* bound of the model: an archive is named after the second of its start
    MaxFaults     \* bound of the model: calls that raise, crashes

(* What the constants are; the instances check it with their types. *)
BackupsAssumption ==
    /\ Requests \subseteq Thread /\ "free" \notin Thread
    /\ {Keep, MaxSecond} \subseteq Nat \ {0}
    /\ MaxFaults \in Nat

VARIABLES
    at,        \* where each thread is
    backupLock,\* a thread, or "free"
    dir,       \* the archives, oldest mtime first: [name, state]
    second,
    name,      \* by thread: the archive of its export
    listed,    \* by thread: list_backups of its prune
    judged,    \* by thread: the archive its prune found valid, 0 for none
    doomed,    \* by thread: what its prune still has to delete
    rewritten, \* names rewritten while a prune relied on them alone (history)
    unread,    \* names a prune passed over although they were valid (history)
    backupFaults

backupVars == <<at, backupLock, dir, second, name, listed, judged, doomed, rewritten, unread, backupFaults>>

Names(files) == {d.name : d \in ToSet(files)}
Valid == {d.name : d \in {e \in ToSet(dir) : e.state = "valid"}}
(* A name occurs once. *)
Without(files, n) == RemoveFirstMatch(files, LAMBDA d : d.name = n)
Prunes(t) == at[t] \in {"check", "delete"}
(* All that is left to a prune of what was valid when it judged. *)
RelyingOn(n) == \E t \in Thread : Prunes(t) /\ {m \in Valid : m >= judged[t]} = {n}

BackupInit ==
    /\ at = [t \in Thread |-> "idle"]
    /\ backupLock = "free"
    /\ dir = <<>>
    /\ second = 1
    /\ name = [t \in Thread |-> 0]
    /\ listed = [t \in Thread |-> <<>>]
    /\ judged = [t \in Thread |-> 0]
    /\ doomed = [t \in Thread |-> {}]
    /\ rewritten = {} /\ unread = {}
    /\ backupFaults = 0

Move(t, place) == at' = [at EXCEPT ![t] = place]
BackupFault == backupFaults < MaxFaults /\ backupFaults' = backupFaults + 1

(* export takes the lock or answers that a backup is in progress. *)
Export(t) ==
    /\ at[t] = "idle"
    /\ backupLock = "free"
    /\ backupLock' = t
    /\ name' = [name EXCEPT ![t] = second]
    /\ Move(t, "mkdir")
    /\ UNCHANGED <<dir, second, listed, judged, doomed, rewritten, unread, backupFaults>>

(* The directories are made before the try: an error leaves the lock taken. *)
MakeDirs(t) ==
    /\ at[t] = "mkdir"
    /\ \/ Move(t, "collect") /\ UNCHANGED backupFaults
       \/ Move(t, "idle") /\ BackupFault
    /\ UNCHANGED <<backupLock, dir, second, name, listed, judged, doomed, rewritten, unread>>

Free(t) == Move(t, "idle") /\ backupLock' = "free"

(* The tables are written to the work directory. *)
Collect(t) ==
    /\ at[t] = "collect"
    /\ \/ Move(t, "zip1") /\ UNCHANGED <<backupLock, backupFaults>>
       \/ Free(t) /\ BackupFault
    /\ UNCHANGED <<dir, second, name, listed, judged, doomed, rewritten, unread>>

(* _zip_dir unlinks an archive of that name and starts it again. *)
ZipStart(t) ==
    /\ at[t] \in {"zip1", "zip2"}
    /\ dir' = Append(Without(dir, name[t]), [name |-> name[t], state |-> "torn"])
    /\ Move(t, IF at[t] = "zip1" THEN "writing1" ELSE "writing2")
    /\ rewritten' = rewritten \cup (IF RelyingOn(name[t]) THEN {name[t]} ELSE {})
    /\ UNCHANGED <<backupLock, second, name, listed, judged, doomed, unread, backupFaults>>

(* A written archive; the first one is replaced by one whose manifest knows its *)
(* size, after the second the lock is released.  Writing raises, or the stat of *)
(* an archive that a prune has deleted meanwhile. *)
ZipEnd(t) ==
    /\ at[t] \in {"writing1", "writing2"}
    /\ \/ /\ name[t] \in Names(dir)
          /\ dir' = Append(Without(dir, name[t]), [name |-> name[t], state |-> "valid"])
          /\ IF at[t] = "writing1" THEN Move(t, "zip2") /\ UNCHANGED backupLock
             ELSE Move(t, "upload") /\ backupLock' = "free"
          /\ UNCHANGED backupFaults
       \/ /\ BackupFault \/ (name[t] \notin Names(dir) /\ UNCHANGED backupFaults)
          /\ Free(t)
          /\ UNCHANGED dir
    /\ UNCHANGED <<second, name, listed, judged, doomed, rewritten, unread>>

(* The upload succeeds and a prune follows, or not. *)
Upload(t) ==
    /\ at[t] = "upload"
    /\ Move(t, "list") \/ Move(t, "idle")
    /\ UNCHANGED <<backupLock, dir, second, name, listed, judged, doomed, rewritten, unread, backupFaults>>

PruneRequest(t) ==
    /\ t \in Requests
    /\ at[t] = "idle"
    /\ Move(t, "list")
    /\ UNCHANGED <<backupLock, dir, second, name, listed, judged, doomed, rewritten, unread, backupFaults>>

List(t) ==
    /\ at[t] = "list"
    /\ listed' = [listed EXCEPT ![t] = [i \in DOMAIN dir |-> dir[i].name]]
    /\ Move(t, "valid")
    /\ UNCHANGED <<backupLock, dir, second, name, judged, doomed, rewritten, unread, backupFaults>>

Newest(files) == ToSet(SubSeq(files, Max({1, Len(files) - Keep + 1}), Len(files)))

(* The latest valid archive of a list read anew, without those whose reading raises; *)
(* 0 when none is left. *)
LatestValid(missed) ==
    LET found == {i \in DOMAIN dir : dir[i].state = "valid" /\ dir[i].name \notin missed}
    IN  IF found = {} THEN 0 ELSE dir[Max(found)].name

(* A slip: the newest archives are kept, valid or not. *)
DoomedByAge(t, missed) == ToSet(listed[t]) \ Newest(listed[t])

Doomed(t, missed) == ToSet(listed[t]) \ (Newest(listed[t]) \cup {LatestValid(missed)})

(* latest_valid_backup, and with it the set to delete.  It goes from the newest *)
(* archive back and passes over any whose reading raises, valid or not. *)
Judge(t) ==
    /\ at[t] = "valid"
    /\ \E missed \in SUBSET Valid :
        /\ \A m \in missed : m > LatestValid(missed)
        /\ IF missed = {} THEN UNCHANGED backupFaults ELSE BackupFault
        /\ judged' = [judged EXCEPT ![t] = LatestValid(missed)]
        /\ doomed' = [doomed EXCEPT ![t] = Doomed(t, missed)]
        /\ unread' = unread \cup missed
    /\ Move(t, "check")
    /\ UNCHANGED <<backupLock, dir, second, name, listed, rewritten>>

PruneOver(t) ==
    /\ Move(t, "idle")
    /\ listed' = [listed EXCEPT ![t] = <<>>]
    /\ judged' = [judged EXCEPT ![t] = 0]
    /\ doomed' = [doomed EXCEPT ![t] = {}]

(* list_backups raises, when a file goes between its glob and its stat. *)
PruneRaises(t) ==
    /\ at[t] \in {"list", "valid"}
    /\ PruneOver(t)
    /\ UNCHANGED <<backupLock, dir, second, name, rewritten, unread, backupFaults>>

(* While an export runs nothing is deleted. *)
CheckLock(t) ==
    /\ at[t] = "check"
    /\ IF backupLock # "free" THEN PruneOver(t)
       ELSE Move(t, "delete") /\ UNCHANGED <<listed, judged, doomed>>
    /\ UNCHANGED <<backupLock, dir, second, name, rewritten, unread, backupFaults>>

(* One file, whether it is still there or not; one that cannot be removed stays. *)
Delete(t) ==
    /\ at[t] = "delete"
    /\ doomed[t] # {}
    /\ LET n == CHOOSE m \in doomed[t] : \A k \in doomed[t] : m <= k
       IN  /\ \/ dir' = Without(dir, n) /\ UNCHANGED backupFaults
              \/ BackupFault /\ UNCHANGED dir
           /\ doomed' = [doomed EXCEPT ![t] = @ \ {n}]
    /\ UNCHANGED <<at, backupLock, second, name, listed, judged, rewritten, unread>>

DeleteDone(t) ==
    /\ at[t] = "delete"
    /\ doomed[t] = {}
    /\ PruneOver(t)
    /\ UNCHANGED <<backupLock, dir, second, name, rewritten, unread, backupFaults>>

Clock ==
    /\ second < MaxSecond
    /\ second' = second + 1
    /\ UNCHANGED <<at, backupLock, dir, name, listed, judged, doomed, rewritten, unread, backupFaults>>

(* The process dies; another one starts with its lock free. *)
ProcessDies ==
    /\ BackupFault
    /\ at' = [t \in Thread |-> "idle"]
    /\ backupLock' = "free"
    /\ listed' = [t \in Thread |-> <<>>]
    /\ judged' = [t \in Thread |-> 0]
    /\ doomed' = [t \in Thread |-> {}]
    /\ UNCHANGED <<dir, second, name, rewritten, unread>>

BackupNext ==
    \/ \E t \in Thread :
        \/ Export(t) \/ MakeDirs(t) \/ Collect(t) \/ ZipStart(t) \/ ZipEnd(t) \/ Upload(t)
        \/ PruneRequest(t) \/ List(t) \/ Judge(t)
        \/ PruneRaises(t) \/ CheckLock(t) \/ Delete(t) \/ DeleteDone(t)
    \/ Clock \/ ProcessDies

BackupSpec == BackupInit /\ [][BackupNext]_backupVars
-----------------------------------------------------------------------------
(* Every variable keeps its type. *)
BackupTypeOK ==
    /\ at \in [Thread -> {"idle", "mkdir", "collect", "zip1", "writing1", "zip2", "writing2",
                          "upload", "list", "valid", "check", "delete"}]
    /\ backupLock \in Thread \cup {"free"}
    /\ dir \in Seq([name : 1..MaxSecond, state : {"torn", "valid"}])
    /\ second \in 1..MaxSecond
    /\ name \in [Thread -> 0..MaxSecond]
    /\ listed \in [Thread -> Seq(1..MaxSecond)]
    /\ judged \in [Thread -> 0..MaxSecond]
    /\ doomed \in [Thread -> SUBSET (1..MaxSecond)]
    /\ rewritten \subseteq 1..MaxSecond /\ unread \subseteq 1..MaxSecond
    /\ backupFaults \in 0..MaxFaults

(* There are only two ways to lose the last valid archive to a prune, however many *)
(* prunes and exports run beside it and fail: its reading raised while a prune *)
(* looked for the latest valid one, or the last one a prune relied on was rewritten *)
(* under its eyes; and in neither is what the prune judged valid newer than that *)
(* archive (data_vault.py:625-632, 802-817). *)
PruneKeepsAValid ==
    [][\A t \in Thread : Delete(t) /\ Valid # {} =>
          Valid' # {} \/ \E m \in rewritten \cup unread : m >= judged[t]]_backupVars
=============================================================================

------------------------------ MODULE ConfigEditor ------------------------------
(***************************************************************************)
(* The editor of the configuration file (internal/directoryconfig): a      *)
(* command disables a directory entry, or removes it after the directory   *)
(* has unregistered the relay.                                             *)
(*                                                                         *)
(* Editors are processes that exclude each other with flock on the file    *)
(* they opened; the file behind the name changes with every edit.  They    *)
(* can be killed at any point, and the machine can lose power: renames     *)
(* that no directory sync has covered may then be undone, each on its own. *)
(* The operator replaces the file with a tool that takes no lock.          *)
(* A file is never written in place, and is synced before it is renamed,   *)
(* so that only names can be lost.                                         *)
(***************************************************************************)
EXTENDS Naturals, FiniteSets

CONSTANTS Editor,      \* processes that edit the file
          Entry,       \* entries of DIRECTORIES
          NoFile,      \* there is no file of that name
          MaxOpens,    \* attempts of openLockedSnapshot
          MaxCalls,    \* bound on calls of editFile
          MaxReplaces, \* bound on the operator replacing the file
          MaxKills,    \* bound on killed editors and failed syncs
          MaxLosses    \* bound on power losses

ASSUME EditorAssumption ==
    /\ MaxOpens \in Nat \ {0}
    /\ {MaxCalls, MaxReplaces, MaxKills, MaxLosses} \subseteq Nat

VARIABLES
    dir,      \* the names as processes see them: the file and its backup
    disk,     \* for each name, the files it may have after a power loss: that of the
              \* last sync, and those of the renames since
    place,    \* where an editor is
    call,     \* the edit it makes: action and entry
    opened,   \* the file it opened, which it locks and takes the snapshot from
    opens,    \* attempts to open
    inodes,   \* files made so far
    calls, replaces, kills, powerLosses,
    reported, \* history: an entry is disabled by an editor: its rename is done
              \* ("renamed"), success was reported ("written"), or success was
              \* reported because the entry was found disabled ("found")
    replaced  \* history: the operator replaced the file between an editor's check
              \* and its rename

names         == <<dir, disk, inodes>>
editors       == <<place, call, opened, opens>>
editorHistory == <<reported, replaced>>
editorBounds  == <<calls, replaces, kills, powerLosses>>
editorVars    == <<names, editors, editorBounds, editorHistory>>

Setting == {"on", "off", "gone"}
Call    == [action : {"disable", "remove"}, entry : Entry]
EditorPc == {"idle", "open", "lock", "backup", "syncBackup", "check", "rename", "sync"}

\* No file is not a file.
ASSUME NoFileAssumption == NoFile \notin [ino : Nat, entries : [Entry -> Setting]]

\* A file with its identity, which os.SameFile compares.
File == [ino : 1 .. MaxCalls * 2 + MaxReplaces + 1, entries : [Entry -> Setting]]

\* The directory is synced: each name keeps the file it has.
Synced(d) == [path |-> {d.path}, backup |-> {d.backup}]

EditorInit ==
    /\ dir = [path |-> [ino |-> 1, entries |-> [e \in Entry |-> "on"]], backup |-> NoFile]
    /\ disk = Synced(dir)
    /\ place = [p \in Editor |-> "idle"]
    /\ call \in [Editor -> {[action |-> "disable", entry |-> CHOOSE e \in Entry : TRUE]}]
    /\ opened = [p \in Editor |-> NoFile]
    /\ opens = [p \in Editor |-> 0]
    /\ inodes = 1
    /\ calls = 0 /\ replaces = 0 /\ kills = 0 /\ powerLosses = 0
    /\ reported = [e \in Entry |-> "no"]
    /\ replaced = FALSE

Proceed(p, to) == place' = [place EXCEPT ![p] = to]

\* editFile returns; the lock goes with the file.
Return(p) ==
    /\ Proceed(p, "idle")
    /\ opened' = [opened EXCEPT ![p] = NoFile]
    /\ opens' = [opens EXCEPT ![p] = 0]
    /\ UNCHANGED call

\* Mutant: a process that waits for the lock counts as its holder.
LockedByWaiting(file) == \E p \in Editor : place[p] \notin {"idle", "open"} /\ opened[p] = file

\* flock is held from "backup" on.
Locked(file) == \E p \in Editor : place[p] \notin {"idle", "open", "lock"} /\ opened[p] = file

Edit(p) == call[p].entry
Before(p) == opened[p].entries[Edit(p)]

\* The new contents: the entry is disabled, or left out.
Replacement(p) ==
    [ino |-> inodes + 1,
     entries |-> [opened[p].entries EXCEPT
                     ![Edit(p)] = IF call[p].action = "remove" THEN "gone" ELSE "off"]]

\* A backup that exists is kept when an entry is removed, and when an entry is
\* disabled that was so already.
preserveBackup(p) == call[p].action = "remove" \/ Before(p) = "off"

Begin(p) ==
    /\ place[p] = "idle"
    /\ calls < MaxCalls
    /\ calls' = calls + 1
    /\ \E c \in Call :
          /\ c.action = "remove" => reported[c.entry] \in {"found", "written"}
          /\ call' = [call EXCEPT ![p] = c]
    /\ Proceed(p, "open")
    /\ UNCHANGED <<names, opened, opens, replaces, kills, powerLosses, editorHistory>>

\* openLockedSnapshot, first half: the file that has the name now.
Open(p) ==
    /\ place[p] = "open"
    /\ opened' = [opened EXCEPT ![p] = dir.path]
    /\ opens' = [opens EXCEPT ![p] = @ + 1]
    /\ Proceed(p, "lock")
    /\ UNCHANGED <<names, call, editorBounds, editorHistory>>

\* openLockedSnapshot, second half, and the decision of editFile: flock waits
\* for another holder; then the name must still belong to the locked file.
\* An entry that is already disabled, with a backup in place, needs no edit.
LockSnapshot(p) ==
    /\ place[p] = "lock"
    /\ ~Locked(opened[p])
    /\ \/ /\ dir.path # opened[p] /\ opens[p] < MaxOpens
          /\ Proceed(p, "open")
          /\ opened' = [opened EXCEPT ![p] = NoFile]
          /\ UNCHANGED <<call, opens, reported>>
       \/ /\ \/ dir.path # opened[p] /\ opens[p] >= MaxOpens
             \/ dir.path = opened[p] /\ Before(p) = "gone"
          /\ Return(p)
          /\ UNCHANGED reported
       \/ /\ dir.path = opened[p]
          /\ call[p].action = "disable" /\ Before(p) = "off" /\ dir.backup # NoFile
          /\ Return(p)
          /\ reported' = [reported EXCEPT ![Edit(p)] = IF @ = "written" THEN @ ELSE "found"]
       \/ /\ dir.path = opened[p]
          /\ Before(p) # "gone"
          /\ ~(call[p].action = "disable" /\ Before(p) = "off" /\ dir.backup # NoFile)
          /\ Proceed(p, "backup")
          /\ UNCHANGED <<call, opened, opens, reported>>
    /\ UNCHANGED <<names, editorBounds, replaced>>

\* The new file gets the name.
Replace(p) ==
    /\ dir' = [dir EXCEPT !.path = Replacement(p)]
    /\ disk' = [disk EXCEPT !.path = @ \cup {Replacement(p)}]
    /\ inodes' = inodes + 1
    /\ reported' = IF call[p].action = "disable" /\ reported[Edit(p)] = "no"
                   THEN [reported EXCEPT ![Edit(p)] = "renamed"] ELSE reported
    /\ Proceed(p, "sync")

\* The last step of an edit that wrote the file.  The operator may have
\* replaced the file since.
Succeed(p) ==
    /\ Return(p)
    /\ reported' = IF call[p].action = "disable" /\ reported[Edit(p)] # "no"
                   THEN [reported EXCEPT ![Edit(p)] = "written"] ELSE reported

\* Mutant: the backup is not written before the file is replaced.
RenameFirst(p) ==
    /\ place[p] = "backup"
    /\ Replace(p)
    /\ UNCHANGED <<call, opened, opens, editorBounds, replaced>>

\* atomicReplace: the original becomes the backup, unless one is to be kept.
Backup(p) ==
    /\ place[p] = "backup"
    /\ \/ /\ preserveBackup(p) /\ dir.backup # NoFile
          /\ Proceed(p, "check")
          /\ UNCHANGED names
       \/ /\ ~(preserveBackup(p) /\ dir.backup # NoFile)
          /\ LET copy == [opened[p] EXCEPT !.ino = inodes + 1]
             IN  /\ dir' = [dir EXCEPT !.backup = copy]
                 /\ disk' = [disk EXCEPT !.backup = @ \cup {copy}]
          /\ inodes' = inodes + 1
          /\ Proceed(p, "syncBackup")
    /\ UNCHANGED <<call, opened, opens, editorBounds, editorHistory>>

\* A sync of the directory covers every rename so far.
SyncBackup(p) ==
    /\ place[p] = "syncBackup"
    /\ disk' = Synced(dir)
    /\ Proceed(p, "check")
    /\ UNCHANGED <<dir, inodes, call, opened, opens, editorBounds, editorHistory>>

\* Mutant: the file is not compared with the one that was read.
CheckNothing(p) ==
    /\ place[p] = "check"
    /\ Proceed(p, "rename")
    /\ UNCHANGED <<names, call, opened, opens, editorBounds, editorHistory>>

\* The name must still belong to the file of the snapshot.
Check(p) ==
    /\ place[p] = "check"
    /\ \/ dir.path = opened[p] /\ Proceed(p, "rename") /\ UNCHANGED <<call, opened, opens>>
       \/ dir.path # opened[p] /\ Return(p)
    /\ UNCHANGED <<names, editorBounds, editorHistory>>

Rename(p) ==
    /\ place[p] = "rename"
    /\ Replace(p)
    /\ UNCHANGED <<call, opened, opens, editorBounds, replaced>>

\* Mutant: the directory is not synchronised.
ReturnUnsynced(p) ==
    /\ place[p] = "sync"
    /\ Succeed(p)
    /\ UNCHANGED <<names, editorBounds, replaced>>

Sync(p) ==
    /\ place[p] = "sync"
    /\ disk' = Synced(dir)
    /\ Succeed(p)
    /\ UNCHANGED <<dir, inodes, editorBounds, replaced>>

\* The editor is killed, or one of its writes, renames or syncs fails: it ends
\* without a success, and what it did so far stays.
Kill(p) ==
    /\ place[p] # "idle"
    /\ kills < MaxKills
    /\ kills' = kills + 1
    /\ Return(p)
    /\ UNCHANGED <<names, calls, replaces, powerLosses, editorHistory>>

\* The machine stops.  Of the renames of a name since the last sync, none, the
\* first ones or all have survived.
PowerLoss ==
    /\ powerLosses < MaxLosses
    /\ powerLosses' = powerLosses + 1
    /\ \E path \in disk.path, backup \in disk.backup : dir' = [path |-> path, backup |-> backup]
    /\ disk' = Synced(dir')
    /\ place' = [p \in Editor |-> "idle"]
    /\ opened' = [p \in Editor |-> NoFile]
    /\ opens' = [p \in Editor |-> 0]
    /\ UNCHANGED <<inodes, call, calls, replaces, kills, editorHistory>>

\* The operator puts a file in place in which the entries are enabled.
HostReplace ==
    /\ replaces < MaxReplaces
    /\ replaces' = replaces + 1
    /\ inodes' = inodes + 1
    /\ LET file == [ino |-> inodes + 1, entries |-> [e \in Entry |-> "on"]]
       IN  dir' = [dir EXCEPT !.path = file] /\ disk' = [disk EXCEPT !.path = {file}]
    /\ reported' = [e \in Entry |-> "no"]
    /\ replaced' = (replaced \/ \E p \in Editor : place[p] = "rename")
    /\ UNCHANGED <<editors, calls, kills, powerLosses>>

Step(p) ==
    \/ Begin(p) \/ Open(p) \/ LockSnapshot(p) \/ Backup(p) \/ SyncBackup(p)
    \/ Check(p) \/ Rename(p) \/ Sync(p) \/ Kill(p)

EditorNext == PowerLoss \/ HostReplace \/ \E p \in Editor : Step(p)

\* An editor that runs goes on, and its system calls return.
Progress(p) ==
    \/ Open(p) \/ LockSnapshot(p) \/ Backup(p) \/ SyncBackup(p)
    \/ Check(p) \/ Rename(p) \/ Sync(p)

EditorSpec == EditorInit /\ [][EditorNext]_editorVars
EditorFairSpec == EditorSpec /\ \A p \in Editor : WF_editorVars(Progress(p))

-----------------------------------------------------------------------------
(* Properties                                                              *)

\* Every variable has its type; an editor never reopens the file more often than
\* openLockedSnapshot allows.
EditorTypeOK ==
    /\ dir \in [path : File, backup : File \cup {NoFile}]
    /\ disk \in [path : SUBSET File, backup : SUBSET (File \cup {NoFile})]
    /\ place \in [Editor -> EditorPc]
    /\ call \in [Editor -> Call]
    /\ opened \in [Editor -> File \cup {NoFile}]
    /\ opens \in [Editor -> 0 .. MaxOpens]
    /\ inodes \in Nat
    /\ calls \in 0 .. MaxCalls /\ replaces \in 0 .. MaxReplaces
    /\ kills \in 0 .. MaxKills /\ powerLosses \in 0 .. MaxLosses
    /\ reported \in [Entry -> {"no", "renamed", "found", "written"}]
    /\ replaced \in BOOLEAN

\* Editors that run at the same time do not undo each other: an entry that was
\* disabled, and that the operator has not enabled since, is not enabled in
\* the file that processes see.  (A replacement by the operator between check
\* and rename lets two editors work on different files; it is excepted.)
DecisionsKept ==
    \A e \in Entry : (reported[e] # "no" /\ powerLosses = 0 /\ ~replaced) => dir.path.entries[e] # "on"

Atomic == INSTANCE AtomicFile
          WITH content <- dir.path.entries, durable <- {f.entries : f \in disk.path}, raced <- replaced

\* Editing is atomic (AtomicFile): a rename changes one entry of the file as it
\* is at that moment and no other, however many editors have read, locked and
\* replaced it meanwhile; nothing else an editor does changes what the file
\* says; and a power loss takes it back to what it said at the last sync, or
\* after an edit since.
ImplementsAtomicFile == Atomic!Spec

\* An entry the editor reported to have disabled stays disabled when power is
\* lost at any later point, until the operator enables it (with the same
\* exception).
WrittenIsDurable ==
    \A e \in Entry : (reported[e] = "written" /\ ~replaced) => \A f \in disk.path : f.entries[e] # "on"

\* Whatever is interrupted, a file that an editor changed is never found
\* without a backup, and the backup still has an entry enabled: removing
\* entries, repeating an edit or editing concurrently does not fill it with
\* what the editor wrote itself.
BackupRecoverable ==
    /\ (\E f \in disk.path, e \in Entry : f.entries[e] # "on") => NoFile \notin disk.backup
    /\ \A f \in ({dir.backup} \cup disk.backup) \ {NoFile} : \E e \in Entry : f.entries[e] = "on"

\* Every call of the editor returns: waiting for locks does not go round in
\* circles.
EditsReturn == \A p \in Editor : []<>(place[p] = "idle")
================================================================================

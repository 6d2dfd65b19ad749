---------------------------- MODULE RestoreJournal ----------------------------
(***************************************************************************)
(* Restoring a backup over the workspace of one account.  The rows are     *)
(* replaced in one transaction, and inside it the directories with the     *)
(* files of the account are renamed: the live one aside, the staged one in *)
(* its place.  A journal on disk, a row written by the same transaction    *)
(* and a marker file in each staged directory let a later recovery finish  *)
(* or undo the renames, in the request itself or at the next start.        *)
(*                                                                         *)
(* Uploads and deletions of files share the lock on the account's row with *)
(* restore and recovery, and run whenever neither holds it.  A file is its *)
(* name: ids of files are never used for other bytes.                      *)
(*                                                                         *)
(* Definitions whose comment says "Fault" are not part of the model: each  *)
(* is a mistake this code could contain, kept next to the definition it    *)
(* would replace, to show that a property would notice it.                 *)
(***************************************************************************)
EXTENDS Integers, FiniteSets

CONSTANTS
    None,
    Previous,               \* files of the account before the first restore
    Beginnings,             \* sets of areas that have a directory to begin with
    Backup,                 \* files in the backup
    Retained,               \* those of them without a row
    Uploads,                \* names of new files
    Deletable,              \* bound: files the user may delete
    Sweepable,              \* bound: areas the cleanup of temporary files reaches
    MaxRestores,            \* bound: restores begun
    MaxDeletes,             \* bound: files deleted
    MaxFaults               \* bound: crashes, failed calls to disk or database, and
                            \* cleanups that reach a restore

ASSUME RestoreAssumption ==
    /\ \A had \in Beginnings : had \subseteq {"attachments", "icons"}
    /\ Retained \subseteq Backup /\ Uploads \cap (Previous \cup Backup) = {}
    /\ MaxRestores \in Nat /\ MaxDeletes \in Nat /\ MaxFaults \in Nat

Restores == 1 .. MaxRestores
Names    == Previous \cup Backup \cup Uploads
Areas    == {"attachments", "icons"}

Directory(files, generation) == [files |-> files, generation |-> generation]

Directories == [files : SUBSET Names, generation : Restores \cup {None}] \cup {None}
Uploaded == [pc : {"moved", "stored", "failed", "gone"}, area : Areas, generation : Nat]

ASSUME NoneAssumption ==
    /\ None \notin Restores /\ \A areas \in SUBSET Areas : None # areas
    /\ None \notin Uploads \cup {"restore", "recovery"} /\ Uploads \cap {"restore", "recovery"} = {}
    /\ None \notin [files : SUBSET Names, generation : Restores \cup {None}] /\ None \notin Uploaded

VARIABLES
    target,                 \* the live directories
    old,                    \* .restore-previous-...: what a restore renamed aside
    staged,                 \* the operation root of a restore
    journals,               \* journals on disk: the areas that had a live directory
    db,                     \* the database
    lock,                   \* who holds the lock on the account's row
    commit,                 \* the restore whose COMMIT the database has yet to process
    server, job,            \* the process, and its restore or recovery
    uploads, cleanups,      \* other requests of the account
    restores, deletes, faults,
    mishaps, stuck,         \* history: what is known to need help, and what did
    swept                   \* history: files the cleanup took from a restore

disk == <<target, old, staged, journals>>
others == <<uploads, cleanups>>
bounds == <<restores, deletes, faults>>
history == <<mishaps, stuck, swept>>
vars == <<disk, db, lock, commit, server, job, others, bounds, history>>

Files(directory)      == IF directory = None THEN {} ELSE directory.files
Generation(directory) == IF directory = None THEN None ELSE directory.generation

Idle == [pc |-> "idle", op |-> 0, area |-> "attachments", committed |-> FALSE, seen |-> None]

Init ==
    /\ \E had \in Beginnings :
        /\ target = [a \in Areas |-> IF a \in had THEN Directory(Previous, None) ELSE None]
        /\ db = [rows |-> [a \in Areas |-> IF a \in had THEN Previous ELSE {}],
                 retained |-> [a \in Areas |-> {}], lacking |-> [a \in Areas |-> {}],
                 generation |-> 1, markers |-> {}]
    /\ old = [op \in Restores |-> [a \in Areas |-> None]]
    /\ staged = [op \in Restores |-> [a \in Areas |-> None]]
    /\ journals = [op \in Restores |-> None]
    /\ lock = None /\ commit = None
    /\ server = "up" /\ job = Idle
    /\ uploads = [u \in Uploads |-> None] /\ cleanups = {}
    /\ restores = 0 /\ deletes = 0 /\ faults = 0
    /\ mishaps = {} /\ stuck = {}
    /\ swept = [op \in Restores |-> [a \in Areas |-> {}]]

Pending == {op \in Restores : journals[op] # None}
Serving == server = "up" /\ lock = None

\* The rows and the file lists of createWorkspaceRestoreSnapshot.  The number
\* of the generation stands for the versions of the rows.
Fingerprint == <<db.rows, db.generation, [a \in Areas |-> Files(target[a])]>>

Fails == faults < MaxFaults /\ faults' = faults + 1

\* Attachments first, then custom icons, then what comes after both.
NextArea(pc, after) ==
    [job EXCEPT !.pc = IF job.area = "icons" THEN after ELSE pc,
                !.area = IF job.area = "icons" THEN "attachments" ELSE "icons"]
-----------------------------------------------------------------------------
(***************************************************************************)
(* importUserDataBackup                                                    *)
(***************************************************************************)

\* One import of an account is admitted at a time.
Stage ==
    /\ server = "up" /\ job = Idle /\ restores < MaxRestores
    /\ restores' = restores + 1
    /\ staged' = [staged EXCEPT ![restores + 1] =
                    [a \in Areas |-> Directory(Backup, restores + 1)]]
    /\ job' = [Idle EXCEPT !.pc = "staged", !.op = restores + 1, !.seen = Fingerprint]
    /\ UNCHANGED <<target, old, journals, db, lock, commit, server, others,
                   deletes, faults, history>>

\* 409, a session that ended, a lease, a source that was deleted: nothing has
\* been replaced and no journal is there.
Refuse ==
    /\ job.pc = "staged"
    /\ staged' = [staged EXCEPT ![job.op] = [a \in Areas |-> None]]
    /\ job' = Idle
    /\ UNCHANGED <<target, old, journals, db, lock, commit, server, others, bounds, history>>

\* Fault: the workspace may have changed since the user was shown it.
UnseenChanges == TRUE

Unchanged == job.seen = Fingerprint

HadPrevious == {a \in Areas : target[a] # None}

Begin ==
    /\ job.pc = "staged" /\ lock = None /\ Unchanged
    /\ lock' = "restore"
    /\ journals' = [journals EXCEPT ![job.op] = HadPrevious]
    /\ job' = [job EXCEPT !.pc = "move"]
    /\ mishaps' = IF Pending # {} THEN mishaps \cup {"superseded"} ELSE mishaps
    /\ UNCHANGED <<target, old, staged, db, commit, server, others, bounds, stuck, swept>>

MoveAside ==
    /\ job.pc = "move" /\ target[job.area] # None
    /\ old[job.op][job.area] = None
    /\ old' = [old EXCEPT ![job.op][job.area] = target[job.area]]
    /\ target' = [target EXCEPT ![job.area] = None]
    /\ UNCHANGED <<staged, journals, db, lock, commit, server, job, others, bounds, history>>

MoveIn ==
    /\ job.pc = "move" /\ target[job.area] = None /\ staged[job.op][job.area] # None
    /\ target' = [target EXCEPT ![job.area] = staged[job.op][job.area]]
    /\ staged' = [staged EXCEPT ![job.op][job.area] = None]
    /\ job' = NextArea("move", "commit")
    /\ UNCHANGED <<old, journals, db, lock, commit, server, others, bounds, history>>

SendCommit ==
    /\ job.pc = "commit"
    /\ commit' = job.op
    /\ job' = [job EXCEPT !.pc = "sent"]
    /\ UNCHANGED <<disk, db, lock, server, others, bounds, history>>

\* A statement or a rename fails and the transaction is rolled back.  A rename
\* of a staged directory that is gone always fails.
Abort ==
    /\ job.pc \in {"move", "commit"}
    /\ \/ Fails
       \/ /\ job.pc = "move" /\ target[job.area] = None /\ staged[job.op][job.area] = None
          /\ faults' = faults
    /\ lock' = None
    /\ job' = [job EXCEPT !.pc = "failed"]
    /\ UNCHANGED <<disk, db, commit, server, others, restores, deletes, history>>

\* The database processes a COMMIT, whether or not anybody waits for it.
\* `lacking' is not stored anywhere: the files that were swept before.
Restored ==
    [rows |-> [a \in Areas |-> Backup \ Retained], retained |-> [a \in Areas |-> Retained],
     lacking |-> swept[commit],
     generation |-> db.generation + 1, markers |-> db.markers \cup {commit}]

ApplyCommit ==
    /\ commit # None
    /\ db' = Restored
    /\ commit' = None /\ lock' = None
    /\ UNCHANGED <<disk, server, job, others, bounds, history>>

\* The connection is lost before the COMMIT arrives.
DropCommit ==
    /\ commit # None /\ Fails
    /\ commit' = None /\ lock' = None
    /\ UNCHANGED <<disk, db, server, job, others, restores, deletes, history>>

Answered ==
    /\ job.pc = "sent" /\ commit = None
    /\ job' = [job EXCEPT !.pc = IF job.op \in db.markers THEN "recover" ELSE "failed"]
    /\ UNCHANGED <<disk, db, lock, commit, server, others, bounds, history>>

LoseAnswer ==
    /\ job.pc = "sent" /\ Fails
    /\ job' = [job EXCEPT !.pc = "failed"]
    /\ UNCHANGED <<disk, db, lock, commit, server, others, restores, deletes, history>>

\* The request looks for its row, without a lock, to know what to answer.
Verify ==
    /\ job.pc = "failed"
    /\ job' = [job EXCEPT !.pc = "recover", !.committed = job.op \in db.markers]
    /\ UNCHANGED <<disk, db, lock, commit, server, others, bounds, history>>

\* DATA_RESTORE_OUTCOME_UNKNOWN: everything is left to the next start.
OutcomeUnknown ==
    /\ job.pc = "failed" /\ Fails
    /\ job' = Idle
    /\ UNCHANGED <<disk, db, lock, commit, server, others, restores, deletes, history>>
-----------------------------------------------------------------------------
(***************************************************************************)
(* recoverRestoreJournal                                                   *)
(***************************************************************************)
Live      == target[job.area]
Aside     == old[job.op][job.area]
Own       == Generation(Live) = job.op
Strangers == Files(Live) \ Backup

Undoing == job.pc = "area" /\ ~job.committed
UndoingReplaced == Undoing /\ job.area \in journals[job.op]
UndoingAdded    == Undoing /\ job.area \notin journals[job.op]

\* Fault: the outcome the request saw before it had the lock.
OutcomeSeen == job.committed

OutcomeUnderLock == job.op \in db.markers

RecoverBegin ==
    /\ job.pc = "recover" /\ lock = None
    /\ lock' = "recovery"
    /\ job' = [job EXCEPT !.pc = "area", !.area = "attachments", !.seen = None,
                          !.committed = OutcomeUnderLock]
    /\ UNCHANGED <<disk, db, commit, server, others, bounds, history>>

\* recoverTrackedRestoreDirectory after a commit.  Its branch for a directory
\* that is still staged is not reached: COMMIT is sent after both renames.
DropPrevious ==
    /\ job.pc = "area" /\ job.committed /\ Own
    /\ old' = [old EXCEPT ![job.op][job.area] = None]
    /\ job' = NextArea("area", "root")
    /\ UNCHANGED <<target, staged, journals, db, lock, commit, server, others, bounds, history>>

\* ... after a rollback, where there was a directory: preserveRestoreEntry
\* links a file of nobody's backup to the old directory, then unlinks it here.
KeepLink(n) ==
    /\ UndoingReplaced /\ Aside # None /\ Live # None /\ Own
    /\ n \in Strangers \ Aside.files
    /\ old' = [old EXCEPT ![job.op][job.area].files = @ \cup {n}]
    /\ UNCHANGED <<target, staged, journals, db, lock, commit, server, job, others, bounds, history>>

KeepUnlink(n) ==
    /\ UndoingReplaced /\ Aside # None /\ Live # None /\ Own
    /\ n \in Strangers \cap Aside.files
    /\ target' = [target EXCEPT ![job.area].files = @ \ {n}]
    /\ UNCHANGED <<old, staged, journals, db, lock, commit, server, job, others, bounds, history>>

\* Fault: the directory goes with what other requests put into it.
NothingElse == TRUE

NothingToKeep == Strangers = {}

RemoveBegin ==
    /\ UndoingReplaced /\ Aside # None /\ Live # None /\ Own
    /\ NothingToKeep
    /\ job' = [job EXCEPT !.pc = "removing"]
    /\ UNCHANGED <<disk, db, lock, commit, server, others, bounds, history>>

\* A recursive removal takes one entry after the other, in no certain order.
RemoveEntry ==
    /\ job.pc = "removing"
    /\ \/ \E n \in Live.files : target' = [target EXCEPT ![job.area].files = @ \ {n}]
       \/ /\ Live.generation # None
          /\ target' = [target EXCEPT ![job.area].generation = None]
    /\ UNCHANGED <<old, staged, journals, db, lock, commit, server, job, others, bounds, history>>

RemoveEnd ==
    /\ job.pc = "removing" /\ Live = Directory({}, None)
    /\ target' = [target EXCEPT ![job.area] = None]
    /\ job' = [job EXCEPT !.pc = "area"]
    /\ UNCHANGED <<old, staged, journals, db, lock, commit, server, others, bounds, history>>

MoveBack ==
    /\ UndoingReplaced /\ Aside # None /\ Live = None
    /\ target' = [target EXCEPT ![job.area] = Aside]
    /\ old' = [old EXCEPT ![job.op][job.area] = None]
    /\ job' = NextArea("area", "root")
    /\ UNCHANGED <<staged, journals, db, lock, commit, server, others, bounds, history>>

\* The directory is back already, or was never moved.
KeepReplaced ==
    /\ UndoingReplaced /\ Aside = None /\ Live # None /\ ~Own
    /\ job' = NextArea("area", "root")
    /\ UNCHANGED <<disk, db, lock, commit, server, others, bounds, history>>

\* ... after a rollback, where there was none
RemoveAdded(n) ==
    /\ UndoingAdded /\ Live # None /\ Own
    /\ n \in Files(Live) \cap Backup
    /\ target' = [target EXCEPT ![job.area].files = @ \ {n}]
    /\ UNCHANGED <<old, staged, journals, db, lock, commit, server, job, others, bounds, history>>

AddedAreGone == Files(Live) \cap Backup = {}

Unmark ==
    /\ UndoingAdded /\ Live # None /\ Own
    /\ AddedAreGone
    /\ target' = [target EXCEPT ![job.area].generation = None]
    /\ job' = [job EXCEPT !.pc = "emptied"]
    /\ UNCHANGED <<old, staged, journals, db, lock, commit, server, others, bounds, history>>

RemoveEmpty ==
    /\ job.pc = "emptied"
    /\ target' = [target EXCEPT ![job.area] = IF @.files = {} THEN None ELSE @]
    /\ job' = NextArea("area", "root")
    /\ UNCHANGED <<old, staged, journals, db, lock, commit, server, others, bounds, history>>

KeepAdded ==
    /\ UndoingAdded /\ Generation(Live) = None
    /\ job' = NextArea("area", "root")
    /\ UNCHANGED <<disk, db, lock, commit, server, others, bounds, history>>

\* Recovery meets what it cannot explain, and leaves everything for a person.
Inexplicable ==
    /\ job.pc = "area"
    /\ \/ job.committed /\ ~Own
       \/ UndoingReplaced /\ Aside # None /\ Live # None /\ ~Own
       \/ UndoingReplaced /\ Aside = None /\ (Live = None \/ Own)
       \/ UndoingAdded /\ Generation(Live) \notin {None, job.op}

GiveUp ==
    /\ Inexplicable
    /\ lock' = None /\ job' = Idle
    /\ stuck' = stuck \cup {job.op}
    /\ server' = IF server = "starting" THEN "manual" ELSE server
    /\ UNCHANGED <<disk, db, commit, others, bounds, mishaps, swept>>
-----------------------------------------------------------------------------
(***************************************************************************)
(* The end of a recovery, and recoveries that are interrupted.             *)
(***************************************************************************)
Unmarked(directory) == IF directory = None THEN None ELSE Directory(directory.files, None)

\* Fault: the marker files go while the journal still needs them.
UnmarkFirst ==
    /\ job.pc = "root"
    /\ staged' = [staged EXCEPT ![job.op] = [a \in Areas |-> None]]
    /\ target' = [a \in Areas |-> Unmarked(target[a])]
    /\ job' = [job EXCEPT !.pc = "journal"]
    /\ UNCHANGED <<old, journals, db, lock, commit, server, others, bounds, history>>

RemoveRoot ==
    /\ job.pc = "root"
    /\ staged' = [staged EXCEPT ![job.op] = [a \in Areas |-> None]]
    /\ job' = [job EXCEPT !.pc = "journal"]
    /\ UNCHANGED <<target, old, journals, db, lock, commit, server, others, bounds, history>>

RemoveJournal ==
    /\ job.pc = "journal"
    /\ journals' = [journals EXCEPT ![job.op] = None]
    /\ job' = [job EXCEPT !.pc = IF job.committed THEN "unmark" ELSE "forget"]
    /\ lock' = IF job.committed THEN lock ELSE None
    /\ UNCHANGED <<target, old, staged, db, commit, server, others, bounds, history>>

\* Markers that cannot be removed are left where they are.
RemoveMarkers ==
    /\ job.pc = "unmark"
    /\ \/ target' = [a \in Areas |-> Unmarked(target[a])] /\ faults' = faults
       \/ target' = target /\ Fails
    /\ lock' = None
    /\ job' = [job EXCEPT !.pc = "forget"]
    /\ UNCHANGED <<old, staged, journals, db, commit, server, others, restores, deletes, history>>

Forget ==
    /\ job.pc = "forget"
    /\ \/ db' = [db EXCEPT !.markers = @ \ {job.op}] /\ faults' = faults
       \/ db' = db /\ Fails
    /\ job' = Idle
    /\ UNCHANGED <<disk, lock, commit, server, others, restores, deletes, history>>

Torn == job.pc = "removing" /\ Live.generation = None

Mishaps == IF Torn THEN mishaps \cup {"torn"} ELSE mishaps

\* Fault: the transaction stays open when recovery throws.
LockKept == lock

LockReleased == None

\* A call to the disk or the database fails.  A request ends with its journal
\* in place; a start is tried again.
RecoveryFails ==
    /\ job.pc \in {"area", "removing", "emptied", "root", "journal"} /\ Fails
    /\ lock' = LockReleased
    /\ job' = Idle
    /\ mishaps' = Mishaps
    /\ UNCHANGED <<disk, db, commit, server, others, restores, deletes, stuck, swept>>

\* The database rolls back what was not committed.  A COMMIT it has received
\* keeps the lock.
Crash ==
    /\ server \in {"up", "starting"} /\ Fails
    /\ server' = "starting" /\ job' = Idle
    /\ lock' = IF commit # None THEN lock ELSE None
    /\ uploads' = [u \in Uploads |->
                     IF uploads[u] # None /\ uploads[u].pc # "stored"
                     THEN [uploads[u] EXCEPT !.pc = "gone"] ELSE uploads[u]]
    /\ cleanups' = {}
    /\ mishaps' = Mishaps
    /\ UNCHANGED <<disk, db, commit, restores, deletes, stuck, swept>>

\* recoverInterruptedDataRestores: before the server listens.
RecoverAtStart(op) ==
    /\ server = "starting" /\ job = Idle /\ op \in Pending
    /\ job' = [Idle EXCEPT !.pc = "recover", !.op = op]
    /\ UNCHANGED <<disk, db, lock, commit, server, others, bounds, history>>

Listen ==
    /\ server = "starting" /\ job = Idle /\ Pending = {}
    /\ server' = "up"
    /\ UNCHANGED <<disk, db, lock, commit, job, others, bounds, history>>
-----------------------------------------------------------------------------
(***************************************************************************)
(* Files of the account: uploads, deletions, and the cleanup of old files. *)
(***************************************************************************)
Added(directory, n) == Directory(Files(directory) \cup {n}, Generation(directory))
Without(directory, n) ==
    IF directory = None THEN None ELSE Directory(directory.files \ {n}, directory.generation)

\* The file comes first, under the lock; mkdir makes a directory if need be.
Store(u, a) ==
    /\ Serving /\ uploads[u] = None
    /\ lock' = u
    /\ target' = [target EXCEPT ![a] = Added(@, u)]
    /\ uploads' = [uploads EXCEPT ![u] = [pc |-> "moved", area |-> a, generation |-> db.generation]]
    /\ mishaps' = IF target[a] = None /\ Pending # {} THEN mishaps \cup {"recreated"} ELSE mishaps
    /\ UNCHANGED <<old, staged, journals, db, commit, server, job, cleanups, bounds,
                   stuck, swept>>

StoreCommit(u) ==
    /\ uploads[u] # None /\ uploads[u].pc = "moved"
    /\ db' = [db EXCEPT !.rows[uploads[u].area] = @ \cup {u}]
    /\ lock' = None
    /\ uploads' = [uploads EXCEPT ![u].pc = "stored"]
    /\ UNCHANGED <<disk, commit, server, job, cleanups, bounds, history>>

\* An icon is removed before its transaction ends, an attachment afterwards.
StoreFails(u) ==
    /\ uploads[u] # None /\ uploads[u].pc = "moved" /\ Fails
    /\ lock' = None
    /\ IF uploads[u].area = "icons"
       THEN /\ target' = [target EXCEPT !["icons"] = Without(@, u)]
            /\ uploads' = [uploads EXCEPT ![u].pc = "gone"]
       ELSE /\ uploads' = [uploads EXCEPT ![u].pc = "failed"]
            /\ UNCHANGED target
    /\ UNCHANGED <<old, staged, journals, db, commit, server, job, cleanups,
                   restores, deletes, history>>

\* Fault: the path is taken for the file that was put there.
AnyGeneration(generation) == TRUE

SameGeneration(generation) == generation = db.generation

StoreUndo(u) ==
    /\ Serving /\ uploads[u] # None /\ uploads[u].pc = "failed"
    /\ target' = IF SameGeneration(uploads[u].generation)
                 THEN [target EXCEPT ![uploads[u].area] = Without(@, u)] ELSE target
    /\ uploads' = [uploads EXCEPT ![u].pc = "gone"]
    /\ UNCHANGED <<old, staged, journals, db, lock, commit, server, job, cleanups,
                   bounds, history>>

\* A block is deleted in one transaction, its file in another.
Delete(n) ==
    /\ Serving /\ deletes < MaxDeletes /\ n \in db.rows["attachments"] \cap Deletable
    /\ deletes' = deletes + 1
    /\ db' = [db EXCEPT !.rows["attachments"] = @ \ {n}]
    /\ cleanups' = cleanups \cup {[name |-> n, generation |-> db.generation]}
    /\ UNCHANGED <<disk, lock, commit, server, job, uploads, restores, faults, history>>

RemoveDeleted(c) ==
    /\ Serving /\ c \in cleanups
    /\ target' = IF SameGeneration(c.generation) /\ c.name \notin db.rows["attachments"]
                 THEN [target EXCEPT !["attachments"] = Without(@, c.name)] ELSE target
    /\ cleanups' = cleanups \ {c}
    /\ UNCHANGED <<old, staged, journals, db, lock, commit, server, job, uploads, bounds, history>>

\* listCustomIcons drops the rows of the library whose files are not there.
ListIcons ==
    /\ Serving
    /\ db' = [db EXCEPT !.rows["icons"] = @ \cap Files(target["icons"])]
    /\ UNCHANGED <<disk, lock, commit, server, job, others, bounds, history>>

\* cleanupStaleDataTransferTempFiles lists the operation roots that have no
\* journal, then removes the old ones.  The root of a restore may be listed
\* before its journal is written, and the removal takes one entry after the
\* other, the marker file among them and an empty directory last, for as long
\* as the directory is found at its staged path.  Only a restore that still
\* needs its root is concerned.
Untouched == \A a \in Areas : staged[job.op][a] \in {None, Directory(Backup, job.op)}

SweepEntry(a) ==
    LET directory == staged[job.op][a] IN
    /\ server = "up" /\ job.pc \in {"staged", "move"} /\ directory # None
    /\ a \in Sweepable
    /\ IF Untouched THEN Fails ELSE faults' = faults
    /\ \/ \E n \in directory.files :
            /\ staged' = [staged EXCEPT ![job.op][a].files = @ \ {n}]
            /\ swept' = [swept EXCEPT ![job.op][a] = @ \cup {n}]
            /\ UNCHANGED mishaps
       \/ /\ directory.generation # None
          /\ staged' = [staged EXCEPT ![job.op][a].generation = None]
          /\ mishaps' = mishaps \cup {"unmarked"}
          /\ UNCHANGED swept
       \/ /\ directory = Directory({}, None)
          /\ staged' = [staged EXCEPT ![job.op][a] = None]
          /\ UNCHANGED <<mishaps, swept>>
    /\ UNCHANGED <<target, old, journals, db, lock, commit, server, job, others,
                   restores, deletes, stuck>>
-----------------------------------------------------------------------------
Undo ==
    \/ \E n \in Names : KeepLink(n) \/ KeepUnlink(n) \/ RemoveAdded(n)
    \/ RemoveBegin \/ RemoveEntry \/ RemoveEnd \/ MoveBack \/ KeepReplaced
    \/ Unmark \/ RemoveEmpty \/ KeepAdded

Recover ==
    \/ RecoverBegin \/ DropPrevious \/ Undo \/ GiveUp
    \/ RemoveRoot \/ RemoveJournal \/ RemoveMarkers \/ Forget

Restore ==
    \/ Begin \/ Refuse \/ MoveAside \/ MoveIn \/ SendCommit \/ Abort
    \/ Answered \/ LoseAnswer \/ Verify \/ OutcomeUnknown

Start == Listen \/ \E op \in Restores : RecoverAtStart(op)

Database == ApplyCommit \/ DropCommit

Finish(u) == StoreCommit(u) \/ StoreFails(u)

Next ==
    \/ Stage \/ Restore \/ Recover \/ RecoveryFails \/ Start \/ Crash \/ Database
    \/ \E u \in Uploads : (\E a \in Areas : Store(u, a)) \/ Finish(u) \/ StoreUndo(u)
    \/ \E n \in Names : Delete(n)
    \/ \E c \in cleanups : RemoveDeleted(c)
    \/ ListIcons
    \/ \E a \in Areas : SweepEntry(a)

\* A job that has begun goes on, the database answers, transactions end, and
\* whoever restarts the process restarts it.  The lock is handed out in turn.
Fairness ==
    /\ WF_vars(Restore) /\ SF_vars(Recover) /\ WF_vars(Start) /\ WF_vars(Database)
    /\ \A u \in Uploads : WF_vars(Finish(u))

Spec == Init /\ [][Next]_vars /\ Fairness
-----------------------------------------------------------------------------
Pcs == {"idle", "staged", "move", "commit", "sent", "failed", "recover", "area", "removing",
        "emptied", "root", "journal", "unmark", "forget"}

\* Every variable keeps its type, at most one restore or recovery runs, and
\* the lock on the account is held by a transaction that is open.
TypeOK ==
    /\ target \in [Areas -> Directories]
    /\ old \in [Restores -> [Areas -> Directories]]
    /\ staged \in [Restores -> [Areas -> Directories]]
    /\ journals \in [Restores -> (SUBSET Areas) \cup {None}]
    /\ db.rows \in [Areas -> SUBSET Names] /\ db.retained \in [Areas -> SUBSET Names]
    /\ db.lacking \in [Areas -> SUBSET Names]
    /\ swept \in [Restores -> [Areas -> SUBSET Names]]
    /\ db.generation \in 1 .. MaxRestores + 1 /\ db.markers \subseteq Restores
    /\ server \in {"up", "starting", "manual"}
    /\ job.pc \in Pcs /\ job.op \in 0 .. MaxRestores /\ job.area \in Areas
    /\ commit \in Restores \cup {None}
    /\ lock \in Uploads \cup {None, "restore", "recovery"}
    /\ lock = "restore" <=> job.pc \in {"move", "commit"} \/ commit # None
    /\ lock = "recovery" <=> job.pc \in {"area", "removing", "emptied", "root", "journal", "unmark"}
    /\ \A u \in Uploads : lock = u <=> (uploads[u] # None /\ uploads[u].pc = "moved")

\* What the account is owed: the files of its rows, and the files a restore
\* brought back without one, but for those that the cleanup of temporary
\* files took from that restore before they were in place.
Owed(a) == (db.rows[a] \cup db.retained[a]) \ db.lacking[a]

Kept(a) == Files(target[a]) \cup UNION {Files(old[op][a]) : op \in Pending}

\* A file of the account is in its live directory, or in one that a journal
\* on disk remembers, whatever crashes, fails or runs in between: a rollback
\* has its old files and the uploads made meanwhile, a commit its new ones.
NothingIsLost == \A a \in Areas : Owed(a) \subseteq Kept(a)

\* Without a journal to recover, rows and live directories agree as a whole:
\* no row of the old or the new workspace is without its file.
SettledWorkspace == Pending = {} => \A a \in Areas : Owed(a) \subseteq Files(target[a])

\* A restore replaces the workspace its user was shown when it was admitted,
\* and no edit, upload or late commit that came after.
ReplacesOnlySeen ==
    [][db'.generation # db.generation /\ job.op = commit /\ job.seen # None
        => job.seen[1] = db.rows /\ job.seen[2] = db.generation]_vars

\* A row of the icon library that still has a file owed to it goes with its
\* restore or not at all, except while a journal waits: the files the rows
\* stand for are then in another directory.
LibraryKept ==
    [][Pending = {} /\ db'.generation = db.generation
        => db.rows["icons"] \ db.lacking["icons"] \subseteq db'.rows["icons"]]_vars

\* Recovery explains every state that crashes, failed calls and other requests
\* lead to, unless a directory was removed in part, lost its marker to the
\* cleanup of temporary files, was made anew between two renames, or was
\* replaced by another restore while a journal was waiting.
HelpOnlyAfterMishaps == stuck # {} => mishaps # {}

\* Whatever happens, a restart or a new attempt finishes an interrupted
\* restore by itself, as the message for an unknown outcome says.
RecoveryCompletes == stuck = {}

\* A restore or recovery ends, and a process that starts comes to listen or to
\* ask for help: no error path keeps the lock the next recovery needs.
RecoveryEnds ==
    /\ job # Idle ~> job = Idle
    /\ server = "starting" ~> server \in {"up", "manual"}
=============================================================================

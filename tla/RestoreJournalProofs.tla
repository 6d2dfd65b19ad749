------------------------- MODULE RestoreJournalProofs -------------------------
(***************************************************************************)
(* Proofs about RestoreJournal, for any files, any backup, and any number  *)
(* of restores, uploads, deletions and faults.  The difficulty is that a   *)
(* recovery removes directories: the invariant says where else every file  *)
(* is that it may remove.                                                  *)
(***************************************************************************)
EXTENDS RestoreJournal, TLAPS

\* Restores that a recovery would take back.
Undone == {op \in Pending : op \notin db.markers}

\* The file is in the directory, and not as part of what would be taken back.
Safe(n, directory) ==
    n \in Files(directory) /\ (n \in Backup => Generation(directory) \notin Undone)

\* Every file of the account is safe in its live directory or in one that a
\* journal will bring back.  A directory that is being removed does not count.
Protected ==
    \A a \in Areas : \A n \in Owed(a) :
        \/ Safe(n, target[a]) /\ ~(job.pc = "removing" /\ job.area = a)
        \/ \E op \in Undone : Safe(n, old[op][a])

Seen == [Areas -> SUBSET Names] \X Nat \X [Areas -> SUBSET Names]

Jobs == [pc : Pcs, op : 0 .. MaxRestores, area : Areas, committed : BOOLEAN,
         seen : Seen \cup {None}]

Databases == [rows : [Areas -> SUBSET Names], retained : [Areas -> SUBSET Names],
              lacking : [Areas -> SUBSET Names], generation : Nat, markers : SUBSET Restores]

\* The shape of the state.
Typed ==
    /\ target \in [Areas -> Directories]
    /\ old \in [Restores -> [Areas -> Directories]]
    /\ staged \in [Restores -> [Areas -> Directories]]
    /\ journals \in [Restores -> (SUBSET Areas) \cup {None}]
    /\ db \in Databases
    /\ server \in {"up", "starting", "manual"}
    /\ job \in Jobs
    /\ commit \in Restores \cup {None}
    /\ uploads \in [Uploads -> Uploaded \cup {None}]
    /\ cleanups \subseteq [name : Names, generation : Nat]
    /\ restores \in 0 .. MaxRestores
    /\ swept \in [Restores -> [Areas -> SUBSET Names]]

\* Who holds the lock.
Locked ==
    /\ lock \in Uploads \cup {None, "restore", "recovery"}
    /\ lock = "restore" <=> job.pc \in {"move", "commit"} \/ commit # None
    /\ lock = "recovery" <=> job.pc \in {"area", "removing", "emptied", "root", "journal", "unmark"}
    /\ \A u \in Uploads : lock = u <=> (uploads[u] # None /\ uploads[u].pc = "moved")
    /\ job.pc \in {"move", "commit"} => commit = None

\* A restore that has not begun has left no trace but its staged files.
Unbegun(op) ==
    /\ journals[op] = None /\ op \notin db.markers /\ commit # op
    /\ \A a \in Areas : old[op][a] = None /\ Generation(target[a]) # op
    /\ \A q \in Restores, a \in Areas : Generation(old[q][a]) # op

\* Restores begin and commit in the order of their numbers, each once.
Numbered ==
    /\ \A op \in Restores : op > restores \/ (job.pc = "staged" /\ op = job.op) => Unbegun(op)
    /\ job.pc # "idle" => job.op \in 1 .. restores
    /\ job.pc \in {"staged", "move", "commit"} => job.op = restores /\ db.generation <= restores
    /\ commit # None => db.generation <= commit
    /\ db.generation \in 1 .. restores + 1
    /\ job.pc = "staged" /\ commit # None => commit < job.op

\* What a job may take for granted of its journal and of its outcome.
JobFits ==
    /\ job.pc \in {"move", "commit", "sent", "failed", "recover", "area", "removing", "emptied",
                   "root", "journal"} => journals[job.op] # None
    /\ job.pc \in {"unmark", "forget"} => journals[job.op] = None
    /\ job.pc \in {"move", "commit"} => job.op \notin db.markers
    /\ job.pc \in {"area", "removing", "emptied", "root", "journal", "unmark"}
        => (job.committed <=> job.op \in db.markers)
    /\ job.pc = "unmark" => job.committed
    /\ job.pc \in {"removing", "emptied"} => ~job.committed
    /\ job.pc = "staged" => job.area = "attachments"

\* The directory is a restore's, complete but for the files in `gone'.
Brought(directory, op, gone) ==
    /\ directory # None
    /\ Files(directory) \subseteq Backup /\ Backup \ Files(directory) \subseteq gone
    /\ Generation(directory) \in {None, op}

InPlace(op) == \A a \in Areas : Brought(target[a], op, swept[op][a])

\* Until the cleanup takes one, every staged directory has its marker.
Marked ==
    mishaps = {} =>
        /\ \A op \in Restores, a \in Areas : staged[op][a] # None => Generation(staged[op][a]) = op
        /\ commit # None => \A a \in Areas : Generation(target[a]) = commit
        /\ job.pc = "commit" => \A a \in Areas : Generation(target[a]) = job.op
        /\ job.pc = "move" /\ job.area = "icons" => Generation(target["attachments"]) = job.op

\* How far a restore has come; nothing has changed when its COMMIT is processed.
Moving ==
    /\ \A op \in Restores, a \in Areas :
        staged[op][a] # None => Brought(staged[op][a], op, swept[op][a])
    /\ commit # None => journals[commit] # None /\ commit \notin db.markers /\ InPlace(commit)
    /\ job.pc = "commit" => InPlace(job.op)
    /\ job.pc = "move" => \A a \in Areas :
        IF a = "attachments" /\ job.area = "icons" THEN Brought(target[a], job.op, swept[job.op][a])
        ELSE target[a] # None => a \in journals[job.op] /\ Generation(target[a]) # job.op

\* How far the recovery of a restore has come that is taken back.
Putting ==
    /\ \A op \in Pending : \A a \in Areas \ journals[op] : old[op][a] = None
    /\ \A op \in Restores, a \in Areas : Generation(old[op][a]) # op
    /\ job.pc \in {"area", "removing", "emptied"} /\ ~job.committed /\ job.area = "icons"
        => old[job.op]["attachments"] = None
    /\ job.pc \in {"root", "journal"} /\ ~job.committed => \A a \in Areas : old[job.op][a] = None
    /\ job.pc = "removing" =>
        /\ job.area \in journals[job.op] /\ old[job.op][job.area] # None
        /\ target[job.area] # None /\ Files(target[job.area]) \subseteq Backup
        /\ Generation(target[job.area]) \in {None, job.op}
    /\ job.pc = "emptied" =>
        /\ job.area \notin journals[job.op]
        /\ target[job.area] # None /\ Generation(target[job.area]) = None

\* Rows, and what uploads and deletions have under way.
RowsFit ==
    /\ \A a \in Areas : db.rows[a] \cap db.retained[a] = {} /\ db.retained[a] \subseteq Backup
    /\ \A u \in Uploads :
        /\ uploads[u] = None \/ uploads[u].pc # "stored" => \A a \in Areas : u \notin Owed(a)
        /\ uploads[u] # None /\ uploads[u].pc = "moved" => u \in Files(target[uploads[u].area])
    /\ \A c \in cleanups :
        /\ c.generation <= db.generation
        /\ c.generation = db.generation => c.name \notin db.retained["attachments"]

\* From its journal to its COMMIT a restore holds on to what its user was shown.
SeenFits ==
    job.pc \in {"move", "commit"} \/ (commit # None /\ job.op = commit)
        => job.seen = None \/ (job.seen[1] = db.rows /\ job.seen[2] = db.generation)

\* Recovery knows what it meets in the area.
Explained(op, a) ==
    IF op \in db.markers THEN Generation(target[a]) = op
    ELSE IF a \in journals[op]
    THEN /\ old[op][a] = None => target[a] # None /\ Generation(target[a]) # op
         /\ old[op][a] # None /\ target[a] # None /\ ~(job.pc = "removing" /\ job.area = a)
                => Generation(target[a]) = op
    ELSE Generation(target[a]) \in {None, op}

\* As long as no mishap is known.
Tidy ==
    mishaps = {} =>
        /\ \A p, q \in Pending : p = q
        /\ job.pc \in {"unmark", "forget"} => Pending = {}
        /\ \A op \in Pending, a \in Areas : Explained(op, a)
        /\ stuck = {}

\* The inductive invariant.
IInv ==
    /\ Typed /\ Locked /\ Numbered /\ JobFits /\ Moving /\ Marked /\ Putting
    /\ RowsFit /\ SeenFits /\ Tidy /\ Protected
-----------------------------------------------------------------------------
(***************************************************************************)
(* Directories and jobs                                                    *)
(***************************************************************************)

\* A directory has files and perhaps a generation.
LEMMA DirectoryParts ==
  ASSUME NEW d \in Directories
  PROVE  /\ Files(d) \in SUBSET Names /\ Generation(d) \in Restores \cup {None}
         /\ d # None => d = Directory(Files(d), Generation(d))
         /\ d # None => d.files = Files(d) /\ d.generation = Generation(d)
         /\ d = None => Files(d) = {} /\ Generation(d) = None
BY NoneAssumption DEF Directories, Directory, Files, Generation

\* A directory with given files and generation is there.
LEMMA DirectoryMade ==
  ASSUME NEW files \in SUBSET Names, NEW generation \in Restores \cup {None}
  PROVE  LET d == Directory(files, generation) IN
         /\ d \in Directories /\ d # None
         /\ Files(d) = files /\ Generation(d) = generation
         /\ d.files = files /\ d.generation = generation
BY NoneAssumption DEF Directories, Directory, Files, Generation

\* Another set of files, another generation.
LEMMA DirectoryChanged ==
  ASSUME NEW d \in Directories, d # None, NEW x
  PROVE  /\ [d EXCEPT !.files = x] = Directory(x, Generation(d))
         /\ [d EXCEPT !.generation = x] = Directory(Files(d), x)
BY DirectoryParts DEF Directory, Directories

\* A job goes on within its area, or to another place.
LEMMA JobChanged ==
  ASSUME job \in Jobs, NEW pc \in Pcs, NEW area \in Areas
  PROVE  LET next == [job EXCEPT !.pc = pc, !.area = area] IN
         /\ next \in Jobs /\ next.pc = pc /\ next.op = job.op /\ next.area = area
         /\ next.committed = job.committed /\ next.seen = job.seen
BY DEF Jobs

LEMMA JobGoesOn ==
  ASSUME job \in Jobs, NEW pc \in Pcs
  PROVE  LET next == [job EXCEPT !.pc = pc] IN
         /\ next \in Jobs /\ next.pc = pc /\ next.op = job.op /\ next.area = job.area
         /\ next.committed = job.committed /\ next.seen = job.seen
BY DEF Jobs
-----------------------------------------------------------------------------
(***************************************************************************)
(* What the invariant says where a job or a request stands                 *)
(***************************************************************************)

\* Every directory is one, and the constants are not mixed up.
LEMMA Shapes ==
  ASSUME IInv
  PROVE  /\ \A a \in Areas : target[a] \in Directories
         /\ \A op \in Restores, a \in Areas : old[op][a] \in Directories /\ staged[op][a] \in Directories
         /\ \A op \in Restores : journals[op] \in (SUBSET Areas) \cup {None}
         /\ \A a \in Areas : db.rows[a] \subseteq Names /\ db.retained[a] \subseteq Names
         /\ db.markers \subseteq Restores /\ db.generation \in Nat
         /\ Files(None) = {} /\ Generation(None) = None
         /\ None \notin Restores
         /\ \A u \in Uploads : uploads[u] # None =>
                uploads[u].pc \in {"moved", "stored", "failed", "gone"} /\ uploads[u].area \in Areas
                /\ uploads[u].generation \in Nat
BY NoneAssumption DEF IInv, Typed, Databases, Files, Generation, Uploaded, Areas

\* A job is about a restore that has begun.
LEMMA JobsRestore ==
  ASSUME IInv, job.pc # "idle"
  PROVE  /\ job \in Jobs /\ job.area \in Areas /\ job.committed \in BOOLEAN
         /\ job.op \in Restores /\ job.op \in Nat /\ job.op <= restores /\ job.op # None
BY RestoreAssumption, NoneAssumption DEF IInv, Typed, Jobs, Numbered, Restores

\* A recovery has the lock: no COMMIT and no upload is under way.
LEMMA WhileRecovering ==
  ASSUME IInv,
         job.pc \in {"area", "removing", "emptied", "root", "journal", "unmark"}
  PROVE  /\ lock = "recovery" /\ commit = None
         /\ \A u \in Uploads : uploads[u] = None \/ uploads[u].pc # "moved"
         /\ job.committed <=> job.op \in db.markers
         /\ job.pc # "unmark" => job.op \in Pending /\ journals[job.op] \in SUBSET Areas
BY Shapes, JobsRestore, NoneAssumption DEF IInv, Locked, JobFits, Pending

\* So has a restore that renames directories, and it has not committed.
LEMMA WhileMoving ==
  ASSUME IInv, job.pc \in {"move", "commit"}
  PROVE  /\ lock = "restore" /\ commit = None
         /\ \A u \in Uploads : uploads[u] = None \/ uploads[u].pc # "moved"
         /\ job.op \in Undone /\ journals[job.op] \in SUBSET Areas /\ job.op = restores
BY Shapes, JobsRestore, NoneAssumption DEF IInv, Locked, JobFits, Pending, Undone, Numbered

\* Nobody has it while requests about files run.
LEMMA WhileServing ==
  ASSUME IInv, Serving
  PROVE  /\ commit = None
         /\ job.pc \notin {"move", "commit", "area", "removing", "emptied", "root", "journal", "unmark"}
         /\ \A u \in Uploads : uploads[u] = None \/ uploads[u].pc # "moved"
BY NoneAssumption DEF IInv, Locked, Serving

\* A step of a recovery within its area touches the two directories of the
\* area only, and disturbs what the invariant says of directories and files.
LEMMA AreaStep ==
  ASSUME IInv, job.pc \in {"area", "removing", "emptied"},
         job' \in Jobs, job'.pc \in {"area", "removing", "emptied", "root"},
         job'.op = job.op, job'.committed = job.committed,
         job'.pc \in {"removing", "emptied"} => ~job.committed,
         target' \in [Areas -> Directories], old' \in [Restores -> [Areas -> Directories]],
         \A b \in Areas : b # job.area => target'[b] = target[b],
         \A q \in Restores, b \in Areas : q # job.op \/ b # job.area => old'[q][b] = old[q][b],
         Generation(target'[job.area]) \in {None, Generation(Live), Generation(Aside)},
         Generation(old'[job.op][job.area]) \in {None, Generation(Aside)},
         UNCHANGED <<staged, journals, db, lock, commit, server, uploads, cleanups, restores,
                     mishaps, swept>>
  PROVE  Typed' /\ Locked' /\ Numbered' /\ JobFits' /\ Moving' /\ Marked' /\ RowsFit' /\ SeenFits'
<1>1. /\ job.op \in Restores /\ job.op <= restores /\ job.area \in Areas
      /\ commit = None /\ lock = "recovery"
      /\ \A u \in Uploads : uploads[u] = None \/ uploads[u].pc # "moved"
  BY JobsRestore, WhileRecovering
<1>2. Typed'
  BY DEF IInv, Typed
<1>3. Locked'
  BY <1>1 DEF IInv, Locked
<1>4. Numbered'
  <2>1. \A op \in Restores : Unbegun(op) => op # job.op
    BY <1>1, WhileRecovering DEF Unbegun, Pending
  <2>2. \A op \in Restores : Unbegun(op) => Unbegun(op)'
    <3>1. SUFFICES ASSUME NEW op \in Restores, Unbegun(op)
                   PROVE  Unbegun(op)'
      OBVIOUS
    <3>2. \A a \in Areas : old'[op][a] = None
      BY <2>1, <3>1 DEF Unbegun
    <3>3. \A a \in Areas : Generation(target'[a]) # op
      BY <1>1, <3>1, Shapes DEF Unbegun, Live, Aside
    <3>4. \A q \in Restores, a \in Areas : Generation(old'[q][a]) # op
      BY <1>1, <3>1, Shapes DEF Unbegun, Aside
    <3> QED
      BY <3>1, <3>2, <3>3, <3>4 DEF Unbegun
  <2> QED
    BY <1>1, <2>2, JobsRestore DEF IInv, Numbered
<1>5. JobFits'
  BY WhileRecovering DEF JobFits, Pending
<1>6. Moving' /\ Marked'
  BY <1>1 DEF IInv, Moving, InPlace, Marked
<1>7. RowsFit'
  BY <1>1 DEF IInv, RowsFit, Owed
<1>8. SeenFits'
  BY <1>1 DEF SeenFits
<1> QED
  BY <1>2, <1>3, <1>4, <1>5, <1>6, <1>7, <1>8

\* A recovery without a commit takes its restore back.
LEMMA Undoes ==
  ASSUME IInv, job.pc \in {"area", "removing", "emptied"}, ~job.committed
  PROVE  job.op \in Undone /\ job.area \in Areas
BY JobsRestore, WhileRecovering DEF Undone

\* A directory of a restore that is taken back can lose what nobody is owed.
LEMMA StillProtected ==
  ASSUME IInv, job.op \in Undone, job.area \in Areas,
         job'.op = job.op, job'.pc = "removing" => job'.area = job.area,
         \A b \in Areas : b # job.area => target'[b] = target[b],
         \A q \in Restores, b \in Areas : q # job.op \/ b # job.area => old'[q][b] = old[q][b],
         UNCHANGED <<journals, db>>,
         \A n \in Owed(job.area) :
            \/ Safe(n, Live) /\ job.pc # "removing"
            \/ Safe(n, Aside)
            => \/ Safe(n, target'[job.area]) /\ job'.pc # "removing"
               \/ Safe(n, old'[job.op][job.area])
  PROVE  Protected'
<1>1. Undone \subseteq Restores
  BY DEF Undone, Pending
<1>2. Undone' = Undone /\ \A a \in Areas : Owed(a)' = Owed(a)
  BY DEF Undone, Pending, Owed
<1> QED
  BY <1>1, <1>2 DEF IInv, Protected, Safe, Live, Aside

\* While nothing else is known to need help, recovery knows what it meets.
LEMMA AreaStepTidy ==
  ASSUME IInv, job.op \in Undone, job.area \in Areas,
         job'.op = job.op, job'.pc \notin {"unmark", "forget"},
         \A b \in Areas : b # job.area => target'[b] = target[b],
         \A q \in Restores, b \in Areas : q # job.op \/ b # job.area => old'[q][b] = old[q][b],
         UNCHANGED <<journals, db, mishaps, stuck, swept>>,
         mishaps = {} => \A op, a : op = job.op /\ a = job.area => Explained(op, a)',
         job'.pc = "removing" => job'.area = job.area
  PROVE  Tidy'
<1>1. job.op \in Restores /\ Pending \subseteq Restores
  BY DEF Undone, Pending
<1>2. job.op \in Pending /\ job.op \notin db.markers
  BY DEF Undone
<1>3. SUFFICES ASSUME mishaps = {}
               PROVE  \A op \in Pending, a \in Areas : Explained(op, a)'
  BY <1>1 DEF IInv, Tidy, Pending
<1>4. \A op \in Pending : op = job.op
  BY <1>2, <1>3 DEF IInv, Tidy
<1>5. \A op \in Pending, a \in Areas : a # job.area => Explained(op, a)'
  BY <1>1, <1>2, <1>3 DEF IInv, Tidy, Explained
<1> QED
  BY <1>1, <1>3, <1>4, <1>5

\* A file of others is linked to the old directory.
LEMMA KeepLinkKeeps ==
  ASSUME IInv, NEW n \in Names, KeepLink(n)
  PROVE  IInv'
<1>1. /\ job.pc = "area" /\ ~job.committed /\ job.area \in journals[job.op]
      /\ Aside # None /\ Live # None /\ Own /\ n \in Strangers
      /\ old' = [old EXCEPT ![job.op][job.area].files = @ \cup {n}]
      /\ UNCHANGED <<target, staged, journals, db, lock, commit, job, server, uploads, cleanups,
                     restores, mishaps, stuck, swept>>
  BY DEF KeepLink, UndoingReplaced, Undoing, others, bounds, history
<1>2. job \in Jobs /\ job.op \in Restores /\ job.area \in Areas /\ Aside \in Directories
  BY <1>1, JobsRestore, Shapes DEF Aside
<1>3. /\ old' \in [Restores -> [Areas -> Directories]]
      /\ \A q \in Restores, b \in Areas : q # job.op \/ b # job.area => old'[q][b] = old[q][b]
      /\ old'[job.op][job.area] = Directory(Files(Aside) \cup {n}, Generation(Aside))
  <2>1. [Aside EXCEPT !.files = @ \cup {n}] = Directory(Files(Aside) \cup {n}, Generation(Aside))
    BY <1>1, <1>2, DirectoryParts, DirectoryChanged
  <2>2. Directory(Files(Aside) \cup {n}, Generation(Aside)) \in Directories
    BY <1>2, DirectoryParts, DirectoryMade
  <2> QED
    BY <1>1, <1>2, <2>1, <2>2 DEF Aside, IInv, Typed
<1>4. /\ Files(old'[job.op][job.area]) = Files(Aside) \cup {n}
      /\ Generation(old'[job.op][job.area]) = Generation(Aside) /\ old'[job.op][job.area] # None
  BY <1>2, <1>3, DirectoryParts, DirectoryMade
<1>5. Typed' /\ Locked' /\ Numbered' /\ JobFits' /\ Moving' /\ Marked' /\ RowsFit' /\ SeenFits'
  BY <1>1, <1>2, <1>3, <1>4, AreaStep DEF IInv, Typed, Live
<1>6. Putting'
  <2>1. \A q \in Restores, b \in Areas : Generation(old'[q][b]) = Generation(old[q][b])
    BY <1>3, <1>4 DEF Aside
  <2>2. \A q \in Restores, b \in Areas : b \notin journals[q] => old'[q][b] = old[q][b]
    BY <1>1, <1>3
  <2>3. job.area = "icons" => old'[job.op]["attachments"] = old[job.op]["attachments"]
    BY <1>2, <1>3 DEF Areas
  <2>4. \A op \in Pending' : \A a \in Areas \ journals'[op] : old'[op][a] = None
    BY <1>1, <2>2 DEF IInv, Putting, Pending
  <2>5. \A op \in Restores, a \in Areas : Generation(old'[op][a]) # op
    BY <2>1 DEF IInv, Putting
  <2> QED
    BY <1>1, <2>3, <2>4, <2>5 DEF IInv, Putting
<1>7. Tidy'
  BY <1>1, <1>2, <1>3, <1>4, WhileRecovering, Undoes, AreaStepTidy DEF IInv, Tidy, Explained, Aside, Live, Own
<1>8. Protected'
  BY <1>1, <1>2, <1>3, <1>4, Undoes, StillProtected DEF Safe, Live
<1> QED
  BY <1>5, <1>6, <1>7, <1>8 DEF IInv

\* The same file is unlinked here.
LEMMA KeepUnlinkKeeps ==
  ASSUME IInv, NEW n \in Names, KeepUnlink(n)
  PROVE  IInv'
<1>1. /\ job.pc = "area" /\ ~job.committed /\ job.area \in journals[job.op]
      /\ Aside # None /\ Live # None /\ Own /\ n \in Strangers \cap Aside.files
      /\ target' = [target EXCEPT ![job.area].files = @ \ {n}]
      /\ UNCHANGED <<old, staged, journals, db, lock, commit, job, server, uploads, cleanups,
                     restores, mishaps, stuck, swept>>
  BY DEF KeepUnlink, UndoingReplaced, Undoing, others, bounds, history
<1>2. job \in Jobs /\ job.op \in Restores /\ job.area \in Areas /\ Live \in Directories /\ Aside \in Directories
  BY <1>1, JobsRestore, Shapes DEF Live, Aside
<1>3. /\ target' \in [Areas -> Directories]
      /\ \A b \in Areas : b # job.area => target'[b] = target[b]
      /\ target'[job.area] = Directory(Files(Live) \ {n}, Generation(Live))
  <2>1. [Live EXCEPT !.files = @ \ {n}] = Directory(Files(Live) \ {n}, Generation(Live))
    BY <1>1, <1>2, DirectoryParts, DirectoryChanged
  <2>2. Directory(Files(Live) \ {n}, Generation(Live)) \in Directories
    BY <1>2, DirectoryParts, DirectoryMade
  <2> QED
    BY <1>1, <1>2, <2>1, <2>2 DEF Live, IInv, Typed
<1>4. /\ Files(target'[job.area]) = Files(Live) \ {n}
      /\ Generation(target'[job.area]) = Generation(Live) /\ target'[job.area] # None
  BY <1>2, <1>3, DirectoryParts, DirectoryMade
<1>5. Typed' /\ Locked' /\ Numbered' /\ JobFits' /\ Moving' /\ Marked' /\ RowsFit' /\ SeenFits'
  BY <1>1, <1>2, <1>3, <1>4, AreaStep, Shapes DEF IInv, Typed, Aside
<1>6. Putting'
  BY <1>1, <1>2, <1>3, Shapes DEF IInv, Putting, Pending
<1>7. Tidy'
  BY <1>1, <1>2, <1>3, <1>4, WhileRecovering, Undoes, AreaStepTidy DEF Explained, Aside, Own
<1>8. Safe(n, Aside)
  BY <1>1, <1>2, DirectoryParts DEF Safe, Strangers
<1>9. Protected'
  BY <1>1, <1>2, <1>3, <1>4, <1>8, Undoes, StillProtected DEF Safe, Aside
<1> QED
  BY <1>5, <1>6, <1>7, <1>9 DEF IInv

\* The next area, or what comes after both.
LEMMA NextAreaIs ==
  ASSUME job \in Jobs, NEW pc \in Pcs, NEW after \in Pcs
  PROVE  LET next == NextArea(pc, after) IN
         /\ next \in Jobs /\ next.op = job.op /\ next.committed = job.committed
         /\ next.seen = job.seen /\ next.pc = IF job.area = "icons" THEN after ELSE pc
         /\ next.area = IF job.area = "icons" THEN "attachments" ELSE "icons"
BY DEF NextArea, Jobs, Areas

\* The directory of the restore holds nothing but the backup: it goes.
LEMMA RemoveBeginKeeps ==
  ASSUME IInv, RemoveBegin
  PROVE  IInv'
<1>1. /\ job.pc = "area" /\ ~job.committed /\ job.area \in journals[job.op]
      /\ Aside # None /\ Live # None /\ Own /\ Strangers = {}
      /\ job' = [job EXCEPT !.pc = "removing"]
      /\ UNCHANGED <<target, old, staged, journals, db, lock, commit, server, uploads, cleanups,
                     restores, mishaps, stuck, swept>>
  BY DEF RemoveBegin, NothingToKeep, UndoingReplaced, Undoing, disk, others, bounds, history
<1>2. /\ job' \in Jobs /\ job'.pc = "removing" /\ job'.op = job.op
      /\ job'.committed = job.committed /\ job'.area = job.area
  BY <1>1, JobsRestore, JobGoesOn DEF Pcs
<1>3. job.op \in Restores /\ job.area \in Areas /\ Live \in Directories /\ job.op \in Undone
  BY <1>1, JobsRestore, WhileRecovering, Shapes DEF Live, Undone
<1>4. Typed' /\ Locked' /\ Numbered' /\ JobFits' /\ Moving' /\ Marked' /\ RowsFit' /\ SeenFits'
  BY <1>1, <1>2, AreaStep DEF IInv, Typed, Live, Aside
<1>5. Putting'
  BY <1>1, <1>2, <1>3 DEF IInv, Putting, Pending, Live, Aside, Own, Strangers
<1>6. Tidy'
  BY <1>1, <1>2, <1>3, WhileRecovering, Undoes, AreaStepTidy DEF IInv, Tidy, Explained, Aside, Live, Own
<1>7. \A n \in Owed(job.area) : ~Safe(n, Live)
  BY <1>1, <1>3 DEF Safe, Strangers, Own
<1>8. Protected'
  BY <1>1, <1>2, <1>7, Undoes, StillProtected DEF Aside
<1> QED
  BY <1>4, <1>5, <1>6, <1>8 DEF IInv

\* One entry after the other goes, the marker among them.
LEMMA RemoveEntryKeeps ==
  ASSUME IInv, RemoveEntry
  PROVE  IInv'
<1>1. /\ job.pc = "removing"
      /\ \/ \E n \in Live.files : target' = [target EXCEPT ![job.area].files = @ \ {n}]
         \/ target' = [target EXCEPT ![job.area].generation = None]
      /\ UNCHANGED <<old, staged, journals, db, lock, commit, job, server, uploads, cleanups,
                     restores, mishaps, stuck, swept>>
  BY DEF RemoveEntry, others, bounds, history
<1>2. /\ job \in Jobs /\ job.op \in Restores /\ job.area \in Areas /\ ~job.committed
      /\ Live \in Directories /\ Aside \in Directories /\ Live # None /\ Aside # None
      /\ job.area \in journals[job.op]
  BY <1>1, JobsRestore, Shapes DEF Live, Aside, IInv, JobFits, Putting
<1>3. PICK files \in SUBSET Files(Live), generation \in {None, Generation(Live)} :
        target' = [target EXCEPT ![job.area] = Directory(files, generation)]
  <2>1. \A x : /\ [Live EXCEPT !.files = x] = Directory(x, Generation(Live))
               /\ [Live EXCEPT !.generation = x] = Directory(Files(Live), x)
    BY <1>2, DirectoryChanged
  <2>2. Live.files = Files(Live) /\ Generation(Live) \in {None, Generation(Live)}
    BY <1>2, DirectoryParts
  <2>3. CASE \E n \in Live.files : target' = [target EXCEPT ![job.area].files = @ \ {n}]
    <3>1. PICK n \in Live.files : target' = [target EXCEPT ![job.area].files = @ \ {n}]
      BY <2>3
    <3>2. target' = [target EXCEPT ![job.area] = [Live EXCEPT !.files = @ \ {n}]]
      BY <3>1 DEF Live
    <3>3. [Live EXCEPT !.files = @ \ {n}] = Directory(Files(Live) \ {n}, Generation(Live))
      BY <2>1, <2>2
    <3> QED
      BY <3>2, <3>3
  <2>4. CASE target' = [target EXCEPT ![job.area].generation = None]
    <3>1. target' = [target EXCEPT ![job.area] = [Live EXCEPT !.generation = None]]
      BY <2>4 DEF Live
    <3> QED
      BY <2>1, <3>1
  <2> QED
    BY <1>1, <2>3, <2>4
<1>4. /\ target' \in [Areas -> Directories] /\ target'[job.area] # None
      /\ \A b \in Areas : b # job.area => target'[b] = target[b]
      /\ Files(target'[job.area]) = files /\ Generation(target'[job.area]) = generation
  BY <1>2, <1>3, DirectoryParts, DirectoryMade DEF IInv, Typed
<1>5. Typed' /\ Locked' /\ Numbered' /\ JobFits' /\ Moving' /\ Marked' /\ RowsFit' /\ SeenFits'
  BY <1>1, <1>2, <1>3, <1>4, AreaStep DEF IInv, Typed, Aside
<1>6. Putting'
  BY <1>1, <1>2, <1>3, <1>4, Shapes DEF IInv, Putting, Pending, Live
<1>7. Tidy'
  BY <1>1, <1>2, <1>4, WhileRecovering, Undoes, AreaStepTidy DEF IInv, Tidy, Explained, Aside
<1>8. Protected'
  BY <1>1, <1>2, <1>4, Undoes, StillProtected DEF Aside
<1> QED
  BY <1>5, <1>6, <1>7, <1>8 DEF IInv

\* The directory is gone.
LEMMA RemoveEndKeeps ==
  ASSUME IInv, RemoveEnd
  PROVE  IInv'
<1>1. /\ job.pc = "removing"
      /\ target' = [target EXCEPT ![job.area] = None] /\ job' = [job EXCEPT !.pc = "area"]
      /\ UNCHANGED <<old, staged, journals, db, lock, commit, server, uploads, cleanups,
                     restores, mishaps, stuck, swept>>
  BY DEF RemoveEnd, others, bounds, history
<1>2. /\ job' \in Jobs /\ job'.pc = "area" /\ job'.op = job.op
      /\ job'.committed = job.committed /\ job'.area = job.area
  BY <1>1, JobsRestore, JobGoesOn DEF Pcs
<1>3. /\ job.op \in Restores /\ job.area \in Areas /\ ~job.committed
      /\ Aside # None /\ job.area \in journals[job.op]
  BY <1>1, JobsRestore DEF Aside, IInv, JobFits, Putting
<1>4. /\ target' \in [Areas -> Directories] /\ target'[job.area] = None
      /\ \A b \in Areas : b # job.area => target'[b] = target[b]
      /\ Generation(target'[job.area]) = None
  BY <1>1, <1>3, Shapes DEF IInv, Typed, Directories
<1>5. Typed' /\ Locked' /\ Numbered' /\ JobFits' /\ Moving' /\ Marked' /\ RowsFit' /\ SeenFits'
  BY <1>1, <1>2, <1>4, AreaStep DEF IInv, Typed, Aside
<1>6. Putting'
  BY <1>1, <1>2, <1>3, Shapes DEF IInv, Putting, Pending
<1>7. Tidy'
  BY <1>1, <1>2, <1>3, <1>4, WhileRecovering, Undoes, AreaStepTidy DEF IInv, Tidy, Explained, Aside
<1>8. Protected'
  BY <1>1, <1>2, <1>3, <1>4, Undoes, StillProtected DEF Aside
<1> QED
  BY <1>5, <1>6, <1>7, <1>8 DEF IInv

\* The old directory is renamed back.
LEMMA MoveBackKeeps ==
  ASSUME IInv, MoveBack
  PROVE  IInv'
<1>1. /\ job.pc = "area" /\ ~job.committed /\ job.area \in journals[job.op]
      /\ Aside # None /\ Live = None
      /\ target' = [target EXCEPT ![job.area] = Aside]
      /\ old' = [old EXCEPT ![job.op][job.area] = None] /\ job' = NextArea("area", "root")
      /\ UNCHANGED <<staged, journals, db, lock, commit, server, uploads, cleanups,
                     restores, mishaps, stuck, swept>>
  BY DEF MoveBack, UndoingReplaced, Undoing, others, bounds, history
<1>2. /\ job' \in Jobs /\ job'.op = job.op /\ job'.committed = job.committed
      /\ job'.pc = (IF job.area = "icons" THEN "root" ELSE "area")
      /\ job'.area = (IF job.area = "icons" THEN "attachments" ELSE "icons")
  BY <1>1, JobsRestore, NextAreaIs DEF Pcs
<1>3. job.op \in Restores /\ job.area \in Areas /\ Aside \in Directories /\ None \in Directories
  BY <1>1, JobsRestore, Shapes DEF Aside, Directories
<1>4. /\ target' \in [Areas -> Directories] /\ old' \in [Restores -> [Areas -> Directories]]
      /\ \A b \in Areas : b # job.area => target'[b] = target[b]
      /\ \A q \in Restores, b \in Areas : q # job.op \/ b # job.area => old'[q][b] = old[q][b]
      /\ target'[job.area] = Aside /\ old'[job.op][job.area] = None
  BY <1>1, <1>3 DEF IInv, Typed
<1>5. Typed' /\ Locked' /\ Numbered' /\ JobFits' /\ Moving' /\ Marked' /\ RowsFit' /\ SeenFits'
  BY <1>1, <1>2, <1>4, AreaStep, Shapes DEF IInv, Typed
<1>6. Putting'
  BY <1>1, <1>2, <1>3, <1>4, Shapes DEF IInv, Putting, Pending, Areas
<1>7. Generation(Aside) # job.op
  BY <1>3 DEF IInv, Putting, Aside
<1>8. Tidy'
  BY <1>1, <1>2, <1>3, <1>4, <1>7, WhileRecovering, Undoes, AreaStepTidy DEF Explained
<1>9. Protected'
  BY <1>1, <1>2, <1>3, <1>4, Shapes, Undoes, StillProtected DEF Safe
<1> QED
  BY <1>5, <1>6, <1>8, <1>9 DEF IInv

\* Back already, or never moved.
LEMMA KeepReplacedKeeps ==
  ASSUME IInv, KeepReplaced
  PROVE  IInv'
<1>1. /\ job.pc = "area" /\ ~job.committed /\ job.area \in journals[job.op]
      /\ Aside = None /\ Live # None /\ ~Own /\ job' = NextArea("area", "root")
      /\ UNCHANGED <<target, old, staged, journals, db, lock, commit, server, uploads, cleanups,
                     restores, mishaps, stuck, swept>>
  BY DEF KeepReplaced, UndoingReplaced, Undoing, disk, others, bounds, history
<1>2. /\ job' \in Jobs /\ job'.op = job.op /\ job'.committed = job.committed
      /\ job'.pc = (IF job.area = "icons" THEN "root" ELSE "area")
      /\ job'.area = (IF job.area = "icons" THEN "attachments" ELSE "icons")
  BY <1>1, JobsRestore, NextAreaIs DEF Pcs
<1>3. job.op \in Restores /\ job.area \in Areas
  BY <1>1, JobsRestore
<1>4. Typed' /\ Locked' /\ Numbered' /\ JobFits' /\ Moving' /\ Marked' /\ RowsFit' /\ SeenFits'
  BY <1>1, <1>2, AreaStep DEF IInv, Typed, Live, Aside
<1>5. Putting'
  BY <1>1, <1>2, <1>3 DEF IInv, Putting, Pending, Aside, Areas
<1>6. Tidy'
  BY <1>1, <1>2, <1>3, WhileRecovering, Undoes, AreaStepTidy DEF Explained, Aside, Live, Own
<1>7. Protected'
  BY <1>1, <1>2, Undoes, StillProtected DEF Live, Aside
<1> QED
  BY <1>4, <1>5, <1>6, <1>7 DEF IInv

\* A file of the backup is removed where there was no directory before.
LEMMA RemoveAddedKeeps ==
  ASSUME IInv, NEW n \in Names, RemoveAdded(n)
  PROVE  IInv'
<1>1. /\ job.pc = "area" /\ ~job.committed /\ job.area \notin journals[job.op]
      /\ Live # None /\ Own /\ n \in Files(Live) \cap Backup
      /\ target' = [target EXCEPT ![job.area].files = @ \ {n}]
      /\ UNCHANGED <<old, staged, journals, db, lock, commit, job, server, uploads, cleanups,
                     restores, mishaps, stuck, swept>>
  BY DEF RemoveAdded, UndoingAdded, Undoing, others, bounds, history
<1>2. /\ job \in Jobs /\ job.op \in Restores /\ job.area \in Areas /\ Live \in Directories
      /\ job.op \in Undone
  BY <1>1, JobsRestore, Shapes, WhileRecovering DEF Live, Undone
<1>3. /\ target' \in [Areas -> Directories]
      /\ \A b \in Areas : b # job.area => target'[b] = target[b]
      /\ target'[job.area] = Directory(Files(Live) \ {n}, Generation(Live))
  <2>1. [Live EXCEPT !.files = @ \ {n}] = Directory(Files(Live) \ {n}, Generation(Live))
    BY <1>1, <1>2, DirectoryParts, DirectoryChanged
  <2>2. Directory(Files(Live) \ {n}, Generation(Live)) \in Directories
    BY <1>2, DirectoryParts, DirectoryMade
  <2> QED
    BY <1>1, <1>2, <2>1, <2>2 DEF Live, IInv, Typed
<1>4. /\ Files(target'[job.area]) = Files(Live) \ {n}
      /\ Generation(target'[job.area]) = Generation(Live) /\ target'[job.area] # None
  BY <1>2, <1>3, DirectoryParts, DirectoryMade
<1>5. Typed' /\ Locked' /\ Numbered' /\ JobFits' /\ Moving' /\ Marked' /\ RowsFit' /\ SeenFits'
  BY <1>1, <1>2, <1>3, <1>4, AreaStep, Shapes DEF IInv, Typed, Aside
<1>6. Putting'
  BY <1>1, <1>2, <1>3, Shapes DEF IInv, Putting, Pending
<1>7. Tidy'
  BY <1>1, <1>2, <1>3, <1>4, WhileRecovering, Undoes, AreaStepTidy DEF Explained, Own
<1>8. Protected'
  BY <1>1, <1>2, <1>3, <1>4, Undoes, StillProtected DEF Safe, Aside, Own
<1> QED
  BY <1>5, <1>6, <1>7, <1>8 DEF IInv

\* Nothing of the backup is left: the directory is nobody's generation.
LEMMA UnmarkKeeps ==
  ASSUME IInv, Unmark
  PROVE  IInv'
<1>1. /\ job.pc = "area" /\ ~job.committed /\ job.area \notin journals[job.op]
      /\ Live # None /\ Own
      /\ target' = [target EXCEPT ![job.area].generation = None]
      /\ job' = [job EXCEPT !.pc = "emptied"]
      /\ UNCHANGED <<old, staged, journals, db, lock, commit, server, uploads, cleanups,
                     restores, mishaps, stuck, swept>>
  BY DEF Unmark, UndoingAdded, Undoing, others, bounds, history
<1>2. /\ job' \in Jobs /\ job'.pc = "emptied" /\ job'.op = job.op
      /\ job'.committed = job.committed /\ job'.area = job.area
  BY <1>1, JobsRestore, JobGoesOn DEF Pcs
<1>3. /\ job.op \in Restores /\ job.area \in Areas /\ Live \in Directories /\ job.op \in Undone
  BY <1>1, JobsRestore, Shapes, WhileRecovering DEF Live, Undone
<1>4. /\ target' \in [Areas -> Directories]
      /\ \A b \in Areas : b # job.area => target'[b] = target[b]
      /\ target'[job.area] = Directory(Files(Live), None)
  <2>1. [Live EXCEPT !.generation = None] = Directory(Files(Live), None)
    BY <1>1, <1>3, DirectoryChanged
  <2>2. Directory(Files(Live), None) \in Directories
    BY <1>3, DirectoryParts, DirectoryMade
  <2> QED
    BY <1>1, <1>3, <2>1, <2>2 DEF Live, IInv, Typed
<1>5. /\ Files(target'[job.area]) = Files(Live)
      /\ Generation(target'[job.area]) = None /\ target'[job.area] # None
  BY <1>3, <1>4, DirectoryParts, DirectoryMade
<1>6. Typed' /\ Locked' /\ Numbered' /\ JobFits' /\ Moving' /\ Marked' /\ RowsFit' /\ SeenFits'
  BY <1>1, <1>2, <1>4, <1>5, AreaStep DEF IInv, Typed, Aside
<1>7. Putting'
  BY <1>1, <1>2, <1>3, <1>5 DEF IInv, Putting, Pending
<1>8. Tidy'
  BY <1>1, <1>2, <1>3, <1>4, <1>5, WhileRecovering, Undoes, AreaStepTidy DEF Explained
<1>9. Undone \subseteq Restores /\ None \notin Undone
  BY Shapes DEF Undone, Pending
<1>10. Protected'
  BY <1>1, <1>2, <1>3, <1>4, <1>5, <1>9, Undoes, StillProtected DEF Safe, Aside
<1> QED
  BY <1>6, <1>7, <1>8, <1>10 DEF IInv

\* It goes if nobody else has put a file into it.
LEMMA RemoveEmptyKeeps ==
  ASSUME IInv, RemoveEmpty
  PROVE  IInv'
<1>1. /\ job.pc = "emptied" /\ job' = NextArea("area", "root")
      /\ target' = [target EXCEPT ![job.area] = IF @.files = {} THEN None ELSE @]
      /\ UNCHANGED <<old, staged, journals, db, lock, commit, server, uploads, cleanups,
                     restores, mishaps, stuck, swept>>
  BY DEF RemoveEmpty, others, bounds, history
<1>2. /\ job' \in Jobs /\ job'.op = job.op /\ job'.committed = job.committed
      /\ job'.pc = (IF job.area = "icons" THEN "root" ELSE "area")
      /\ job'.area = (IF job.area = "icons" THEN "attachments" ELSE "icons")
  BY <1>1, JobsRestore, NextAreaIs DEF Pcs
<1>3. /\ job.op \in Restores /\ job.area \in Areas /\ Live \in Directories /\ ~job.committed
      /\ Live # None /\ Generation(Live) = None /\ job.area \notin journals[job.op]
      /\ job.op \in Pending /\ Aside = None
  BY <1>1, JobsRestore, Shapes, WhileRecovering DEF Live, Aside, IInv, JobFits, Putting
<1>4. /\ target' \in [Areas -> Directories]
      /\ \A b \in Areas : b # job.area => target'[b] = target[b]
      /\ Files(target'[job.area]) = Files(Live) /\ Generation(target'[job.area]) = None
  <2>1. target'[job.area] = IF Files(Live) = {} THEN None ELSE Live
    BY <1>1, <1>3, DirectoryParts DEF Live, IInv, Typed
  <2> QED
    BY <1>1, <1>3, <2>1, Shapes DEF Live, IInv, Typed, Directories
<1>5. Typed' /\ Locked' /\ Numbered' /\ JobFits' /\ Moving' /\ Marked' /\ RowsFit' /\ SeenFits'
  BY <1>1, <1>2, <1>4, AreaStep DEF IInv, Typed, Aside
<1>6. Putting'
  BY <1>1, <1>2, <1>3 DEF IInv, Putting, Pending, Aside, Areas
<1>7. Tidy'
  BY <1>1, <1>2, <1>3, <1>4, WhileRecovering, Undoes, AreaStepTidy DEF Explained
<1>8. Protected'
  BY <1>1, <1>2, <1>3, <1>4, Shapes, Undoes, StillProtected DEF Safe, Aside
<1> QED
  BY <1>5, <1>6, <1>7, <1>8 DEF IInv

\* Nothing of the restore is there.
LEMMA KeepAddedKeeps ==
  ASSUME IInv, KeepAdded
  PROVE  IInv'
<1>1. /\ job.pc = "area" /\ ~job.committed /\ job.area \notin journals[job.op]
      /\ Generation(Live) = None /\ job' = NextArea("area", "root")
      /\ UNCHANGED <<target, old, staged, journals, db, lock, commit, server, uploads, cleanups,
                     restores, mishaps, stuck, swept>>
  BY DEF KeepAdded, UndoingAdded, Undoing, disk, others, bounds, history
<1>2. /\ job' \in Jobs /\ job'.op = job.op /\ job'.committed = job.committed
      /\ job'.pc = (IF job.area = "icons" THEN "root" ELSE "area")
      /\ job'.area = (IF job.area = "icons" THEN "attachments" ELSE "icons")
  BY <1>1, JobsRestore, NextAreaIs DEF Pcs
<1>3. job.op \in Restores /\ job.area \in Areas /\ job.op \in Pending /\ Aside = None
  BY <1>1, JobsRestore, WhileRecovering DEF Aside, IInv, Putting
<1>4. Typed' /\ Locked' /\ Numbered' /\ JobFits' /\ Moving' /\ Marked' /\ RowsFit' /\ SeenFits'
  BY <1>1, <1>2, AreaStep DEF IInv, Typed, Live, Aside
<1>5. Putting'
  BY <1>1, <1>2, <1>3 DEF IInv, Putting, Pending, Aside, Areas
<1>6. Tidy'
  BY <1>1, <1>2, <1>3, WhileRecovering, Undoes, AreaStepTidy DEF Explained, Live
<1>7. Protected'
  BY <1>1, <1>2, Undoes, StillProtected DEF Live, Aside
<1> QED
  BY <1>4, <1>5, <1>6, <1>7 DEF IInv

\* After a commit the old directory goes.
LEMMA DropPreviousKeeps ==
  ASSUME IInv, DropPrevious
  PROVE  IInv'
<1>1. /\ job.pc = "area" /\ job.committed /\ Own
      /\ old' = [old EXCEPT ![job.op][job.area] = None] /\ job' = NextArea("area", "root")
      /\ UNCHANGED <<target, staged, journals, db, lock, commit, server, uploads, cleanups,
                     restores, mishaps, stuck, swept>>
  BY DEF DropPrevious, others, bounds, history
<1>2. /\ job' \in Jobs /\ job'.op = job.op /\ job'.committed = job.committed
      /\ job'.pc = (IF job.area = "icons" THEN "root" ELSE "area")
  BY <1>1, JobsRestore, NextAreaIs DEF Pcs
<1>3. job.op \in Restores /\ job.area \in Areas /\ None \in Directories /\ job.op \in db.markers
  BY <1>1, JobsRestore, WhileRecovering DEF Directories
<1>4. /\ old' \in [Restores -> [Areas -> Directories]]
      /\ \A q \in Restores, b \in Areas : q # job.op \/ b # job.area => old'[q][b] = old[q][b]
      /\ old'[job.op][job.area] = None
  BY <1>1, <1>3 DEF IInv, Typed
<1>5. Typed' /\ Locked' /\ Numbered' /\ JobFits' /\ Moving' /\ Marked' /\ RowsFit' /\ SeenFits'
  BY <1>1, <1>2, <1>4, AreaStep, Shapes DEF IInv, Typed, Live
<1>6. Putting'
  <2>1. \A q \in Restores, b \in Areas : old[q][b] = None => old'[q][b] = None
    BY <1>4
  <2>2. \A q \in Restores, b \in Areas : Generation(old'[q][b]) # q
    BY <1>4, Shapes DEF IInv, Putting
  <2> QED
    BY <1>1, <1>2, <2>1, <2>2 DEF IInv, Putting, Pending
<1>7. Tidy'
  BY <1>1, <1>2, <1>3, <1>4 DEF IInv, Tidy, Explained, Pending
<1>8. Protected'
  BY <1>1, <1>2, <1>3, <1>4 DEF IInv, Protected, Owed, Safe, Undone, Pending
<1> QED
  BY <1>5, <1>6, <1>7, <1>8 DEF IInv

\* No job.
LEMMA IdleIs == /\ Idle \in Jobs /\ Idle.pc = "idle" /\ Idle.op = 0 /\ 0 \notin Restores
                /\ Idle.area = "attachments" /\ Idle.seen = None
BY RestoreAssumption DEF Idle, Jobs, Pcs, Areas, Restores

\* What the user was shown.
LEMMA FingerprintSeen ==
  ASSUME IInv
  PROVE  Fingerprint \in Seen /\ Fingerprint[1] = db.rows /\ Fingerprint[2] = db.generation
<1>1. db.rows \in [Areas -> SUBSET Names] /\ db.generation \in Nat
  BY DEF IInv, Typed, Databases
<1>2. \A a \in Areas : Files(target[a]) \in SUBSET Names
  BY Shapes, DirectoryParts
<1> QED
  BY <1>1, <1>2 DEF Fingerprint, Seen

\* A restore is staged.
LEMMA JobStaged ==
  ASSUME IInv, restores \in 0 .. MaxRestores, restores < MaxRestores
  PROVE  LET next == [Idle EXCEPT !.pc = "staged", !.op = restores + 1, !.seen = Fingerprint] IN
         next \in Jobs /\ next.pc = "staged" /\ next.op = restores + 1 /\ next.area = "attachments"
<1>1. restores + 1 \in 0 .. MaxRestores /\ Fingerprint \in Seen /\ "staged" \in Pcs
  BY RestoreAssumption, FingerprintSeen DEF Pcs
<1> QED
  BY <1>1, IdleIs DEF Jobs

\* A file more, a file less, no marker.
LEMMA AddedIs ==
  ASSUME NEW d \in Directories, NEW n \in Names
  PROVE  /\ Added(d, n) \in Directories /\ Added(d, n) # None
         /\ Files(Added(d, n)) = Files(d) \cup {n} /\ Generation(Added(d, n)) = Generation(d)
BY DirectoryParts, DirectoryMade DEF Added

LEMMA WithoutIs ==
  ASSUME NEW d \in Directories, NEW n
  PROVE  /\ Without(d, n) \in Directories /\ (Without(d, n) = None <=> d = None)
         /\ Files(Without(d, n)) = Files(d) \ {n} /\ Generation(Without(d, n)) = Generation(d)
BY DirectoryParts, DirectoryMade DEF Without

LEMMA UnmarkedIs ==
  ASSUME NEW d \in Directories
  PROVE  /\ Unmarked(d) \in Directories /\ (Unmarked(d) = None <=> d = None)
         /\ Files(Unmarked(d)) = Files(d) /\ Generation(Unmarked(d)) = None
BY DirectoryParts, DirectoryMade DEF Unmarked

\* A start recovers a restore.
LEMMA JobRecovers ==
  ASSUME NEW op \in Restores
  PROVE  LET next == [Idle EXCEPT !.pc = "recover", !.op = op] IN
         /\ next \in Jobs /\ next.pc = "recover" /\ next.op = op /\ next.area = "attachments"
         /\ next.seen = None
<1>1. op \in 0 .. MaxRestores /\ "recover" \in Pcs
  BY RestoreAssumption DEF Pcs, Restores
<1> QED
  BY <1>1, IdleIs DEF Jobs

\* A job learns the outcome of its restore.
LEMMA JobLearns ==
  ASSUME job \in Jobs, NEW outcome \in BOOLEAN, NEW pc \in Pcs
  PROVE  LET next == [job EXCEPT !.pc = pc, !.committed = outcome] IN
         /\ next \in Jobs /\ next.pc = pc /\ next.op = job.op /\ next.area = job.area
         /\ next.seen = job.seen /\ next.committed = outcome
BY DEF Jobs

LEMMA JobHasLock ==
  ASSUME job \in Jobs, NEW outcome \in BOOLEAN
  PROVE  LET next == [job EXCEPT !.pc = "area", !.area = "attachments", !.seen = None,
                                 !.committed = outcome] IN
         /\ next \in Jobs /\ next.pc = "area" /\ next.op = job.op /\ next.area = "attachments"
         /\ next.seen = None /\ next.committed = outcome
BY DEF Jobs, Pcs, Areas

\* An upload comes to another state.
LEMMA UploadGoesOn ==
  ASSUME IInv, NEW u \in Uploads, uploads[u] # None, NEW pc \in {"moved", "stored", "failed", "gone"}
  PROVE  LET next == [uploads EXCEPT ![u].pc = pc] IN
         /\ next \in [Uploads -> Uploaded \cup {None}]
         /\ next[u] # None /\ next[u].pc = pc
         /\ \A w \in Uploads : w # u => next[w] = uploads[w]
<1>1. uploads \in [Uploads -> Uploaded \cup {None}] /\ uploads[u] \in Uploaded
  BY DEF IInv, Typed
<1>2. [uploads[u] EXCEPT !.pc = pc] \in Uploaded /\ [uploads[u] EXCEPT !.pc = pc].pc = pc
  BY <1>1 DEF Uploaded
<1>3. [uploads EXCEPT ![u].pc = pc] = [uploads EXCEPT ![u] = [uploads[u] EXCEPT !.pc = pc]]
  OBVIOUS
<1> QED
  BY <1>1, <1>2, <1>3, NoneAssumption


\* A backup is staged.
LEMMA StageKeeps ==
  ASSUME IInv, Stage
  PROVE  IInv'
<1>1. /\ job.pc = "idle" /\ restores < MaxRestores
      /\ restores' = restores + 1
      /\ staged' = [staged EXCEPT ![restores + 1] =
                    [a \in Areas |-> Directory(Backup, restores + 1)]]
      /\ job' = [Idle EXCEPT !.pc = "staged", !.op = restores + 1, !.seen = Fingerprint]
      /\ UNCHANGED <<target, old, journals, db, lock, commit, server, uploads, cleanups,
                     mishaps, stuck, swept>>
  BY DEF Stage, disk, others, bounds, history, Idle
<1>2. /\ job' \in Jobs /\ job'.pc = "staged" /\ job'.op = restores + 1
      /\ job'.area = "attachments"
  BY <1>1, JobStaged DEF IInv, Typed
<1>3. restores + 1 \in Restores /\ Directory(Backup, restores + 1) \in Directories
  BY <1>1, RestoreAssumption, DirectoryMade DEF IInv, Typed, Restores, Names
<1>4. Typed'
  BY <1>1, <1>2, <1>3, RestoreAssumption DEF IInv, Typed
<1>5. Locked'
  BY <1>1, <1>2, <1>3 DEF IInv, Locked
<1>6. Numbered'
  BY <1>1, <1>2, <1>3, RestoreAssumption DEF IInv, Numbered, Unbegun, Typed, Restores
<1>7. JobFits'
  BY <1>1, <1>2, <1>3 DEF IInv, JobFits
<1>8. Moving' /\ Marked'
  <2>1. \A op \in Restores, a \in Areas : staged'[op][a] =
            IF op = restores + 1 THEN Directory(Backup, restores + 1) ELSE staged[op][a]
    BY <1>1, <1>3 DEF IInv, Typed
  <2>2. /\ Generation(Directory(Backup, restores + 1)) = restores + 1
        /\ \A gone : Brought(Directory(Backup, restores + 1), restores + 1, gone)
    BY <1>3, DirectoryMade DEF Brought, Names
  <2>3. /\ \A op \in Restores, a \in Areas :
              staged'[op][a] # None => Brought(staged'[op][a], op, swept[op][a])
        /\ mishaps = {} => \A op \in Restores, a \in Areas :
              staged'[op][a] # None => Generation(staged'[op][a]) = op
    BY <2>1, <2>2 DEF IInv, Moving, Marked
  <2> QED
    BY <1>1, <1>2, <2>3 DEF IInv, Moving, InPlace, Marked
<1>9. Putting'
  BY <1>1, <1>2, <1>3 DEF IInv, Putting, Pending
<1>10. SeenFits'
  BY <1>1, <1>2, <1>3 DEF IInv, SeenFits, Numbered, Unbegun, Typed
<1>11. Tidy'
  BY <1>1, <1>2, <1>3 DEF IInv, Tidy, Explained, Pending
<1>12. Protected'
  BY <1>1, <1>2, <1>3 DEF IInv, Protected, Owed, Safe, Undone, Pending
<1>13. RowsFit'
  BY <1>1 DEF IInv, RowsFit, Owed
<1> QED
  BY <1>4, <1>5, <1>6, <1>7, <1>8, <1>9, <1>10, <1>11, <1>12, <1>13 DEF IInv

\* The request ends before it has replaced anything.
LEMMA RefuseKeeps ==
  ASSUME IInv, Refuse
  PROVE  IInv'
<1>1. /\ job.pc = "staged"
      /\ staged' = [staged EXCEPT ![job.op] = [a \in Areas |-> None]]
      /\ job' = Idle
      /\ UNCHANGED <<target, old, journals, db, lock, commit, server, uploads, cleanups,
                     restores, mishaps, stuck, swept>>
  BY DEF Refuse, disk, others, bounds, history
<1>2. /\ job' \in Jobs /\ job'.pc = "idle" /\ job'.op = 0 /\ job'.area = "attachments"
  BY <1>1, IdleIs
<1>3. job.op \in Restores /\ job.op \in Nat /\ job.op <= restores
  BY <1>1, JobsRestore
<1>4. Typed'
  BY <1>1, <1>2, <1>3 DEF IInv, Typed, Directories
<1>5. Locked'
  BY <1>1, <1>2, <1>3 DEF IInv, Locked
<1>6. Numbered'
  BY <1>1, <1>2, <1>3 DEF IInv, Numbered, Unbegun, Typed
<1>7. JobFits'
  BY <1>1, <1>2, <1>3 DEF IInv, JobFits
<1>8. Moving' /\ Marked'
  BY <1>1, <1>2, <1>3 DEF IInv, Moving, InPlace, Marked
<1>9. Putting'
  BY <1>1, <1>2, <1>3 DEF IInv, Putting, Pending
<1>10. SeenFits'
  BY <1>1, <1>2, <1>3, IdleIs DEF IInv, SeenFits, Typed
<1>11. Tidy'
  BY <1>1, <1>2, <1>3 DEF IInv, Tidy, Explained, Pending
<1>12. Protected'
  BY <1>1, <1>2, <1>3 DEF IInv, Protected, Owed, Safe, Undone, Pending
<1>13. RowsFit'
  BY <1>1 DEF IInv, RowsFit, Owed
<1> QED
  BY <1>4, <1>5, <1>6, <1>7, <1>8, <1>9, <1>10, <1>11, <1>12, <1>13 DEF IInv

\* The restore takes the lock and writes its journal.
LEMMA BeginKeeps ==
  ASSUME IInv, Begin
  PROVE  IInv'
<1>1. /\ job.pc = "staged" /\ lock = None /\ job.seen = Fingerprint
      /\ journals' = [journals EXCEPT ![job.op] = HadPrevious]
      /\ lock' = "restore"
      /\ job' = [job EXCEPT !.pc = "move"]
      /\ mishaps' = IF Pending # {} THEN mishaps \cup {"superseded"} ELSE mishaps
      /\ UNCHANGED <<target, old, staged, db, commit, server, uploads, cleanups, restores,
                     stuck, swept>>
  BY DEF Begin, disk, others, bounds, history, Unchanged
<1>2. /\ job' \in Jobs /\ job'.pc = "move"
      /\ job'.op = job.op /\ job'.area = job.area
      /\ job'.committed = job.committed /\ job'.seen = job.seen
  BY <1>1, JobsRestore, JobGoesOn DEF Pcs
<1>3. job.op \in Restores /\ job.op \in Nat /\ job.op <= restores
  BY <1>1, JobsRestore
<1>4. Unbegun(job.op) /\ commit = None
  BY NoneAssumption, <1>1, <1>2, <1>3 DEF IInv, Numbered, Locked
<1>5. HadPrevious \in SUBSET Areas /\ HadPrevious # None
  BY NoneAssumption DEF HadPrevious
<1>6. /\ \A q \in Restores : journals'[q] = IF q = job.op THEN HadPrevious ELSE journals[q]
      /\ Pending' = Pending \cup {job.op} /\ job.op \notin Pending
  BY <1>1, <1>2, <1>3, <1>4, <1>5 DEF IInv, Typed, Pending, Unbegun
<1>7. Typed'
  BY <1>1, <1>2, <1>3, <1>4, <1>5, <1>6 DEF IInv, Typed
<1>8. Locked'
  BY <1>1, <1>2, <1>3, <1>4, <1>5, <1>6, NoneAssumption DEF IInv, Locked
<1>9. Numbered'
  BY <1>1, <1>2, <1>3, <1>4, <1>5, <1>6 DEF IInv, Numbered, Unbegun
<1>10. JobFits'
  BY <1>1, <1>2, <1>3, <1>4, <1>5, <1>6 DEF IInv, JobFits, Unbegun
<1>11. Moving' /\ Marked'
  <2>1. \A a \in Areas : target[a] # None => a \in journals'[job.op] /\ Generation(target[a]) # job.op
    BY <1>3, <1>4, <1>6 DEF HadPrevious, Unbegun
  <2>2. job'.area = "attachments"
    BY <1>1, <1>2 DEF IInv, JobFits
  <2> QED
    BY <1>1, <1>2, <1>4, <2>1, <2>2 DEF IInv, Moving, Marked
<1>12. Putting'
  BY <1>1, <1>2, <1>3, <1>4, <1>5, <1>6 DEF IInv, Putting, Pending, Unbegun
<1>13. SeenFits'
  BY <1>1, <1>2, <1>3, <1>4, <1>5, <1>6, FingerprintSeen DEF IInv, SeenFits
<1>14. Tidy'
  BY <1>1, <1>2, <1>3, <1>4, <1>5, <1>6, Shapes DEF IInv, Tidy, Explained, Pending, Unbegun,
     HadPrevious, Areas
<1>15. Protected'
  BY <1>1, <1>2, <1>3, <1>4, <1>5, <1>6 DEF IInv, Protected, Owed, Safe, Undone, Pending,
     Unbegun
<1>16. RowsFit'
  BY <1>1 DEF IInv, RowsFit, Owed
<1> QED
  BY <1>7, <1>8, <1>9, <1>10, <1>11, <1>12, <1>13, <1>14, <1>15, <1>16 DEF IInv

\* The live directory is renamed aside.
LEMMA MoveAsideKeeps ==
  ASSUME IInv, MoveAside
  PROVE  IInv'
<1>1. /\ job.pc = "move" /\ target[job.area] # None /\ old[job.op][job.area] = None
      /\ old' = [old EXCEPT ![job.op][job.area] = target[job.area]]
      /\ target' = [target EXCEPT ![job.area] = None]
      /\ UNCHANGED <<staged, journals, db, lock, commit, server, job, uploads, cleanups,
                     restores, mishaps, stuck, swept>>
  BY DEF MoveAside, disk, others, bounds, history
<1>2. job.op \in Restores /\ job.area \in Areas /\ None \in Directories
  BY <1>1, JobsRestore DEF Directories
<1>3. /\ \A b \in Areas : target'[b] = IF b = job.area THEN None ELSE target[b]
      /\ \A q \in Restores, b \in Areas : old'[q][b] =
            IF q = job.op /\ b = job.area THEN target[job.area] ELSE old[q][b]
  BY <1>1, <1>2 DEF IInv, Typed
<1>4. Typed'
  BY <1>1, <1>2, <1>3 DEF IInv, Typed
<1>5. Numbered'
  BY <1>1, <1>2, <1>3, Shapes DEF IInv, Numbered, Unbegun
<1>6. Moving' /\ Marked'
  BY <1>1, <1>2, <1>3, Shapes, WhileMoving DEF IInv, Moving, InPlace, Marked
<1>7. Putting'
  BY <1>1, <1>2, <1>3, Shapes, WhileMoving DEF IInv, Putting, Pending, Moving
<1>8. RowsFit'
  BY <1>1, <1>2, <1>3, WhileMoving DEF IInv, RowsFit, Owed
<1>9. Tidy'
  <2>1. SUFFICES ASSUME mishaps = {}
                 PROVE  Explained(job.op, job.area)'
    BY <1>1, <1>2, <1>3, WhileMoving, AreaStepTidy
  <2>2. job.op \in Pending /\ job.op \notin db.markers
    BY <1>1, WhileMoving DEF Undone
  <2>3. job.area \in journals[job.op] /\ Generation(target[job.area]) # job.op
    BY <1>1, <1>2, <2>1, <2>2 DEF IInv, Moving, Tidy, Explained
  <2> QED
    BY <1>1, <1>2, <1>3, <2>2, <2>3, Shapes DEF Explained
<1>10. Protected'
  BY <1>1, <1>2, <1>3, Shapes, WhileMoving, StillProtected DEF IInv, Protected, Owed, Safe,
     Undone, Pending
<1>11. Locked' /\ JobFits' /\ SeenFits'
  BY <1>1 DEF IInv, Locked, JobFits, SeenFits
<1> QED
  BY <1>4, <1>5, <1>6, <1>7, <1>8, <1>9, <1>10, <1>11 DEF IInv

\* The staged directory is renamed into its place.
LEMMA MoveInKeeps ==
  ASSUME IInv, MoveIn
  PROVE  IInv'
<1>1. /\ job.pc = "move" /\ target[job.area] = None /\ staged[job.op][job.area] # None
      /\ target' = [target EXCEPT ![job.area] = staged[job.op][job.area]]
      /\ staged' = [staged EXCEPT ![job.op][job.area] = None]
      /\ job' = NextArea("move", "commit")
      /\ UNCHANGED <<old, journals, db, lock, commit, server, uploads, cleanups, restores,
                     mishaps, stuck, swept>>
  BY DEF MoveIn, disk, others, bounds, history
<1>2. /\ job' \in Jobs /\ job'.op = job.op /\ job'.committed = job.committed /\ job'.seen = job.seen
      /\ job'.pc = (IF job.area = "icons" THEN "commit" ELSE "move")
      /\ job'.area = (IF job.area = "icons" THEN "attachments" ELSE "icons")
  BY <1>1, JobsRestore, NextAreaIs DEF Pcs
<1>3. job.op \in Restores /\ job.area \in Areas /\ None \in Directories /\ Backup \in SUBSET Names
  BY <1>1, JobsRestore DEF Directories, Names
<1> DEFINE mine == staged[job.op][job.area]
<1>4. /\ Brought(mine, job.op, swept[job.op][job.area])
      /\ mishaps = {} => Generation(mine) = job.op
  BY <1>1, <1>3 DEF IInv, Moving, Marked
<1>5. /\ \A b \in Areas : target'[b] = IF b = job.area THEN mine ELSE target[b]
      /\ \A q \in Restores, b \in Areas : staged'[q][b] =
            IF q = job.op /\ b = job.area THEN None ELSE staged[q][b]
  BY <1>1, <1>3, <1>4 DEF IInv, Typed
<1>6. /\ mine \in Directories /\ mine # None /\ Files(mine) \subseteq Backup
      /\ Generation(mine) \in {None, job.op}
  BY <1>1, <1>3, <1>4, Shapes DEF Brought
<1> HIDE DEF mine
<1>7. Typed'
  BY <1>1, <1>2, <1>3, <1>4, <1>5, <1>6 DEF IInv, Typed
<1>8. Locked'
  BY <1>1, <1>2, <1>3, <1>4, <1>5, <1>6 DEF IInv, Locked
<1>9. Numbered'
  BY <1>1, <1>2, <1>3, <1>4, <1>5, <1>6, WhileMoving, Shapes DEF IInv, Numbered, Unbegun
<1>10. JobFits'
  BY <1>1, <1>2, <1>3, <1>4, <1>5, <1>6 DEF IInv, JobFits
<1>11. Moving' /\ Marked'
  BY <1>1, <1>2, <1>3, <1>4, <1>5, <1>6, WhileMoving DEF IInv, Moving, InPlace, Marked, Areas
<1>12. Putting'
  BY <1>1, <1>2, <1>3, <1>4, <1>5, <1>6 DEF IInv, Putting, Pending
<1>13. RowsFit'
  BY <1>1, <1>2, <1>3, <1>4, <1>5, <1>6, WhileMoving DEF IInv, RowsFit, Owed
<1>14. SeenFits'
  BY <1>1, <1>2, <1>3, <1>4, <1>5, <1>6 DEF IInv, SeenFits
<1>15. Tidy'
  <2>1. SUFFICES ASSUME mishaps = {}
                 PROVE  \A op, a : op = job.op /\ a = job.area => Explained(op, a)'
    BY <1>1, <1>2, <1>3, <1>5, WhileMoving, AreaStepTidy
  <2>2. job.op \in Pending /\ job.op \notin db.markers
    BY <1>1, WhileMoving DEF Undone
  <2>3. job.area \in journals[job.op] => old[job.op][job.area] # None
    BY <1>1, <1>3, <2>1, <2>2 DEF IInv, Moving, Tidy, Explained
  <2> QED
    BY <1>1, <1>2, <1>3, <1>4, <1>5, <1>6, <2>1, <2>2, <2>3, Shapes DEF Explained
<1>16. Protected'
  BY <1>1, <1>2, <1>3, <1>4, <1>5, <1>6, Shapes, WhileMoving, StillProtected DEF IInv,
     Protected, Owed, Safe, Undone, Pending
<1> QED
  BY <1>7, <1>8, <1>9, <1>10, <1>11, <1>12, <1>13, <1>14, <1>15, <1>16 DEF IInv

\* COMMIT goes to the database.
LEMMA SendCommitKeeps ==
  ASSUME IInv, SendCommit
  PROVE  IInv'
<1>1. /\ job.pc = "commit"
      /\ commit' = job.op
      /\ job' = [job EXCEPT !.pc = "sent"]
      /\ UNCHANGED <<target, old, staged, journals, db, lock, server, uploads, cleanups,
                     restores, mishaps, stuck, swept>>
  BY DEF SendCommit, disk, others, bounds, history
<1>2. /\ job' \in Jobs /\ job'.pc = "sent"
      /\ job'.op = job.op /\ job'.area = job.area
      /\ job'.committed = job.committed /\ job'.seen = job.seen
  BY <1>1, JobsRestore, JobGoesOn DEF Pcs
<1>3. job.op \in Restores /\ job.op \in Nat /\ job.op <= restores
  BY <1>1, JobsRestore
<1>4. Typed'
  BY <1>1, <1>2, <1>3 DEF IInv, Typed
<1>5. Locked'
  BY <1>1, <1>2, <1>3, NoneAssumption DEF IInv, Locked
<1>6. Numbered'
  BY <1>1, <1>2, <1>3 DEF IInv, Numbered, Unbegun
<1>7. JobFits'
  BY <1>1, <1>2, <1>3 DEF IInv, JobFits
<1>8. Moving' /\ Marked'
  BY <1>1, <1>2, <1>3, WhileMoving DEF IInv, Moving, InPlace, Marked, Undone, Pending
<1>9. Putting'
  BY <1>1, <1>2, <1>3 DEF IInv, Putting, Pending
<1>10. SeenFits'
  BY <1>1, <1>2, <1>3 DEF IInv, SeenFits
<1>11. Tidy'
  BY <1>1, <1>2, <1>3 DEF IInv, Tidy, Explained, Pending
<1>12. Protected'
  BY <1>1, <1>2, <1>3 DEF IInv, Protected, Owed, Safe, Undone, Pending
<1>13. RowsFit'
  BY <1>1 DEF IInv, RowsFit, Owed
<1> QED
  BY <1>4, <1>5, <1>6, <1>7, <1>8, <1>9, <1>10, <1>11, <1>12, <1>13 DEF IInv

\* The transaction is rolled back.
LEMMA AbortKeeps ==
  ASSUME IInv, Abort
  PROVE  IInv'
<1>1. /\ job.pc \in {"move", "commit"}
      /\ lock' = None
      /\ job' = [job EXCEPT !.pc = "failed"]
      /\ UNCHANGED <<target, old, staged, journals, db, commit, server, uploads, cleanups,
                     restores, mishaps, stuck, swept>>
  BY DEF Abort, disk, others, bounds, history
<1>2. /\ job' \in Jobs /\ job'.pc = "failed"
      /\ job'.op = job.op /\ job'.area = job.area
      /\ job'.committed = job.committed /\ job'.seen = job.seen
  BY <1>1, JobsRestore, JobGoesOn DEF Pcs
<1>3. Typed'
  BY <1>1, <1>2 DEF IInv, Typed
<1>4. Locked'
  BY <1>1, <1>2, NoneAssumption, WhileMoving DEF IInv, Locked
<1>5. Numbered'
  BY <1>1, <1>2 DEF IInv, Numbered, Unbegun
<1>6. JobFits'
  BY <1>1, <1>2 DEF IInv, JobFits
<1>7. Moving' /\ Marked'
  BY <1>1, <1>2 DEF IInv, Moving, InPlace, Marked
<1>8. Putting'
  BY <1>1, <1>2 DEF IInv, Putting, Pending
<1>9. SeenFits'
  BY <1>1, <1>2 DEF IInv, SeenFits
<1>10. Tidy'
  BY <1>1, <1>2 DEF IInv, Tidy, Explained, Pending
<1>11. Protected'
  BY <1>1, <1>2 DEF IInv, Protected, Owed, Safe, Undone, Pending
<1>12. RowsFit'
  BY <1>1 DEF IInv, RowsFit, Owed
<1> QED
  BY <1>3, <1>4, <1>5, <1>6, <1>7, <1>8, <1>9, <1>10, <1>11, <1>12 DEF IInv

\* The database commits the restore.
LEMMA ApplyCommitKeeps ==
  ASSUME IInv, ApplyCommit
  PROVE  IInv'
<1>1. /\ commit # None
      /\ db' = Restored
      /\ lock' = None /\ commit' = None
      /\ UNCHANGED <<target, old, staged, journals, server, job, uploads, cleanups,
                     restores, mishaps, stuck, swept>>
  BY DEF ApplyCommit, disk, others, bounds, history
<1>2. /\ commit \in Restores /\ lock = "restore" /\ job.pc \notin {"move", "commit"}
      /\ job.pc \notin {"area", "removing", "emptied", "root", "journal", "unmark"}
      /\ commit \in Pending /\ commit \notin db.markers /\ InPlace(commit)
  BY <1>1, NoneAssumption DEF IInv, Typed, Locked, Moving, Pending
<1>3. /\ db' \in Databases /\ db'.generation = db.generation + 1 /\ db'.markers = db.markers \cup {commit}
      /\ \A a \in Areas : db'.rows[a] = Backup \ Retained /\ db'.retained[a] = Retained
      /\ db'.lacking = swept[commit]
  BY <1>1, <1>2, RestoreAssumption DEF Restored, IInv, Typed, Databases, Names
<1>4. \A a \in Areas : Owed(a)' = Backup \ swept[commit][a]
  BY <1>3, RestoreAssumption DEF Owed
<1>5. \A a \in Areas : /\ Owed(a)' \subseteq Files(target[a])
                       /\ Generation(target[a]) \in {None, commit}
                       /\ mishaps = {} => Generation(target[a]) = commit
  BY <1>1, <1>2, <1>4 DEF InPlace, Brought, IInv, Marked
<1>6. commit <= restores /\ db.generation <= commit
  BY <1>1, <1>2 DEF IInv, Typed, Numbered, Unbegun, Restores
<1>7. \A u \in Uploads : u \notin Backup /\ (uploads[u] = None \/ uploads[u].pc # "moved")
  BY <1>2, RestoreAssumption, NoneAssumption DEF IInv, Locked
<1>8. Typed'
  BY <1>1, <1>2, <1>3, <1>4, <1>5, <1>6, <1>7 DEF IInv, Typed
<1>9. Locked'
  BY <1>1, <1>2, <1>3, <1>4, <1>5, <1>6, <1>7, NoneAssumption DEF IInv, Locked
<1>10. Numbered'
  <2>1. \A op \in Restores : Unbegun(op) => Unbegun(op)'
    BY <1>1, <1>3, Shapes DEF Unbegun
  <2>2. job.pc = "staged" => db.generation + 1 <= job.op
    BY <1>1, <1>2, <1>6, JobsRestore, Shapes DEF IInv, Numbered, Restores
  <2> QED
    BY <1>1, <1>2, <1>3, <1>6, <2>1, <2>2, Shapes DEF IInv, Numbered, Typed, Restores
<1>11. JobFits'
  BY <1>1, <1>2, <1>3, <1>4, <1>5, <1>6, <1>7, Shapes DEF IInv, JobFits
<1>12. Moving' /\ Marked'
  BY <1>1, <1>2, <1>3, <1>4, <1>5, <1>6, <1>7 DEF IInv, Moving, InPlace, Marked
<1>13. RowsFit'
  BY <1>1, <1>2, <1>3, <1>4, <1>5, <1>6, <1>7, RestoreAssumption, Shapes DEF IInv, RowsFit,
     Owed, Typed
<1>14. SeenFits'
  BY <1>1, <1>2, <1>3, <1>4, <1>5, <1>6, <1>7 DEF IInv, SeenFits
<1>15. Tidy'
  BY <1>1, <1>2, <1>3, <1>4, <1>5, <1>6, <1>7, Shapes DEF IInv, Tidy, Explained, Pending
<1>16. Protected'
  <2>1. \A a \in Areas : Generation(target[a]) \notin Undone'
    BY <1>1, <1>2, <1>3, <1>5, NoneAssumption DEF Undone, Pending
  <2> QED
    BY <1>1, <1>2, <1>5, <2>1 DEF Protected, Safe
<1>17. Putting'
  BY <1>1 DEF IInv, Putting, Pending
<1> QED
  BY <1>8, <1>9, <1>10, <1>11, <1>12, <1>13, <1>14, <1>15, <1>16, <1>17 DEF IInv

\* COMMIT never arrives.
LEMMA DropCommitKeeps ==
  ASSUME IInv, DropCommit
  PROVE  IInv'
<1>1. /\ commit # None
      /\ lock' = None /\ commit' = None
      /\ UNCHANGED <<target, old, staged, journals, db, server, job, uploads, cleanups,
                     restores, mishaps, stuck, swept>>
  BY DEF DropCommit, disk, others, bounds, history
<1>2. Typed'
  BY <1>1 DEF IInv, Typed
<1>3. Locked'
  BY <1>1, NoneAssumption DEF IInv, Locked
<1>4. Numbered'
  BY <1>1, Shapes DEF IInv, Numbered, Unbegun
<1>5. Moving' /\ Marked'
  BY <1>1 DEF IInv, Moving, InPlace, Marked
<1>6. SeenFits'
  BY <1>1 DEF IInv, SeenFits
<1>7. JobFits' /\ Putting' /\ RowsFit' /\ Tidy' /\ Protected'
  BY <1>1 DEF IInv, JobFits, Putting, Pending, RowsFit, Owed, Tidy, Explained, Protected,
     Safe, Undone
<1> QED
  BY <1>2, <1>3, <1>4, <1>5, <1>6, <1>7 DEF IInv

\* The answer to COMMIT.
LEMMA AnsweredKeeps ==
  ASSUME IInv, Answered
  PROVE  IInv'
<1>1. /\ job.pc = "sent" /\ commit = None
      /\ job' = [job EXCEPT !.pc = IF job.op \in db.markers THEN "recover" ELSE "failed"]
      /\ UNCHANGED <<target, old, staged, journals, db, lock, commit, server, uploads,
                     cleanups, restores, mishaps, stuck, swept>>
  BY DEF Answered, disk, others, bounds, history
<1>2. /\ job' \in Jobs /\ job'.pc \in {"recover", "failed"} /\ job'.op = job.op
      /\ job'.area = job.area /\ job'.committed = job.committed /\ job'.seen = job.seen
  BY <1>1, JobsRestore, JobGoesOn DEF Pcs
<1>3. Typed'
  BY <1>1, <1>2 DEF IInv, Typed
<1>4. Locked'
  BY <1>1, <1>2 DEF IInv, Locked
<1>5. Numbered'
  BY <1>1, <1>2 DEF IInv, Numbered, Unbegun
<1>6. JobFits'
  BY <1>1, <1>2 DEF IInv, JobFits
<1>7. Moving' /\ Marked'
  BY <1>1, <1>2 DEF IInv, Moving, InPlace, Marked
<1>8. Putting'
  BY <1>1, <1>2 DEF IInv, Putting, Pending
<1>9. SeenFits'
  BY <1>1, <1>2 DEF IInv, SeenFits
<1>10. Tidy'
  BY <1>1, <1>2 DEF IInv, Tidy, Explained, Pending
<1>11. Protected'
  BY <1>1, <1>2 DEF IInv, Protected, Owed, Safe, Undone, Pending
<1>12. RowsFit'
  BY <1>1 DEF IInv, RowsFit, Owed
<1> QED
  BY <1>3, <1>4, <1>5, <1>6, <1>7, <1>8, <1>9, <1>10, <1>11, <1>12 DEF IInv

\* The answer is lost.
LEMMA LoseAnswerKeeps ==
  ASSUME IInv, LoseAnswer
  PROVE  IInv'
<1>1. /\ job.pc = "sent"
      /\ job' = [job EXCEPT !.pc = "failed"]
      /\ UNCHANGED <<target, old, staged, journals, db, lock, commit, server, uploads,
                     cleanups, restores, mishaps, stuck, swept>>
  BY DEF LoseAnswer, disk, others, bounds, history
<1>2. /\ job' \in Jobs /\ job'.pc = "failed"
      /\ job'.op = job.op /\ job'.area = job.area
      /\ job'.committed = job.committed /\ job'.seen = job.seen
  BY <1>1, JobsRestore, JobGoesOn DEF Pcs
<1>3. Typed'
  BY <1>1, <1>2 DEF IInv, Typed
<1>4. Locked'
  BY <1>1, <1>2 DEF IInv, Locked
<1>5. Numbered'
  BY <1>1, <1>2 DEF IInv, Numbered, Unbegun
<1>6. JobFits'
  BY <1>1, <1>2 DEF IInv, JobFits
<1>7. Moving' /\ Marked'
  BY <1>1, <1>2 DEF IInv, Moving, InPlace, Marked
<1>8. Putting'
  BY <1>1, <1>2 DEF IInv, Putting, Pending
<1>9. SeenFits'
  BY <1>1, <1>2 DEF IInv, SeenFits
<1>10. Tidy'
  BY <1>1, <1>2 DEF IInv, Tidy, Explained, Pending
<1>11. Protected'
  BY <1>1, <1>2 DEF IInv, Protected, Owed, Safe, Undone, Pending
<1>12. RowsFit'
  BY <1>1 DEF IInv, RowsFit, Owed
<1> QED
  BY <1>3, <1>4, <1>5, <1>6, <1>7, <1>8, <1>9, <1>10, <1>11, <1>12 DEF IInv

\* The request looks for its row.
LEMMA VerifyKeeps ==
  ASSUME IInv, Verify
  PROVE  IInv'
<1>1. /\ job.pc = "failed"
      /\ job' = [job EXCEPT !.pc = "recover", !.committed = job.op \in db.markers]
      /\ UNCHANGED <<target, old, staged, journals, db, lock, commit, server, uploads,
                     cleanups, restores, mishaps, stuck, swept>>
  BY DEF Verify, disk, others, bounds, history
<1>2. /\ job' \in Jobs /\ job'.pc = "recover" /\ job'.op = job.op
      /\ job'.area = job.area /\ job'.seen = job.seen
  <2>1. PICK outcome \in BOOLEAN : outcome = (job.op \in db.markers)
    <3>1. (job.op \in db.markers) \in BOOLEAN
      OBVIOUS
    <3> QED
      BY <3>1
  <2>2. job' = [job EXCEPT !.pc = "recover", !.committed = outcome]
    BY <1>1, <2>1
  <2>3. job \in Jobs /\ "recover" \in Pcs
    BY <1>1, JobsRestore DEF Pcs
  <2> QED
    BY <2>1, <2>2, <2>3, JobLearns
<1>3. Typed'
  BY <1>1, <1>2 DEF IInv, Typed
<1>4. Locked'
  BY <1>1, <1>2 DEF IInv, Locked
<1>5. Numbered'
  BY <1>1, <1>2 DEF IInv, Numbered, Unbegun
<1>6. JobFits'
  BY <1>1, <1>2 DEF IInv, JobFits
<1>7. Moving' /\ Marked'
  BY <1>1, <1>2 DEF IInv, Moving, InPlace, Marked
<1>8. Putting'
  BY <1>1, <1>2 DEF IInv, Putting, Pending
<1>9. SeenFits'
  BY <1>1, <1>2 DEF IInv, SeenFits
<1>10. Tidy'
  BY <1>1, <1>2 DEF IInv, Tidy, Explained, Pending
<1>11. Protected'
  BY <1>1, <1>2 DEF IInv, Protected, Owed, Safe, Undone, Pending
<1>12. RowsFit'
  BY <1>1 DEF IInv, RowsFit, Owed
<1> QED
  BY <1>3, <1>4, <1>5, <1>6, <1>7, <1>8, <1>9, <1>10, <1>11, <1>12 DEF IInv

\* The request ends without an answer.
LEMMA OutcomeUnknownKeeps ==
  ASSUME IInv, OutcomeUnknown
  PROVE  IInv'
<1>1. /\ job.pc = "failed"
      /\ job' = Idle
      /\ UNCHANGED <<target, old, staged, journals, db, lock, commit, server, uploads,
                     cleanups, restores, mishaps, stuck, swept>>
  BY DEF OutcomeUnknown, disk, others, bounds, history
<1>2. /\ job' \in Jobs /\ job'.pc = "idle" /\ job'.op = 0 /\ job'.area = "attachments"
  BY <1>1, IdleIs
<1>3. Typed'
  BY <1>1, <1>2 DEF IInv, Typed
<1>4. Locked'
  BY <1>1, <1>2 DEF IInv, Locked
<1>5. Numbered'
  BY <1>1, <1>2 DEF IInv, Numbered, Unbegun
<1>6. JobFits'
  BY <1>1, <1>2 DEF IInv, JobFits
<1>7. Moving' /\ Marked'
  BY <1>1, <1>2 DEF IInv, Moving, InPlace, Marked
<1>8. Putting'
  BY <1>1, <1>2 DEF IInv, Putting, Pending
<1>9. SeenFits'
  BY <1>1, <1>2, IdleIs DEF IInv, SeenFits, Typed
<1>10. Tidy'
  BY <1>1, <1>2 DEF IInv, Tidy, Explained, Pending
<1>11. Protected'
  BY <1>1, <1>2 DEF IInv, Protected, Owed, Safe, Undone, Pending
<1>12. RowsFit'
  BY <1>1 DEF IInv, RowsFit, Owed
<1> QED
  BY <1>3, <1>4, <1>5, <1>6, <1>7, <1>8, <1>9, <1>10, <1>11, <1>12 DEF IInv

\* Recovery takes the lock.
LEMMA RecoverBeginKeeps ==
  ASSUME IInv, RecoverBegin
  PROVE  IInv'
<1>1. /\ job.pc = "recover" /\ lock = None
      /\ lock' = "recovery"
      /\ job' = [job EXCEPT !.pc = "area", !.area = "attachments", !.seen = None,
                          !.committed = OutcomeUnderLock]
      /\ UNCHANGED <<target, old, staged, journals, db, commit, server, uploads, cleanups,
                     restores, mishaps, stuck, swept>>
  BY DEF RecoverBegin, disk, others, bounds, history
<1>2. /\ job' \in Jobs /\ job'.pc = "area" /\ job'.op = job.op /\ job'.area = "attachments"
      /\ job'.seen = None /\ job'.committed = (job.op \in db.markers)
  <2>1. PICK outcome \in BOOLEAN : outcome = (job.op \in db.markers)
    <3>1. (job.op \in db.markers) \in BOOLEAN
      OBVIOUS
    <3> QED
      BY <3>1
  <2>2. job' = [job EXCEPT !.pc = "area", !.area = "attachments", !.seen = None,
                           !.committed = outcome]
    BY <1>1, <2>1 DEF OutcomeUnderLock
  <2> QED
    BY <2>1, <2>2, <1>1, JobsRestore, JobHasLock
<1>3. Typed'
  BY <1>1, <1>2 DEF IInv, Typed
<1>4. Locked'
  BY <1>1, <1>2, NoneAssumption DEF IInv, Locked
<1>5. Numbered'
  BY <1>1, <1>2 DEF IInv, Numbered, Unbegun
<1>6. JobFits'
  BY <1>1, <1>2 DEF IInv, JobFits
<1>7. Moving' /\ Marked'
  BY <1>1, <1>2 DEF IInv, Moving, InPlace, Marked
<1>8. Putting'
  BY <1>1, <1>2 DEF IInv, Putting, Pending
<1>9. SeenFits'
  BY <1>1, <1>2 DEF IInv, SeenFits
<1>10. Tidy'
  BY <1>1, <1>2 DEF IInv, Tidy, Explained, Pending
<1>11. Protected'
  BY <1>1, <1>2 DEF IInv, Protected, Owed, Safe, Undone, Pending
<1>12. RowsFit'
  BY <1>1 DEF IInv, RowsFit, Owed
<1> QED
  BY <1>3, <1>4, <1>5, <1>6, <1>7, <1>8, <1>9, <1>10, <1>11, <1>12 DEF IInv

\* Recovery leaves to a person what it cannot explain.
LEMMA GiveUpKeeps ==
  ASSUME IInv, GiveUp
  PROVE  IInv'
<1>1. /\ Inexplicable
      /\ lock' = None /\ job' = Idle
      /\ stuck' = stuck \cup {job.op}
      /\ server' = IF server = "starting" THEN "manual" ELSE server
      /\ UNCHANGED <<target, old, staged, journals, db, commit, uploads, cleanups,
                     restores, mishaps, swept>>
  BY DEF GiveUp, disk, others, bounds, history
<1>2. /\ job' \in Jobs /\ job'.pc = "idle" /\ job'.op = 0 /\ job'.area = "attachments"
  BY <1>1, IdleIs
<1>3. job.pc = "area" /\ job.op \in Restores /\ job.area \in Areas
  BY <1>1, JobsRestore DEF Inexplicable
<1>4. mishaps # {}
  BY <1>1, <1>3, WhileRecovering DEF IInv, Tidy, Explained, Inexplicable, UndoingReplaced,
     UndoingAdded, Undoing, Own, Live, Aside
<1>5. Typed'
  BY <1>1, <1>2, <1>3, <1>4 DEF IInv, Typed
<1>6. Locked'
  BY <1>1, <1>2, <1>3, <1>4, NoneAssumption, WhileRecovering DEF IInv, Locked
<1>7. Numbered'
  BY <1>1, <1>2, <1>3, <1>4 DEF IInv, Numbered, Unbegun
<1>8. JobFits'
  BY <1>1, <1>2, <1>3, <1>4 DEF IInv, JobFits
<1>9. Moving' /\ Marked'
  BY <1>1, <1>2, <1>3, <1>4 DEF IInv, Moving, InPlace, Marked
<1>10. Putting'
  BY <1>1, <1>2, <1>3, <1>4 DEF IInv, Putting, Pending
<1>11. SeenFits'
  BY <1>1, <1>2, <1>3, <1>4, WhileRecovering DEF IInv, SeenFits
<1>12. Tidy'
  BY <1>1, <1>2, <1>3, <1>4 DEF IInv, Tidy, Explained, Pending
<1>13. Protected'
  BY <1>1, <1>2, <1>3, <1>4 DEF IInv, Protected, Owed, Safe, Undone, Pending
<1>14. RowsFit'
  BY <1>1 DEF IInv, RowsFit, Owed
<1> QED
  BY <1>5, <1>6, <1>7, <1>8, <1>9, <1>10, <1>11, <1>12, <1>13, <1>14 DEF IInv

\* The operation root goes.
LEMMA RemoveRootKeeps ==
  ASSUME IInv, RemoveRoot
  PROVE  IInv'
<1>1. /\ job.pc = "root"
      /\ staged' = [staged EXCEPT ![job.op] = [a \in Areas |-> None]]
      /\ job' = [job EXCEPT !.pc = "journal"]
      /\ UNCHANGED <<target, old, journals, db, lock, commit, server, uploads, cleanups,
                     restores, mishaps, stuck, swept>>
  BY DEF RemoveRoot, disk, others, bounds, history
<1>2. /\ job' \in Jobs /\ job'.pc = "journal"
      /\ job'.op = job.op /\ job'.area = job.area
      /\ job'.committed = job.committed /\ job'.seen = job.seen
  BY <1>1, JobsRestore, JobGoesOn DEF Pcs
<1>3. job.op \in Restores /\ job.op \in Nat /\ job.op <= restores
  BY <1>1, JobsRestore
<1>4. staged' \in [Restores -> [Areas -> Directories]]
  BY <1>1, <1>3 DEF IInv, Typed, Directories
<1>5. Typed'
  BY <1>1, <1>2, <1>3, <1>4 DEF IInv, Typed
<1>6. Locked'
  BY <1>1, <1>2, <1>3, <1>4 DEF IInv, Locked
<1>7. Numbered'
  BY <1>1, <1>2, <1>3, <1>4 DEF IInv, Numbered, Unbegun
<1>8. JobFits'
  BY <1>1, <1>2, <1>3, <1>4 DEF IInv, JobFits
<1>9. Moving' /\ Marked'
  BY <1>1, <1>2, <1>3, <1>4 DEF IInv, Moving, InPlace, Marked
<1>10. Putting'
  BY <1>1, <1>2, <1>3, <1>4 DEF IInv, Putting, Pending
<1>11. SeenFits'
  BY <1>1, <1>2, <1>3, <1>4 DEF IInv, SeenFits
<1>12. Tidy'
  BY <1>1, <1>2, <1>3, <1>4 DEF IInv, Tidy, Explained, Pending
<1>13. Protected'
  BY <1>1, <1>2, <1>3, <1>4 DEF IInv, Protected, Owed, Safe, Undone, Pending
<1>14. RowsFit'
  BY <1>1 DEF IInv, RowsFit, Owed
<1> QED
  BY <1>5, <1>6, <1>7, <1>8, <1>9, <1>10, <1>11, <1>12, <1>13, <1>14 DEF IInv

\* The restore is over.
LEMMA RemoveJournalKeeps ==
  ASSUME IInv, RemoveJournal
  PROVE  IInv'
<1>1. /\ job.pc = "journal"
      /\ journals' = [journals EXCEPT ![job.op] = None]
      /\ lock' = IF job.committed THEN lock ELSE None
      /\ job' = [job EXCEPT !.pc = IF job.committed THEN "unmark" ELSE "forget"]
      /\ UNCHANGED <<target, old, staged, db, commit, server, uploads, cleanups, restores,
                     mishaps, stuck, swept>>
  BY DEF RemoveJournal, disk, others, bounds, history
<1>2. /\ job' \in Jobs /\ job'.pc = (IF job.committed THEN "unmark" ELSE "forget") /\ job'.op = job.op
      /\ job'.area = job.area /\ job'.committed = job.committed /\ job'.seen = job.seen
  BY <1>1, JobsRestore, JobGoesOn DEF Pcs
<1>3. job.op \in Restores /\ job.op \in Nat /\ job.op <= restores
  BY <1>1, JobsRestore
<1>4. commit = None /\ lock = "recovery" /\ job.op \in Pending
  BY <1>1, WhileRecovering
<1>5. /\ \A q \in Restores : journals'[q] = IF q = job.op THEN None ELSE journals[q]
      /\ Pending' = Pending \ {job.op}
  BY <1>1, <1>3 DEF IInv, Typed, Pending
<1>6. Typed'
  BY <1>1, <1>2, <1>3, <1>4, <1>5 DEF IInv, Typed
<1>7. Locked'
  BY <1>1, <1>2, <1>3, <1>4, <1>5, NoneAssumption, WhileRecovering DEF IInv, Locked
<1>8. Numbered'
  BY <1>1, <1>2, <1>3, <1>4, <1>5 DEF IInv, Numbered, Unbegun
<1>9. JobFits'
  BY <1>1, <1>2, <1>3, <1>4, <1>5 DEF IInv, JobFits
<1>10. Moving' /\ Marked'
  BY <1>1, <1>2, <1>3, <1>4, <1>5 DEF IInv, Moving, InPlace, Marked
<1>11. Putting'
  BY <1>1, <1>2, <1>3, <1>4, <1>5 DEF IInv, Putting, Pending
<1>12. SeenFits'
  BY <1>1, <1>2, <1>3, <1>4, <1>5 DEF IInv, SeenFits
<1>13. Tidy'
  BY <1>1, <1>2, <1>3, <1>4, <1>5 DEF IInv, Tidy, Explained, Pending
<1>14. Protected'
  BY <1>1, <1>2, <1>3, <1>4, <1>5, Shapes, WhileRecovering DEF IInv, Protected, Owed, Safe,
     Undone, Pending, Putting
<1>15. RowsFit'
  BY <1>1 DEF IInv, RowsFit, Owed
<1> QED
  BY <1>6, <1>7, <1>8, <1>9, <1>10, <1>11, <1>12, <1>13, <1>14, <1>15 DEF IInv

\* The marker files go.
LEMMA RemoveMarkersKeeps ==
  ASSUME IInv, RemoveMarkers
  PROVE  IInv'
<1>1. /\ job.pc = "unmark"
      /\ target' = [a \in Areas |-> Unmarked(target[a])] \/ target' = target
      /\ lock' = None
      /\ job' = [job EXCEPT !.pc = "forget"]
      /\ UNCHANGED <<old, staged, journals, db, commit, server, uploads, cleanups,
                     restores, mishaps, stuck, swept>>
  BY DEF RemoveMarkers, disk, others, bounds, history
<1>2. /\ job' \in Jobs /\ job'.pc = "forget"
      /\ job'.op = job.op /\ job'.area = job.area
      /\ job'.committed = job.committed /\ job'.seen = job.seen
  BY <1>1, JobsRestore, JobGoesOn DEF Pcs
<1>3. commit = None
  BY <1>1, WhileRecovering
<1>4. /\ \A b \in Areas : target'[b] \in Directories /\ Files(target'[b]) = Files(target[b])
      /\ \A b \in Areas : Generation(target'[b]) \in {None, Generation(target[b])}
      /\ target' \in [Areas -> Directories]
  BY <1>1, Shapes, UnmarkedIs DEF IInv, Typed
<1>5. Typed'
  BY <1>1, <1>2, <1>3, <1>4 DEF IInv, Typed
<1>6. Locked'
  BY <1>1, <1>2, <1>3, <1>4, NoneAssumption, WhileRecovering DEF IInv, Locked
<1>7. Numbered'
  BY <1>1, <1>2, <1>3, <1>4, Shapes DEF IInv, Numbered, Unbegun
<1>8. JobFits'
  BY <1>1, <1>2, <1>3, <1>4 DEF IInv, JobFits
<1>9. Moving' /\ Marked'
  BY <1>1, <1>2, <1>3, <1>4 DEF IInv, Moving, InPlace, Marked
<1>10. Putting'
  BY <1>1, <1>2, <1>3, <1>4 DEF IInv, Putting, Pending
<1>11. RowsFit'
  BY <1>1, <1>2, <1>3, <1>4, WhileRecovering DEF IInv, RowsFit, Owed
<1>12. SeenFits'
  BY <1>1, <1>2, <1>3, <1>4 DEF IInv, SeenFits
<1>13. Tidy'
  BY <1>1, <1>2, <1>3, <1>4 DEF IInv, Tidy, Explained, Pending
<1>14. Protected'
  BY <1>1, <1>2, <1>3, <1>4, Shapes DEF IInv, Protected, Owed, Safe, Undone, Pending
<1> QED
  BY <1>5, <1>6, <1>7, <1>8, <1>9, <1>10, <1>11, <1>12, <1>13, <1>14 DEF IInv

\* The row of the restore goes.
LEMMA ForgetKeeps ==
  ASSUME IInv, Forget
  PROVE  IInv'
<1>1. /\ job.pc = "forget"
      /\ db' = [db EXCEPT !.markers = @ \ {job.op}] \/ db' = db
      /\ job' = Idle
      /\ UNCHANGED <<target, old, staged, journals, lock, commit, server, uploads,
                     cleanups, restores, mishaps, stuck, swept>>
  BY DEF Forget, disk, others, bounds, history
<1>2. /\ job' \in Jobs /\ job'.pc = "idle" /\ job'.op = 0 /\ job'.area = "attachments"
  BY <1>1, IdleIs
<1>3. /\ db' \in Databases /\ db'.rows = db.rows /\ db'.retained = db.retained
      /\ db'.generation = db.generation /\ db.markers \ {job.op} \subseteq db'.markers
      /\ db'.markers \subseteq db.markers /\ db'.lacking = db.lacking
  BY <1>1 DEF IInv, Typed, Databases
<1>4. job.op \notin Pending /\ Undone' = Undone
  BY <1>1, <1>3 DEF IInv, JobFits, Pending, Undone
<1>5. Typed'
  BY <1>1, <1>2, <1>3, <1>4 DEF IInv, Typed
<1>6. Locked'
  BY <1>1, <1>2, <1>3, <1>4 DEF IInv, Locked
<1>7. Numbered'
  BY <1>1, <1>2, <1>3, <1>4 DEF IInv, Numbered, Unbegun
<1>8. JobFits'
  BY <1>1, <1>2, <1>3, <1>4 DEF IInv, JobFits
<1>9. Moving' /\ Marked'
  BY <1>1, <1>2, <1>3, <1>4 DEF IInv, Moving, InPlace, Marked
<1>10. Putting'
  BY <1>1, <1>2, <1>3, <1>4 DEF IInv, Putting, Pending
<1>11. RowsFit'
  BY <1>1, <1>2, <1>3, <1>4 DEF IInv, RowsFit, Owed
<1>12. SeenFits'
  BY <1>1, <1>2, <1>3, <1>4, IdleIs DEF IInv, SeenFits, Typed
<1>13. Tidy'
  BY <1>1, <1>2, <1>3, <1>4 DEF IInv, Tidy, Explained, Pending
<1>14. Protected'
  BY <1>1, <1>2, <1>3, <1>4 DEF IInv, Protected, Owed, Safe, Undone, Pending
<1> QED
  BY <1>5, <1>6, <1>7, <1>8, <1>9, <1>10, <1>11, <1>12, <1>13, <1>14 DEF IInv

\* A call to the disk or the database fails.
LEMMA RecoveryFailsKeeps ==
  ASSUME IInv, RecoveryFails
  PROVE  IInv'
<1>1. /\ job.pc \in {"area", "removing", "emptied", "root", "journal"}
      /\ lock' = None /\ job' = Idle
      /\ mishaps' = IF Torn THEN mishaps \cup {"torn"} ELSE mishaps
      /\ UNCHANGED <<target, old, staged, journals, db, commit, server, uploads, cleanups,
                     restores, stuck, swept>>
  BY DEF RecoveryFails, disk, others, bounds, history, LockReleased, Mishaps
<1>2. /\ job' \in Jobs /\ job'.pc = "idle" /\ job'.op = 0 /\ job'.area = "attachments"
  BY <1>1, IdleIs
<1>3. job.op \in Restores /\ job.area \in Areas
  BY <1>1, JobsRestore
<1>4. Typed'
  BY <1>1, <1>2, <1>3 DEF IInv, Typed
<1>5. Locked'
  BY <1>1, <1>2, <1>3, NoneAssumption, WhileRecovering DEF IInv, Locked
<1>6. Numbered'
  BY <1>1, <1>2, <1>3 DEF IInv, Numbered, Unbegun
<1>7. JobFits'
  BY <1>1, <1>2, <1>3 DEF IInv, JobFits
<1>8. Moving' /\ Marked'
  BY <1>1, <1>2, <1>3 DEF IInv, Moving, InPlace, Marked
<1>9. Putting'
  BY <1>1, <1>2, <1>3 DEF IInv, Putting, Pending
<1>10. SeenFits'
  BY <1>1, <1>2, <1>3, WhileRecovering DEF IInv, SeenFits
<1>11. Tidy'
  <2>1. SUFFICES ASSUME mishaps' = {}
                 PROVE  \A op \in Pending, a \in Areas : Explained(op, a)'
    BY <1>1, <1>2, <1>3 DEF IInv, Tidy, Pending
  <2>2. mishaps = {} /\ ~Torn /\ \A op \in Pending, a \in Areas : Explained(op, a)
    BY <1>1, <2>1 DEF IInv, Tidy
  <2>3. job.pc = "removing" => \A op \in Pending : op = job.op
    BY <2>2, WhileRecovering DEF IInv, Tidy
  <2>4. job.pc = "removing" => Generation(target[job.area]) = job.op
    BY <2>2, JobsRestore, Shapes, DirectoryParts DEF IInv, Putting, Torn, Live
  <2> QED
    BY <1>1, <1>2, <1>3, <2>2, <2>3, <2>4 DEF Explained
<1>12. Protected'
  BY <1>1, <1>2, <1>3 DEF IInv, Protected, Owed, Safe, Undone, Pending
<1>13. RowsFit'
  BY <1>1 DEF IInv, RowsFit, Owed
<1> QED
  BY <1>4, <1>5, <1>6, <1>7, <1>8, <1>9, <1>10, <1>11, <1>12, <1>13 DEF IInv

\* The process is gone.
LEMMA CrashKeeps ==
  ASSUME IInv, Crash
  PROVE  IInv'
<1>1. /\ server' = "starting" /\ job' = Idle /\ lock' = IF commit # None THEN lock ELSE None
      /\ uploads' = [u \in Uploads |->
                     IF uploads[u] # None /\ uploads[u].pc # "stored"
                     THEN [uploads[u] EXCEPT !.pc = "gone"] ELSE uploads[u]]
      /\ cleanups' = {}
      /\ mishaps' = IF Torn THEN mishaps \cup {"torn"} ELSE mishaps
      /\ UNCHANGED <<target, old, staged, journals, db, commit, restores, stuck, swept>>
  BY DEF Crash, disk, others, bounds, history, Mishaps
<1>2. /\ job' \in Jobs /\ job'.pc = "idle" /\ job'.op = 0 /\ job'.area = "attachments"
  BY <1>1, IdleIs
<1>3. /\ uploads' \in [Uploads -> Uploaded \cup {None}]
      /\ \A u \in Uploads : IF uploads[u] # None /\ uploads[u].pc # "stored"
            THEN uploads'[u] # None /\ uploads'[u].pc = "gone" ELSE uploads'[u] = uploads[u]
  BY <1>1, NoneAssumption DEF IInv, Typed, Uploaded
<1>4. Typed'
  BY <1>1, <1>2, <1>3 DEF IInv, Typed
<1>5. Locked'
  BY <1>1, <1>2, <1>3, NoneAssumption DEF IInv, Locked
<1>6. Numbered'
  BY <1>1, <1>2, <1>3 DEF IInv, Numbered, Unbegun
<1>7. JobFits'
  BY <1>1, <1>2, <1>3 DEF IInv, JobFits
<1>8. Moving' /\ Marked'
  BY <1>1, <1>2, <1>3 DEF IInv, Moving, InPlace, Marked
<1>9. Putting'
  BY <1>1, <1>2, <1>3 DEF IInv, Putting, Pending
<1>10. RowsFit'
  BY <1>1, <1>2, <1>3 DEF IInv, RowsFit, Owed
<1>11. SeenFits'
  BY <1>1, <1>2, <1>3, IdleIs DEF IInv, SeenFits, Typed
<1>12. Tidy'
  <2>1. SUFFICES ASSUME mishaps' = {}
                 PROVE  \A op \in Pending, a \in Areas : Explained(op, a)'
    BY <1>1, <1>2, <1>3 DEF IInv, Tidy, Pending
  <2>2. mishaps = {} /\ ~Torn /\ \A op \in Pending, a \in Areas : Explained(op, a)
    BY <1>1, <2>1 DEF IInv, Tidy
  <2>3. job.pc = "removing" => \A op \in Pending : op = job.op
    BY <2>2, WhileRecovering DEF IInv, Tidy
  <2>4. job.pc = "removing" => Generation(target[job.area]) = job.op
    BY <2>2, JobsRestore, Shapes, DirectoryParts DEF IInv, Putting, Torn, Live
  <2> QED
    BY <1>1, <1>2, <1>3, <2>2, <2>3, <2>4 DEF Explained
<1>13. Protected'
  BY <1>1, <1>2, <1>3 DEF IInv, Protected, Owed, Safe, Undone, Pending
<1> QED
  BY <1>4, <1>5, <1>6, <1>7, <1>8, <1>9, <1>10, <1>11, <1>12, <1>13 DEF IInv

\* A start recovers a restore.
LEMMA RecoverAtStartKeeps ==
  ASSUME IInv, NEW op \in Restores, RecoverAtStart(op)
  PROVE  IInv'
<1>1. /\ job.pc = "idle" /\ op \in Pending
      /\ job' = [Idle EXCEPT !.pc = "recover", !.op = op]
      /\ UNCHANGED <<target, old, staged, journals, db, lock, commit, server, uploads,
                     cleanups, restores, mishaps, stuck, swept>>
  BY DEF RecoverAtStart, disk, others, bounds, history, Idle
<1>2. /\ job' \in Jobs /\ job'.pc = "recover" /\ job'.op = op /\ job'.seen = None
  BY <1>1, JobRecovers
<1>3. op \in Nat /\ op <= restores
  BY <1>1 DEF IInv, Numbered, Unbegun, Pending, Typed, Restores
<1>4. Typed'
  BY <1>1, <1>2, <1>3 DEF IInv, Typed
<1>5. Locked'
  BY <1>1, <1>2, <1>3 DEF IInv, Locked
<1>6. Numbered'
  BY <1>1, <1>2, <1>3 DEF IInv, Numbered, Unbegun, Restores, Typed
<1>7. JobFits'
  BY <1>1, <1>2, <1>3 DEF IInv, JobFits, Pending
<1>8. Moving' /\ Marked'
  BY <1>1, <1>2, <1>3 DEF IInv, Moving, InPlace, Marked
<1>9. Putting'
  BY <1>1, <1>2, <1>3 DEF IInv, Putting, Pending
<1>10. SeenFits'
  BY <1>1, <1>2, <1>3 DEF IInv, SeenFits
<1>11. Tidy'
  BY <1>1, <1>2, <1>3 DEF IInv, Tidy, Explained, Pending
<1>12. Protected'
  BY <1>1, <1>2, <1>3 DEF IInv, Protected, Owed, Safe, Undone, Pending
<1>13. RowsFit'
  BY <1>1 DEF IInv, RowsFit, Owed
<1> QED
  BY <1>4, <1>5, <1>6, <1>7, <1>8, <1>9, <1>10, <1>11, <1>12, <1>13 DEF IInv

\* The server listens.
LEMMA ListenKeeps ==
  ASSUME IInv, Listen
  PROVE  IInv'
<1>1. /\ server' = "up"
      /\ UNCHANGED <<target, old, staged, journals, db, lock, commit, job, uploads,
                     cleanups, restores, mishaps, stuck, swept>>
  BY DEF Listen, disk, others, bounds, history
<1>2. Typed'
  BY <1>1 DEF IInv, Typed
<1>3. Locked' /\ Numbered' /\ JobFits' /\ Moving' /\ Marked' /\ Putting' /\ RowsFit' /\ SeenFits' /\ Tidy' /\ Protected'
  BY <1>1 DEF IInv, Locked, Numbered, Unbegun, JobFits, Moving, InPlace, Marked, Putting, Pending,
     RowsFit, Owed, SeenFits, Tidy, Explained, Protected, Safe, Undone
<1> QED
  BY <1>2, <1>3 DEF IInv

\* A file is put into the live directory.
LEMMA StoreKeeps ==
  ASSUME IInv, NEW u \in Uploads, NEW a \in Areas, Store(u, a)
  PROVE  IInv'
<1>1. /\ Serving /\ uploads[u] = None
      /\ lock' = u
      /\ target' = [target EXCEPT ![a] = Added(@, u)]
      /\ uploads' = [uploads EXCEPT ![u] = [pc |-> "moved", area |-> a, generation |-> db.generation]]
      /\ mishaps' = IF target[a] = None /\ Pending # {} THEN mishaps \cup {"recreated"} ELSE mishaps
      /\ UNCHANGED <<old, staged, journals, db, commit, server, job, cleanups, restores,
                     stuck, swept>>
  BY DEF Store, disk, others, bounds, history
<1>2. target[a] \in Directories /\ u \in Names
  BY Shapes DEF Names
<1>3. /\ target' \in [Areas -> Directories] /\ \A b \in Areas : b # a => target'[b] = target[b]
      /\ Files(target'[a]) = Files(target[a]) \cup {u} /\ target'[a] # None
      /\ Generation(target'[a]) = Generation(target[a])
  BY <1>1, <1>2, AddedIs DEF IInv, Typed
<1>4. /\ uploads' \in [Uploads -> Uploaded \cup {None}]
      /\ uploads'[u] # None /\ uploads'[u].pc = "moved" /\ uploads'[u].area = a
      /\ \A w \in Uploads : w # u => uploads'[w] = uploads[w]
  BY <1>1, NoneAssumption, Shapes DEF IInv, Typed, Uploaded
<1>5. Typed'
  BY <1>1, <1>2, <1>3, <1>4 DEF IInv, Typed
<1>6. Locked'
  BY <1>1, <1>2, <1>3, <1>4, NoneAssumption, WhileServing DEF IInv, Locked, Serving
<1>7. Numbered'
  BY <1>1, <1>2, <1>3, <1>4 DEF IInv, Numbered, Unbegun
<1>8. Moving' /\ Marked'
  BY <1>1, <1>2, <1>3, <1>4, WhileServing DEF IInv, Moving, InPlace, Marked
<1>9. Putting'
  BY <1>1, <1>2, <1>3, <1>4, WhileServing DEF IInv, Putting, Pending
<1>10. RowsFit'
  BY <1>1, <1>2, <1>3, <1>4, WhileServing DEF IInv, RowsFit, Owed
<1>11. Tidy'
  BY <1>1, <1>2, <1>3, <1>4, WhileServing DEF IInv, Tidy, Explained, Pending, Serving
<1>12. Protected'
  BY <1>1, <1>2, <1>3, <1>4, WhileServing DEF IInv, Protected, Owed, Safe, Undone, Pending
<1>13. JobFits' /\ SeenFits'
  BY <1>1 DEF IInv, JobFits, SeenFits
<1> QED
  BY <1>5, <1>6, <1>7, <1>8, <1>9, <1>10, <1>11, <1>12, <1>13 DEF IInv

\* Its row is there.
LEMMA StoreCommitKeeps ==
  ASSUME IInv, NEW u \in Uploads, StoreCommit(u)
  PROVE  IInv'
<1>1. /\ uploads[u] # None /\ uploads[u].pc = "moved"
      /\ db' = [db EXCEPT !.rows[uploads[u].area] = @ \cup {u}]
      /\ lock' = None
      /\ uploads' = [uploads EXCEPT ![u].pc = "stored"]
      /\ UNCHANGED <<target, old, staged, journals, commit, server, job, cleanups,
                     restores, mishaps, stuck, swept>>
  BY DEF StoreCommit, disk, others, bounds, history
<1>2. lock = u /\ uploads[u].area \in Areas /\ u \in Names /\ u \notin Backup /\ job.pc # "removing"
  BY <1>1, Shapes, RestoreAssumption, NoneAssumption DEF IInv, Locked, Names
<1>3. /\ db' \in Databases /\ db'.retained = db.retained /\ db'.generation = db.generation
      /\ db'.markers = db.markers
      /\ \A b \in Areas : db'.rows[b] = IF b = uploads[u].area THEN db.rows[b] \cup {u} ELSE db.rows[b]
  BY <1>1, <1>2 DEF IInv, Typed, Databases
<1>4. /\ uploads' \in [Uploads -> Uploaded \cup {None}]
      /\ uploads'[u] # None /\ uploads'[u].pc = "stored"
      /\ \A w \in Uploads : w # u => uploads'[w] = uploads[w]
  BY <1>1, UploadGoesOn
<1>5. \A w \in Uploads : w # u => uploads[w] = None \/ uploads[w].pc # "moved"
  BY <1>1, <1>2 DEF IInv, Locked
<1>6. Typed'
  BY <1>1, <1>2, <1>3, <1>4, <1>5 DEF IInv, Typed
<1>7. Locked'
  BY <1>1, <1>2, <1>3, <1>4, <1>5, NoneAssumption DEF IInv, Locked
<1>8. Numbered'
  BY <1>1, <1>2, <1>3, <1>4, <1>5 DEF IInv, Numbered, Unbegun
<1>9. JobFits'
  BY <1>1, <1>2, <1>3, <1>4, <1>5 DEF IInv, JobFits
<1>10. Moving' /\ Marked'
  BY <1>1, <1>2, <1>3, <1>4, <1>5 DEF IInv, Moving, InPlace, Marked
<1>11. RowsFit'
  BY <1>1, <1>2, <1>3, <1>4, <1>5 DEF IInv, RowsFit, Owed
<1>12. SeenFits'
  BY <1>1, <1>2, <1>3, <1>4, <1>5, NoneAssumption DEF IInv, SeenFits, Locked
<1>13. Tidy'
  BY <1>1, <1>2, <1>3, <1>4, <1>5 DEF IInv, Tidy, Explained, Pending
<1>14. Protected'
  BY <1>1, <1>2, <1>3, <1>4, <1>5, RestoreAssumption DEF IInv, Protected, Owed, Safe, Undone,
     Pending, RowsFit
<1>15. Putting'
  BY <1>1 DEF IInv, Putting, Pending
<1> QED
  BY <1>6, <1>7, <1>8, <1>9, <1>10, <1>11, <1>12, <1>13, <1>14, <1>15 DEF IInv

\* The transaction of an upload fails.
LEMMA StoreFailsKeeps ==
  ASSUME IInv, NEW u \in Uploads, StoreFails(u)
  PROVE  IInv'
<1>1. /\ uploads[u] # None /\ uploads[u].pc = "moved"
      /\ \/ target' = [target EXCEPT !["icons"] = Without(@, u)]
         \/ target' = target
      /\ \/ uploads' = [uploads EXCEPT ![u].pc = "gone"]
         \/ uploads' = [uploads EXCEPT ![u].pc = "failed"]
      /\ lock' = None
      /\ UNCHANGED <<old, staged, journals, db, commit, server, job, cleanups, restores,
                     mishaps, stuck, swept>>
  BY DEF StoreFails, disk, others, bounds, history
<1>2. lock = u /\ \A a \in Areas : u \notin Owed(a)
  BY <1>1 DEF IInv, Locked, RowsFit
<1>3. /\ target' \in [Areas -> Directories]
      /\ \A b \in Areas : /\ target'[b] = None <=> target[b] = None
                          /\ Files(target[b]) \ {u} \subseteq Files(target'[b])
                          /\ Files(target'[b]) \subseteq Files(target[b])
                          /\ Generation(target'[b]) = Generation(target[b])
  BY <1>1, Shapes, WithoutIs DEF IInv, Typed
<1>4. \E pc \in {"gone", "failed"} : uploads' = [uploads EXCEPT ![u].pc = pc]
  BY <1>1
<1>5. /\ uploads' \in [Uploads -> Uploaded \cup {None}]
      /\ uploads'[u] # None /\ uploads'[u].pc \in {"gone", "failed"}
      /\ \A w \in Uploads : w # u => uploads'[w] = uploads[w]
  <2>1. PICK pc \in {"gone", "failed"} : uploads' = [uploads EXCEPT ![u].pc = pc]
    BY <1>4
  <2>2. uploads[u] # None /\ pc \in {"moved", "stored", "failed", "gone"}
    BY <1>1
  <2> QED
    BY <2>1, <2>2, UploadGoesOn
<1>6. /\ job.pc \notin {"move", "commit", "removing", "emptied"} /\ commit = None
      /\ \A w \in Uploads : w # u => uploads[w] = None \/ uploads[w].pc # "moved"
  BY <1>1, <1>2, NoneAssumption DEF IInv, Locked
<1>7. Typed'
  BY <1>1, <1>2, <1>3, <1>4, <1>5, <1>6 DEF IInv, Typed
<1>8. Locked'
  BY <1>1, <1>2, <1>3, <1>4, <1>5, <1>6, NoneAssumption, WhileServing DEF IInv, Locked, Serving
<1>9. Numbered'
  BY <1>1, <1>2, <1>3, <1>4, <1>5, <1>6 DEF IInv, Numbered, Unbegun
<1>10. Moving' /\ Marked'
  BY <1>1, <1>2, <1>3, <1>4, <1>5, <1>6 DEF IInv, Moving, InPlace, Marked
<1>11. Putting'
  BY <1>1, <1>2, <1>3, <1>4, <1>5, <1>6 DEF IInv, Putting, Pending
<1>12. RowsFit'
  BY <1>1, <1>2, <1>3, <1>4, <1>5, <1>6 DEF IInv, RowsFit, Owed
<1>13. Tidy'
  BY <1>1, <1>2, <1>3, <1>4, <1>5, <1>6 DEF IInv, Tidy, Explained, Pending
<1>14. Protected'
  BY <1>1, <1>2, <1>3, <1>4, <1>5, <1>6 DEF IInv, Protected, Owed, Safe, Undone, Pending
<1>15. JobFits' /\ SeenFits'
  BY <1>1 DEF IInv, JobFits, SeenFits
<1> QED
  BY <1>7, <1>8, <1>9, <1>10, <1>11, <1>12, <1>13, <1>14, <1>15 DEF IInv

\* The file of a failed upload is removed.
LEMMA StoreUndoKeeps ==
  ASSUME IInv, NEW u \in Uploads, StoreUndo(u)
  PROVE  IInv'
<1>1. /\ Serving /\ uploads[u] # None /\ uploads[u].pc = "failed"
      /\ \/ target' = [target EXCEPT ![uploads[u].area] = Without(@, u)]
         \/ target' = target
      /\ uploads' = [uploads EXCEPT ![u].pc = "gone"]
      /\ UNCHANGED <<old, staged, journals, db, lock, commit, server, job, cleanups,
                     restores, mishaps, stuck, swept>>
  BY DEF StoreUndo, disk, others, bounds, history
<1>2. \A a \in Areas : u \notin Owed(a)
  BY <1>1 DEF IInv, RowsFit
<1>3. /\ target' \in [Areas -> Directories]
      /\ \A b \in Areas : /\ target'[b] = None <=> target[b] = None
                          /\ Files(target[b]) \ {u} \subseteq Files(target'[b])
                          /\ Generation(target'[b]) = Generation(target[b])
  BY <1>1, Shapes, WithoutIs DEF IInv, Typed
<1>4. /\ uploads' \in [Uploads -> Uploaded \cup {None}]
      /\ uploads'[u] # None /\ uploads'[u].pc = "gone"
      /\ \A w \in Uploads : w # u => uploads'[w] = uploads[w]
  BY <1>1, UploadGoesOn
<1>5. Typed'
  BY <1>1, <1>2, <1>3, <1>4 DEF IInv, Typed
<1>6. Locked'
  BY <1>1, <1>2, <1>3, <1>4, WhileServing DEF IInv, Locked
<1>7. Numbered'
  BY <1>1, <1>2, <1>3, <1>4 DEF IInv, Numbered, Unbegun
<1>8. Moving' /\ Marked'
  BY <1>1, <1>2, <1>3, <1>4, WhileServing DEF IInv, Moving, InPlace, Marked
<1>9. Putting'
  BY <1>1, <1>2, <1>3, <1>4, WhileServing DEF IInv, Putting, Pending
<1>10. RowsFit'
  BY <1>1, <1>2, <1>3, <1>4, WhileServing DEF IInv, RowsFit, Owed
<1>11. Tidy'
  BY <1>1, <1>2, <1>3, <1>4, WhileServing DEF IInv, Tidy, Explained, Pending
<1>12. Protected'
  BY <1>1, <1>2, <1>3, <1>4, WhileServing DEF IInv, Protected, Owed, Safe, Undone, Pending
<1>13. JobFits' /\ SeenFits'
  BY <1>1 DEF IInv, JobFits, SeenFits
<1> QED
  BY <1>5, <1>6, <1>7, <1>8, <1>9, <1>10, <1>11, <1>12, <1>13 DEF IInv

\* A block goes with the row of its file.
LEMMA DeleteKeeps ==
  ASSUME IInv, NEW n \in Names, Delete(n)
  PROVE  IInv'
<1>1. /\ Serving /\ n \in db.rows["attachments"]
      /\ db' = [db EXCEPT !.rows["attachments"] = @ \ {n}]
      /\ cleanups' = cleanups \cup {[name |-> n, generation |-> db.generation]}
      /\ UNCHANGED <<target, old, staged, journals, lock, commit, server, job, uploads,
                     restores, mishaps, stuck, swept>>
  BY DEF Delete, disk, others, bounds, history
<1>2. /\ db' \in Databases /\ db'.retained = db.retained /\ db'.generation = db.generation
      /\ db'.markers = db.markers /\ \A b \in Areas : db'.rows[b] \subseteq db.rows[b]
  BY <1>1 DEF IInv, Typed, Databases, Areas
<1>3. Typed'
  BY <1>1, <1>2, Shapes DEF IInv, Typed
<1>4. Numbered'
  BY <1>1, <1>2 DEF IInv, Numbered, Unbegun
<1>5. JobFits'
  BY <1>1, <1>2 DEF IInv, JobFits
<1>6. Moving' /\ Marked'
  BY <1>1, <1>2 DEF IInv, Moving, InPlace, Marked
<1>7. RowsFit'
  BY <1>1, <1>2, Shapes DEF IInv, RowsFit, Owed, Areas
<1>8. SeenFits'
  BY <1>1, <1>2, WhileServing DEF IInv, SeenFits
<1>9. Tidy'
  BY <1>1, <1>2 DEF IInv, Tidy, Explained, Pending
<1>10. Protected'
  BY <1>1, <1>2 DEF IInv, Protected, Owed, Safe, Undone, Pending
<1>11. Locked' /\ Putting'
  BY <1>1 DEF IInv, Locked, Putting, Pending
<1> QED
  BY <1>3, <1>4, <1>5, <1>6, <1>7, <1>8, <1>9, <1>10, <1>11 DEF IInv

\* The file of a deleted block is removed.
LEMMA RemoveDeletedKeeps ==
  ASSUME IInv, NEW c \in cleanups, RemoveDeleted(c)
  PROVE  IInv'
<1>1. /\ Serving /\ c \in cleanups
      /\ \/ /\ c.generation = db.generation /\ c.name \notin db.rows["attachments"]
            /\ target' = [target EXCEPT !["attachments"] = Without(@, c.name)]
         \/ target' = target
      /\ cleanups' = cleanups \ {c}
      /\ UNCHANGED <<old, staged, journals, db, lock, commit, server, job, uploads,
                     restores, mishaps, stuck, swept>>
  BY DEF RemoveDeleted, disk, others, bounds, history, SameGeneration
<1>2. /\ target' \in [Areas -> Directories]
      /\ \A b \in Areas : /\ target'[b] = None <=> target[b] = None
                          /\ Generation(target'[b]) = Generation(target[b])
  BY <1>1, Shapes, WithoutIs DEF IInv, Typed, Areas
<1>3. \A b \in Areas : \A n \in Owed(b) : n \in Files(target[b]) => n \in Files(target'[b])
  <2>1. \A b \in Areas : Owed(b) \subseteq db.rows[b] \cup db.retained[b]
    BY DEF Owed
  <2> QED
    BY <1>1, <2>1, Shapes, WithoutIs DEF IInv, Typed, RowsFit
<1>4. Typed'
  BY <1>1, <1>2, <1>3 DEF IInv, Typed
<1>5. Numbered'
  BY <1>1, <1>2, <1>3 DEF IInv, Numbered, Unbegun
<1>6. Moving' /\ Marked'
  BY <1>1, <1>2, <1>3, WhileServing DEF IInv, Moving, InPlace, Marked
<1>7. Putting'
  BY <1>1, <1>2, <1>3, WhileServing DEF IInv, Putting, Pending
<1>8. RowsFit'
  BY <1>1, <1>2, <1>3, WhileServing DEF IInv, RowsFit, Owed
<1>9. Tidy'
  BY <1>1, <1>2, <1>3, WhileServing DEF IInv, Tidy, Explained, Pending
<1>10. Protected'
  BY <1>1, <1>2, <1>3, WhileServing DEF IInv, Protected, Owed, Safe, Undone, Pending
<1>11. Locked' /\ JobFits' /\ SeenFits'
  BY <1>1 DEF IInv, Locked, JobFits, SeenFits
<1> QED
  BY <1>4, <1>5, <1>6, <1>7, <1>8, <1>9, <1>10, <1>11 DEF IInv

\* The library drops rows.
LEMMA ListIconsKeeps ==
  ASSUME IInv, ListIcons
  PROVE  IInv'
<1>1. /\ Serving
      /\ db' = [db EXCEPT !.rows["icons"] = @ \cap Files(target["icons"])]
      /\ UNCHANGED <<target, old, staged, journals, lock, commit, server, job, uploads,
                     cleanups, restores, mishaps, stuck, swept>>
  BY DEF ListIcons, disk, others, bounds, history
<1>2. /\ db' \in Databases /\ db'.retained = db.retained /\ db'.generation = db.generation
      /\ db'.markers = db.markers /\ \A b \in Areas : db'.rows[b] \subseteq db.rows[b]
  BY <1>1 DEF IInv, Typed, Databases, Areas
<1>3. Typed'
  BY <1>1, <1>2 DEF IInv, Typed
<1>4. Numbered'
  BY <1>1, <1>2 DEF IInv, Numbered, Unbegun
<1>5. JobFits'
  BY <1>1, <1>2 DEF IInv, JobFits
<1>6. Moving' /\ Marked'
  BY <1>1, <1>2 DEF IInv, Moving, InPlace, Marked
<1>7. RowsFit'
  BY <1>1, <1>2 DEF IInv, RowsFit, Owed
<1>8. SeenFits'
  BY <1>1, <1>2, WhileServing DEF IInv, SeenFits
<1>9. Tidy'
  BY <1>1, <1>2 DEF IInv, Tidy, Explained, Pending
<1>10. Protected'
  BY <1>1, <1>2 DEF IInv, Protected, Owed, Safe, Undone, Pending
<1>11. Locked' /\ Putting'
  BY <1>1 DEF IInv, Locked, Putting, Pending
<1> QED
  BY <1>3, <1>4, <1>5, <1>6, <1>7, <1>8, <1>9, <1>10, <1>11 DEF IInv

\* The cleanup takes something from an operation root it found without journal.
LEMMA SweepEntryKeeps ==
  ASSUME IInv, NEW a \in Areas, SweepEntry(a)
  PROVE  IInv'
<1> DEFINE was == staged[job.op][a]
           is  == staged'[job.op][a]
<1>1. /\ job.pc \in {"staged", "move"} /\ was # None
      /\ UNCHANGED <<target, old, journals, db, lock, commit, server, job, uploads,
                     cleanups, restores, stuck>>
  BY DEF SweepEntry, others, history
<1>2. job.op \in Restores /\ job.op \in Nat /\ job.op <= restores
  BY <1>1, JobsRestore
<1>3. was \in Directories /\ Brought(was, job.op, swept[job.op][a]) /\ Files(was) \subseteq Names
  BY <1>1, <1>2, Shapes, DirectoryParts DEF IInv, Moving
<1>4. commit # job.op
  BY <1>1, <1>2, NoneAssumption DEF IInv, Numbered, Unbegun, Locked
<1>5. /\ is \in Directories /\ staged' = [staged EXCEPT ![job.op][a] = is]
      /\ \A q \in Restores, b \in Areas : q # job.op \/ b # a => staged'[q][b] = staged[q][b]
      /\ is # None => Brought(is, job.op, swept'[job.op][a])
      /\ swept' \in [Restores -> [Areas -> SUBSET Names]]
      /\ \A q \in Restores, b \in Areas :
            swept[q][b] \subseteq swept'[q][b] /\ (q # job.op \/ b # a => swept'[q][b] = swept[q][b])
      /\ mishaps' = {} => mishaps = {} /\ (is # None => Generation(is) = Generation(was))
  <2>1. CASE \E n \in was.files :
               /\ staged' = [staged EXCEPT ![job.op][a].files = @ \ {n}]
               /\ swept' = [swept EXCEPT ![job.op][a] = @ \cup {n}]
               /\ UNCHANGED mishaps
    <3>1. PICK n \in was.files :
               /\ staged' = [staged EXCEPT ![job.op][a].files = @ \ {n}]
               /\ swept' = [swept EXCEPT ![job.op][a] = @ \cup {n}]
               /\ UNCHANGED mishaps
      BY <2>1
    <3>2. was.files = Files(was) /\ n \in Names /\ Generation(was) \in Restores \cup {None}
      BY <1>1, <1>3, DirectoryParts
    <3>3. [was EXCEPT !.files = @ \ {n}] = Directory(Files(was) \ {n}, Generation(was))
      BY <1>1, <1>3, <3>2, DirectoryChanged
    <3>4. is = Directory(Files(was) \ {n}, Generation(was))
      BY <1>2, <3>1, <3>3 DEF IInv, Typed
    <3>5. /\ is \in Directories /\ is # None
          /\ Files(is) = Files(was) \ {n} /\ Generation(is) = Generation(was)
      BY <1>3, <3>2, <3>4, DirectoryMade
    <3>6. swept'[job.op][a] = swept[job.op][a] \cup {n}
      BY <1>2, <3>1 DEF IInv, Typed
    <3>7. Brought(is, job.op, swept'[job.op][a])
      BY <1>3, <3>5, <3>6 DEF Brought
    <3>8. /\ staged' = [staged EXCEPT ![job.op][a] = is]
          /\ \A q \in Restores, b \in Areas : q # job.op \/ b # a => staged'[q][b] = staged[q][b]
      BY <1>2, <3>1, <3>3, <3>4 DEF IInv, Typed
    <3>9. /\ swept' \in [Restores -> [Areas -> SUBSET Names]]
          /\ \A q \in Restores, b \in Areas : swept[q][b] \subseteq swept'[q][b]
                /\ (q # job.op \/ b # a => swept'[q][b] = swept[q][b])
      BY <1>2, <3>1, <3>2 DEF IInv, Typed
    <3> QED
      BY <3>1, <3>5, <3>7, <3>8, <3>9
  <2>2. CASE /\ staged' = [staged EXCEPT ![job.op][a].generation = None]
             /\ mishaps' = mishaps \cup {"unmarked"}
             /\ UNCHANGED swept
    <3>1. is = Directory(Files(was), None)
      BY <1>1, <1>2, <1>3, <2>2, DirectoryChanged DEF IInv, Typed
    <3>2. is \in Directories /\ is # None /\ Files(is) = Files(was) /\ Generation(is) = None
      BY <1>3, <3>1, DirectoryMade
    <3>3. Brought(is, job.op, swept'[job.op][a])
      BY <1>3, <2>2, <3>2 DEF Brought
    <3>4. /\ staged' = [staged EXCEPT ![job.op][a] = is]
          /\ \A q \in Restores, b \in Areas : q # job.op \/ b # a => staged'[q][b] = staged[q][b]
      BY <1>1, <1>2, <1>3, <2>2, <3>1, DirectoryChanged DEF IInv, Typed
    <3>5. mishaps' # {}
      BY <2>2
    <3> QED
      BY <2>2, <3>2, <3>3, <3>4, <3>5 DEF IInv, Typed
  <2>3. CASE /\ staged' = [staged EXCEPT ![job.op][a] = None]
             /\ UNCHANGED <<mishaps, swept>>
    <3>1. is = None /\ is \in Directories
      BY <1>2, <2>3 DEF IInv, Typed, Directories
    <3>2. /\ staged' = [staged EXCEPT ![job.op][a] = is]
          /\ \A q \in Restores, b \in Areas : q # job.op \/ b # a => staged'[q][b] = staged[q][b]
      BY <1>2, <2>3, <3>1 DEF IInv, Typed
    <3> QED
      BY <2>3, <3>1, <3>2 DEF IInv, Typed
  <2> QED
    BY <2>1, <2>2, <2>3 DEF SweepEntry
<1> HIDE DEF is, was
<1>6. staged'[job.op][a] = is /\ staged[job.op][a] = was
  BY DEF is, was
<1>7. Typed'
  BY <1>1, <1>2, <1>5 DEF IInv, Typed
<1>8. \A d, op : \A b \in Areas : op \in Restores /\ Brought(d, op, swept[op][b]) => Brought(d, op, swept'[op][b])
  BY <1>5 DEF Brought
<1>9. Moving'
  <2>1. \A op \in Restores, b \in Areas :
            staged'[op][b] # None => Brought(staged'[op][b], op, swept'[op][b])
    BY <1>5, <1>6 DEF IInv, Moving
  <2>2. \A op \in Restores : InPlace(op) => InPlace(op)'
    BY <1>1, <1>8 DEF InPlace
  <2>3. commit # None => commit \in Restores
    BY DEF IInv, Typed
  <2>4. job.pc = "move" => \A b \in Areas :
            IF b = "attachments" /\ job.area = "icons"
            THEN Brought(target[b], job.op, swept'[job.op][b])
            ELSE target[b] # None => b \in journals[job.op] /\ Generation(target[b]) # job.op
    BY <1>2, <1>8 DEF IInv, Moving
  <2> QED
    BY <1>1, <1>2, <2>1, <2>2, <2>3, <2>4 DEF IInv, Moving
<1>10. Marked'
  BY <1>1, <1>2, <1>5, <1>6 DEF IInv, Marked
<1>11. Tidy'
  BY <1>1, <1>5 DEF IInv, Tidy, Explained, Pending
<1>12. Locked' /\ Numbered' /\ JobFits' /\ Putting' /\ RowsFit' /\ SeenFits' /\ Protected'
  BY <1>1 DEF IInv, Locked, Numbered, Unbegun, JobFits, Putting, Pending, RowsFit, Owed,
     SeenFits, Protected, Safe, Undone
<1> QED
  BY <1>7, <1>9, <1>10, <1>11, <1>12 DEF IInv

-----------------------------------------------------------------------------
(***************************************************************************)
(* The theorems                                                            *)
(***************************************************************************)

\* It starts so.
LEMMA InitSound == Init => IInv
<1> SUFFICES ASSUME Init
             PROVE  IInv
  OBVIOUS
<1>1. PICK had \in Beginnings :
        /\ target = [a \in Areas |-> IF a \in had THEN Directory(Previous, None) ELSE None]
        /\ db = [rows |-> [a \in Areas |-> IF a \in had THEN Previous ELSE {}],
                 retained |-> [a \in Areas |-> {}], lacking |-> [a \in Areas |-> {}],
                 generation |-> 1, markers |-> {}]
  BY DEF Init
<1>2. /\ \A op \in Restores, a \in Areas : old[op][a] = None /\ staged[op][a] = None
      /\ \A op \in Restores : journals[op] = None
      /\ lock = None /\ commit = None /\ server = "up" /\ job = Idle
      /\ \A u \in Uploads : uploads[u] = None
      /\ cleanups = {} /\ restores = 0 /\ mishaps = {} /\ stuck = {}
  BY DEF Init
<1>3. /\ job \in Jobs /\ job.pc = "idle" /\ job.op = 0 /\ Pending = {} /\ Undone = {}
      /\ Files(None) = {} /\ Generation(None) = None /\ None \notin Restores
  BY <1>2, IdleIs, NoneAssumption DEF Pending, Undone, Files, Generation
<1>4. /\ Directory(Previous, None) \in Directories /\ None \in Directories
      /\ Files(Directory(Previous, None)) = Previous /\ Generation(Directory(Previous, None)) = None
  BY DirectoryMade DEF Names, Directories
<1>5. /\ db \in Databases /\ db.markers = {} /\ db.generation = 1
      /\ \A a \in Areas : db.rows[a] = (IF a \in had THEN Previous ELSE {}) /\ db.retained[a] = {}
      /\ \A a \in Areas : db.lacking[a] = {}
  BY <1>1 DEF Databases, Names
<1>6. \A a \in Areas : /\ Generation(target[a]) = None
                       /\ Files(target[a]) = Owed(a) /\ Owed(a) \subseteq Previous
  BY <1>1, <1>3, <1>4, <1>5 DEF Owed
<1>7. Typed
  <2>1. target \in [Areas -> Directories]
    BY <1>1, <1>4
  <2>2. old \in [Restores -> [Areas -> Directories]] /\ staged \in [Restores -> [Areas -> Directories]]
    BY <1>4 DEF Init
  <2>3. journals \in [Restores -> (SUBSET Areas) \cup {None}] /\ uploads \in [Uploads -> Uploaded \cup {None}]
        /\ swept \in [Restores -> [Areas -> SUBSET Names]]
    BY DEF Init
  <2> QED
    BY <1>2, <1>3, <1>5, <2>1, <2>2, <2>3, RestoreAssumption DEF Typed
<1>8. Locked
  BY <1>2, <1>3, NoneAssumption DEF Locked
<1>9. Numbered
  BY <1>2, <1>3, <1>5, <1>6 DEF Numbered, Unbegun
<1>10. JobFits /\ SeenFits /\ Tidy
  BY <1>2, <1>3 DEF JobFits, SeenFits, Tidy
<1>11. Moving /\ Marked /\ Putting
  BY <1>2, <1>3 DEF Moving, Marked, Putting
<1>12. RowsFit
  BY <1>2, <1>3, <1>5, <1>6, RestoreAssumption DEF RowsFit
<1>13. Protected
  BY <1>3, <1>6 DEF Protected, Safe
<1> QED
  BY <1>7, <1>8, <1>9, <1>10, <1>11, <1>12, <1>13 DEF IInv

\* Nothing the invariant speaks of changes in a step of something else.
LEMMA StutterKeeps ==
  ASSUME IInv, UNCHANGED vars
  PROVE  IInv'
<1>1. UNCHANGED <<target, old, staged, journals, db, lock, commit, server, job, uploads, cleanups,
                  restores, mishaps, stuck, swept>>
  BY DEF vars, disk, others, bounds, history
<1>2. Typed' /\ Locked' /\ Numbered' /\ JobFits'
  BY <1>1 DEF IInv, Typed, Locked, Numbered, Unbegun, JobFits
<1>3. Moving' /\ Marked' /\ Putting' /\ RowsFit' /\ SeenFits'
  BY <1>1 DEF IInv, Moving, InPlace, Marked, Putting, Pending, RowsFit, Owed, SeenFits
<1>4. Tidy' /\ Protected'
  BY <1>1 DEF IInv, Tidy, Explained, Protected, Owed, Safe, Undone, Pending
<1> QED
  BY <1>2, <1>3, <1>4 DEF IInv

\* Every step keeps it.
LEMMA StepSound == IInv /\ [Next]_vars => IInv'
<1> SUFFICES ASSUME IInv, [Next]_vars
             PROVE  IInv'
  OBVIOUS
<1>1. CASE UNCHANGED vars
  BY <1>1, StutterKeeps
<1>2. CASE Stage \/ Restore
  BY <1>2, StageKeeps, BeginKeeps, RefuseKeeps, MoveAsideKeeps, MoveInKeeps, SendCommitKeeps,
     AbortKeeps, AnsweredKeeps, LoseAnswerKeeps, VerifyKeeps, OutcomeUnknownKeeps DEF Restore
<1>3. CASE Undo
  BY <1>3, KeepLinkKeeps, KeepUnlinkKeeps, RemoveAddedKeeps, RemoveBeginKeeps, RemoveEntryKeeps,
     RemoveEndKeeps, MoveBackKeeps, KeepReplacedKeeps, UnmarkKeeps, RemoveEmptyKeeps,
     KeepAddedKeeps DEF Undo
<1>4. CASE Recover
  BY <1>3, <1>4, RecoverBeginKeeps, DropPreviousKeeps, GiveUpKeeps, RemoveRootKeeps,
     RemoveJournalKeeps, RemoveMarkersKeeps, ForgetKeeps DEF Recover
<1>5. CASE RecoveryFails \/ Start \/ Crash \/ Database
  BY <1>5, RecoveryFailsKeeps, ListenKeeps, RecoverAtStartKeeps, CrashKeeps, ApplyCommitKeeps,
     DropCommitKeeps DEF Start, Database
<1>6. CASE \E u \in Uploads : (\E a \in Areas : Store(u, a)) \/ Finish(u) \/ StoreUndo(u)
  BY <1>6, StoreKeeps, StoreCommitKeeps, StoreFailsKeeps, StoreUndoKeeps DEF Finish
<1>7. CASE (\E n \in Names : Delete(n)) \/ (\E c \in cleanups : RemoveDeleted(c)) \/ ListIcons
          \/ (\E a \in Areas : SweepEntry(a))
  BY <1>7, DeleteKeeps, RemoveDeletedKeeps, ListIconsKeeps, SweepEntryKeeps
<1> QED
  BY <1>1, <1>2, <1>4, <1>5, <1>6, <1>7 DEF Next

\* The invariant holds in every state a restore, a recovery, uploads, crashes
\* and failed calls lead to.
THEOREM Sound == Spec => []IInv
  BY InitSound, StepSound, PTL DEF Spec

\* One job at a time, under the lock it needs, and every variable of its type.
THEOREM RestoreTyped == Spec => []TypeOK
<1>1. IInv => TypeOK
  <2> SUFFICES ASSUME IInv
               PROVE  TypeOK
    OBVIOUS
  <2>1. /\ db.rows \in [Areas -> SUBSET Names] /\ db.retained \in [Areas -> SUBSET Names]
        /\ db.lacking \in [Areas -> SUBSET Names]
        /\ db.markers \subseteq Restores /\ job.pc \in Pcs /\ job.op \in 0 .. MaxRestores
        /\ job.area \in Areas
    BY DEF IInv, Typed, Databases, Jobs
  <2>2. db.generation \in 1 .. MaxRestores + 1
    BY RestoreAssumption DEF IInv, Typed, Numbered
  <2> QED
    BY <2>1, <2>2 DEF IInv, Typed, Locked, TypeOK
<1> QED
  BY <1>1, Sound, PTL

\* Whatever fails in between, every file the account is owed is in its live
\* directory or in one that a journal on disk remembers.
THEOREM FilesKept == Spec => []NothingIsLost
<1>1. IInv => NothingIsLost
  BY DEF IInv, Protected, Safe, NothingIsLost, Kept, Undone
<1> QED
  BY <1>1, Sound, PTL

\* With no journal left, rows and live directories agree.
THEOREM WorkspaceSettled == Spec => []SettledWorkspace
<1>1. IInv => SettledWorkspace
  BY DEF IInv, Protected, Safe, SettledWorkspace, Undone
<1> QED
  BY <1>1, Sound, PTL

\* Recovery gives up only after a directory was torn, lost its marker to the
\* cleanup of temporary files, was made anew, or was superseded.
THEOREM HelpIsRare == Spec => []HelpOnlyAfterMishaps
<1>1. IInv => HelpOnlyAfterMishaps
  BY DEF IInv, Tidy, HelpOnlyAfterMishaps
<1> QED
  BY <1>1, Sound, PTL

\* A COMMIT begins a generation, and nothing but the listing of the library
\* takes a row from it.
LEMMA DatabaseStep ==
  ASSUME IInv, [Next]_vars
  PROVE  \/ ApplyCommit
         \/ /\ db'.generation = db.generation
            /\ db.rows["icons"] \subseteq db'.rows["icons"] \/ ListIcons
<1>1. /\ db.rows \in [Areas -> SUBSET Names] /\ "icons" \in Areas /\ "attachments" \in Areas
      /\ db \in Databases
  BY DEF IInv, Typed, Databases, Areas
<1>2. CASE UNCHANGED db
  BY <1>2
<1>3. CASE Forget
  BY <1>1, <1>3 DEF Forget, Databases
<1>4. ASSUME NEW u \in Uploads, StoreCommit(u)
      PROVE  db'.generation = db.generation /\ db.rows["icons"] \subseteq db'.rows["icons"]
  BY <1>1, <1>4 DEF StoreCommit, Databases
<1>5. ASSUME NEW n \in Names, Delete(n)
      PROVE  db'.generation = db.generation /\ db.rows["icons"] \subseteq db'.rows["icons"]
  BY <1>1, <1>5 DEF Delete, Databases
<1>6. CASE ListIcons
  BY <1>1, <1>6 DEF ListIcons, Databases
<1>7. CASE Stage \/ Restore \/ RecoveryFails \/ Start \/ Crash \/ DropCommit
  BY <1>2, <1>7 DEF Stage, Restore, Begin, Refuse, MoveAside, MoveIn, SendCommit, Abort, Answered,
     LoseAnswer, Verify, OutcomeUnknown, RecoveryFails, Start, Listen, RecoverAtStart, Crash, DropCommit
<1>8. CASE Undo
  BY <1>2, <1>8 DEF Undo, KeepLink, KeepUnlink, RemoveAdded, RemoveBegin, RemoveEntry, RemoveEnd,
     MoveBack, KeepReplaced, Unmark, RemoveEmpty, KeepAdded
<1>9. CASE Recover
  BY <1>2, <1>3, <1>8, <1>9 DEF Recover, RecoverBegin, DropPrevious, GiveUp, RemoveRoot,
     RemoveJournal, RemoveMarkers
<1>10. CASE \E u \in Uploads : (\E a \in Areas : Store(u, a)) \/ Finish(u) \/ StoreUndo(u)
  BY <1>2, <1>4, <1>10 DEF Finish, Store, StoreFails, StoreUndo
<1>11. CASE (\E n \in Names : Delete(n)) \/ (\E c \in cleanups : RemoveDeleted(c))
           \/ (\E a \in Areas : SweepEntry(a))
  BY <1>2, <1>5, <1>11 DEF RemoveDeleted, SweepEntry
<1> QED
  BY <1>2, <1>6, <1>7, <1>9, <1>10, <1>11 DEF Next, Database, vars

\* A restore replaces the rows and the generation its user was shown.
THEOREM OnlySeenReplaced == Spec => ReplacesOnlySeen
<1>1. IInv /\ [Next]_vars =>
        [db'.generation # db.generation /\ job.op = commit /\ job.seen # None
           => job.seen[1] = db.rows /\ job.seen[2] = db.generation]_vars
  <2> SUFFICES ASSUME IInv, [Next]_vars, db'.generation # db.generation,
                      job.op = commit, job.seen # None
               PROVE  job.seen[1] = db.rows /\ job.seen[2] = db.generation
    OBVIOUS
  <2>1. commit # None
    BY DatabaseStep DEF ApplyCommit
  <2> QED
    BY <2>1 DEF IInv, SeenFits
<1> QED
  BY <1>1, Sound, PTL DEF Spec, ReplacesOnlySeen

\* With no journal left, a row of the icon library goes only with a restore,
\* unless the cleanup had taken its file before the restore put it in place.
THEOREM LibraryStays == Spec => LibraryKept
<1>1. IInv /\ [Next]_vars =>
        [Pending = {} /\ db'.generation = db.generation
           => db.rows["icons"] \ db.lacking["icons"] \subseteq db'.rows["icons"]]_vars
  <2> SUFFICES ASSUME IInv, [Next]_vars, Pending = {}, db'.generation = db.generation
               PROVE  db.rows["icons"] \ db.lacking["icons"] \subseteq db'.rows["icons"]
    OBVIOUS
  <2>1. ~ApplyCommit
    BY Shapes DEF ApplyCommit, IInv, Typed, Moving, Pending
  <2>2. CASE ListIcons
    <3>1. db.rows["icons"] \ db.lacking["icons"] \subseteq Files(target["icons"])
      BY DEF IInv, Protected, Safe, Undone, Owed, Areas
    <3>2. db \in Databases /\ "icons" \in Areas
      BY DEF IInv, Typed, Areas
    <3> QED
      BY <2>2, <3>1, <3>2 DEF ListIcons, Databases
  <2> QED
    BY <2>1, <2>2, DatabaseStep
<1> QED
  BY <1>1, Sound, PTL DEF Spec, LibraryKept
=============================================================================

------------------------------ MODULE Backups -------------------------------
(***************************************************************************)
(* The copies of the database: _auto_backup_task in backend/main.py, the   *)
(* administrators' backups in backend/routers/admin_system.py and the      *)
(* copying in backend/helpers.py.  A copy has the state of one moment; its *)
(* file is there from the start of the copying and incomplete until its    *)
(* end, also when the copying fails or the process stops.  After each      *)
(* night's copy, and its copying offsite, only the newest files stay: by   *)
(* name, whether complete or not.  The files offsite are left out: nothing  *)
(* in the code reads them.                                                 *)
(*                                                                         *)
(* Files are named by the second; here by a number, no two alike.          *)
(***************************************************************************)
EXTENDS Naturals, FiniteSets

CONSTANTS
    Keep,       \* the files that stay (7)
    Incomplete, \* what a file has while it is copied, and after a failure
    None,       \* nothing under way
    MaxFiles,   \* bound: files that are ever made
    MaxCommits  \* bound: changes of the database

BackupsAssumption ==
    Keep \in Nat \ {0} /\ MaxFiles \in Nat /\ MaxCommits \in Nat

VARIABLES
    db,      \* the changes that were committed so far
    files,   \* [number -> the changes the file has, or Incomplete]: BACKUP_DIR
    made,    \* the number of the last file
    night,   \* the task: its file, the changes it copies, how far it is; or None
    create,  \* the administrator's file that is copied and its changes, or None
    created, \* the administrators' files since the night's copy began
    stored,  \* the changes the last night's copy had when it was complete
    removed, \* an administrator deleted a file
    flooded  \* since then a night kept nothing but administrators' failures

vars == <<db, files, made, night, create, created, stored, removed, flooded>>

Numbers == 1..MaxFiles

Init ==
    /\ db = 0 /\ stored = 0
    /\ files = [n \in {} |-> 0]
    /\ made = 0 /\ created = 0
    /\ night = None /\ create = None
    /\ removed = FALSE /\ flooded = FALSE

\* f with file n as v, and f without the files S.
With(f, n, v) == [k \in DOMAIN f \cup {n} |-> IF k = n THEN v ELSE f[k]]
Without(f, S) == [k \in DOMAIN f \ S |-> f[k]]

\* Some request changes the database.
Commit ==
    /\ db < MaxCommits
    /\ db' = db + 1
    /\ UNCHANGED <<files, made, night, create, created, stored, removed, flooded>>

\* At midnight the task starts to copy; the copy has what is committed by now.
Midnight ==
    /\ night = None /\ made < MaxFiles
    /\ made' = made + 1
    /\ files' = With(files, made', Incomplete)
    /\ night' = [file |-> made', has |-> db, step |-> "copy"]
    /\ created' = 0
    /\ UNCHANGED <<db, create, stored, removed, flooded>>

\* The copy is complete.  A file that was deleted meanwhile stays deleted.
Copied(copy) ==
    IF copy.file \in DOMAIN files THEN With(files, copy.file, copy.has) ELSE files

NightCopied ==
    /\ night # None /\ night.step = "copy"
    /\ files' = Copied(night)
    /\ night' = [night EXCEPT !.step = "offsite"]
    /\ stored' = IF night.file \in DOMAIN files THEN night.has ELSE stored
    /\ flooded' = FALSE
    /\ UNCHANGED <<db, made, create, created, removed>>

\* Mutant: the files are counted after a failure, too.
NightFailsAndPrunes ==
    /\ night # None /\ night.step = "copy"
    /\ files' = Without(files,
           {n \in DOMAIN files : Cardinality({k \in DOMAIN files : k > n}) >= Keep})
    /\ night' = None
    /\ UNCHANGED <<db, made, create, created, stored, removed, flooded>>

\* A failure ends the night, and nothing is thrown away.
NightFails ==
    /\ night # None /\ night.step = "copy"
    /\ night' = None
    /\ UNCHANGED <<db, files, made, create, created, stored, removed, flooded>>

\* The copy offsite may fail, quietly: the night goes on.
Offsite ==
    /\ night # None /\ night.step = "offsite"
    /\ night' = [night EXCEPT !.step = "prune"]
    /\ UNCHANGED <<db, files, made, create, created, stored, removed, flooded>>

\* The files that are not among the newest.
SurplusNewest == \* mutant: the oldest stay
    {n \in DOMAIN files : Cardinality({k \in DOMAIN files : k < n}) >= Keep}
Surplus == {n \in DOMAIN files : Cardinality({k \in DOMAIN files : k > n}) >= Keep}

\* So many files of administrators are newer that the night's own goes, and
\* none that stays is complete.
Floods ==
    /\ created >= Keep
    /\ \A n \in DOMAIN files \ Surplus : n > night.file => files[n] = Incomplete

Prune ==
    /\ night # None /\ night.step = "prune"
    /\ files' = Without(files, Surplus)
    /\ night' = None
    /\ flooded' = Floods
    /\ UNCHANGED <<db, made, create, created, stored, removed>>

\* An administrator may make any number of files, also while a night's runs.
CreateBackup ==
    /\ create = None /\ made < MaxFiles
    /\ made' = made + 1
    /\ files' = With(files, made', Incomplete)
    /\ create' = [file |-> made', has |-> db]
    /\ created' = created + 1
    /\ UNCHANGED <<db, night, stored, removed, flooded>>

CreateCopied ==
    /\ create # None
    /\ files' = Copied(create)
    /\ create' = None
    /\ UNCHANGED <<db, made, night, created, stored, removed, flooded>>

CreateFails ==
    /\ create # None
    /\ create' = None
    /\ UNCHANGED <<db, files, made, night, created, stored, removed, flooded>>

\* An administrator deletes a file, one that is being copied included.
DeleteBackup(n) ==
    /\ n \in DOMAIN files
    /\ files' = Without(files, {n})
    /\ removed' = TRUE
    /\ UNCHANGED <<db, made, night, create, created, stored, flooded>>

Crash ==
    /\ night # None \/ create # None
    /\ night' = None /\ create' = None
    /\ UNCHANGED <<db, files, made, created, stored, removed, flooded>>

Next ==
    \/ Commit
    \/ Midnight
    \/ NightCopied
    \/ NightFails
    \/ Offsite
    \/ Prune
    \/ CreateBackup
    \/ CreateCopied
    \/ CreateFails
    \/ \E n \in Numbers : DeleteBackup(n)
    \/ Crash

Spec == Init /\ [][Next]_vars

Changes == 0..MaxCommits
TypeOK ==
    /\ db \in Changes /\ stored \in Changes
    /\ DOMAIN files \subseteq Numbers
    /\ \A n \in DOMAIN files : files[n] \in Changes \cup {Incomplete}
    /\ made \in 0..MaxFiles /\ created \in 0..made
    /\ night \in [file : Numbers, has : Changes, step : {"copy", "offsite", "prune"}] \cup {None}
    /\ create \in [file : Numbers, has : Changes] \cup {None}
    /\ removed \in BOOLEAN /\ flooded \in BOOLEAN

\* The last night's copy that was completed can be restored, or a later one:
\* nights that fail and leave incomplete files behind do not push it out, and
\* files of administrators only where Keep of them or more come between a
\* night's beginning and its counting, and none that stays is complete.
LastNightIsKept ==
    (stored > 0 /\ ~removed /\ ~flooded) =>
        \E n \in DOMAIN files : files[n] # Incomplete /\ files[n] >= stored

\* Each file of the list is complete.  Not so: the list, and the count of the
\* files that stay, take the incomplete ones for copies.
ListedAreComplete ==
    (night = None /\ create = None) => \A n \in DOMAIN files : files[n] # Incomplete
=============================================================================

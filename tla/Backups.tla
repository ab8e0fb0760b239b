-------------------------------- MODULE Backups --------------------------------
(***************************************************************************)
(* Scheduled and manual backups of the database: internal/modules/backup   *)
(* and platform/pgtools.                                                   *)
(*                                                                         *)
(* The worker dumps, seals and verifies, writes a file under another name, *)
(* renames it and deletes the oldest files; it may stop between any two of *)
(* these.  A manager exports the same kind of file and restores one.       *)
(*                                                                         *)
(* Abstractions: the database's content is the number of changes made to   *)
(* it, or Half while a restore has replaced only part of it; a file's    *)
(* name is the second in which it was made; sealing and hashing are one    *)
(* check that fails for a damaged file.                                    *)
(***************************************************************************)
EXTENDS Integers, Sequences, FiniteSets

CONSTANTS
    Keep,           \* BACKUP_RETENTION_COUNT
    LastSecond,     \* bound on the clock
    MaxChanges,     \* bound on the work done
    MaxTroubles     \* bound: stops, failures, and the clock set back

ASSUME BackupsAssumption ==
    /\ Keep \in Nat \ {0} /\ LastSecond \in Nat /\ MaxChanges \in Nat /\ MaxTroubles \in Nat

VARIABLES
    db,             \* the database
    second,         \* the clock
    due,            \* the ticker has fired
    kept,           \* files of the directory with a backup's name: name |-> content
    partials,       \* names whose .partial file was left behind
    backup,         \* what the worker's run is doing
    restore,        \* what a restore is doing
    recent,         \* history: names of the last Keep files the worker made, latest first
    setBack,        \* history: the clock was set back, a name made twice, or a file put there by hand
    halved,         \* history: a restore was cut short, or dumped in the middle of
    troubles

backupVars == <<db, second, due, kept, partials, backup, restore, recent, setBack, halved, troubles>>

Half == -1      \* a restore has replaced only part of the database
Cut == -2       \* a file that was written only in part
Content == {Half} \cup 0..MaxChanges
Resting == [at |-> "idle", name |-> 0, of |-> 0, doomed |-> {}]
Least(m, n) == IF m < n THEN m ELSE n
Newest(names, n) == {x \in names : Cardinality({y \in names : y > x}) < n}

BackupsTypeOK ==
    /\ db \in Content /\ second \in 0..LastSecond
    /\ DOMAIN kept \subseteq 0..LastSecond /\ partials \subseteq 0..LastSecond
    /\ backup.at \in {"idle", "verified", "written", "prune"}

BackupsInit ==
    /\ db = 0 /\ second = 0 /\ due = FALSE /\ kept = [n \in {} |-> 0] /\ partials = {}
    /\ backup = Resting /\ restore = Resting
    /\ recent = <<>> /\ setBack = FALSE /\ halved = FALSE /\ troubles = 0

Change ==
    /\ db # Half /\ db < MaxChanges /\ db' = db + 1
    /\ UNCHANGED <<second, due, kept, partials, backup, restore, recent, setBack, halved, troubles>>

TimePasses ==
    /\ second < LastSecond /\ second' = second + 1
    /\ due' = TRUE
    /\ UNCHANGED <<db, kept, partials, backup, restore, recent, setBack, halved, troubles>>

ClockSetBack ==
    /\ second > 0 /\ second' = second - 1
    /\ troubles < MaxTroubles /\ troubles' = troubles + 1
    /\ setBack' = TRUE
    /\ UNCHANGED <<db, due, kept, partials, backup, restore, recent, halved>>

-----------------------------------------------------------------------------
(* RunScheduled *)

\* buildBackup and Verify: a consistent dump, named after the second it was sealed in.
\* RunScheduleLoop takes one tick at a time, the first after a whole interval; a
\* second stands for an interval.
BuildBackup ==
    /\ backup = Resting /\ due
    /\ due' = FALSE
    /\ backup' = [Resting EXCEPT !.at = "verified", !.name = second, !.of = db]
    /\ halved' = (halved \/ db = Half)
    /\ UNCHANGED <<db, second, kept, partials, restore, recent, setBack, troubles>>

Entry(name, content) == [n \in DOMAIN kept \cup {name} |-> IF n = name THEN content ELSE kept[n]]

\* Variant: the file is written under its own name.
WriteInPlace ==
    /\ backup.at = "verified"
    /\ partials' = partials \cup {backup.name}
    /\ kept' = Entry(backup.name, Cut)
    /\ backup' = [backup EXCEPT !.at = "written"]
    /\ UNCHANGED <<db, second, due, restore, recent, setBack, halved, troubles>>

WritePartial ==
    /\ backup.at = "verified"
    /\ partials' = partials \cup {backup.name}
    /\ backup' = [backup EXCEPT !.at = "written"]
    /\ UNCHANGED <<db, second, due, kept, restore, recent, setBack, halved, troubles>>

\* The rename replaces a file of the same name.
FinishFile ==
    /\ backup.at = "written"
    /\ kept' = Entry(backup.name, backup.of)
    /\ partials' = partials \ {backup.name}
    /\ setBack' = (setBack \/ backup.name \in DOMAIN kept)
    /\ recent' = SubSeq(<<backup.name>> \o recent, 1, Least(Keep, Len(recent) + 1))
    /\ backup' = [backup EXCEPT !.at = "prune"]
    /\ UNCHANGED <<db, second, due, restore, halved, troubles>>

\* Variant: the newest files are the ones that are dropped.
ExcessNewest == DOMAIN kept \ {n \in DOMAIN kept : Cardinality({m \in DOMAIN kept : m < n}) < Keep}

\* The names read from the directory, but for the newest Keep of them.
Excess == DOMAIN kept \ Newest(DOMAIN kept, Keep)

ReadNames ==
    /\ backup.at = "prune" /\ backup.doomed = {}
    /\ backup' = IF Excess = {} THEN Resting ELSE [backup EXCEPT !.doomed = Excess]
    /\ UNCHANGED <<db, second, due, kept, partials, restore, recent, setBack, halved, troubles>>

\* One file at a time, oldest first.
Prune ==
    /\ backup.doomed # {}
    /\ LET oldest == CHOOSE n \in backup.doomed : \A m \in backup.doomed : n <= m IN
         /\ kept' = [n \in DOMAIN kept \ {oldest} |-> kept[n]]
         /\ backup' = IF backup.doomed = {oldest} THEN Resting ELSE [backup EXCEPT !.doomed = @ \ {oldest}]
    /\ UNCHANGED <<db, second, due, partials, restore, recent, setBack, halved, troubles>>

\* The worker stops, or a step fails and the run with it; the next tick starts anew.
RunEnds ==
    /\ backup # Resting
    /\ troubles < MaxTroubles /\ troubles' = troubles + 1
    /\ backup' = Resting
    /\ partials' \in {partials, IF backup.at = "verified" THEN partials \cup {backup.name} ELSE partials \ {backup.name}}
    /\ UNCHANGED <<db, second, due, kept, restore, recent, setBack, halved>>

-----------------------------------------------------------------------------
(* Export and Restore *)

\* An exported file has a name of the same form; a manager may put it in the directory.
ExportInto ==
    /\ second \notin DOMAIN kept /\ restore = Resting
    /\ kept' = Entry(second, db)
    /\ setBack' = TRUE
    /\ UNCHANGED <<db, second, due, partials, backup, restore, recent, halved, troubles>>

\* parseFile, the version, decryption and the checksum come before the first change;
\* then pg_restore replaces one object after the other, in no one transaction.
BeginRestore(n) ==
    /\ restore = Resting /\ n \in DOMAIN kept
    /\ restore' = [Resting EXCEPT !.at = "restoring", !.of = kept[n]]
    /\ db' = Half
    /\ UNCHANGED <<second, due, kept, partials, backup, recent, setBack, halved, troubles>>

EndRestore ==
    /\ restore.at = "restoring"
    /\ db' = restore.of
    /\ restore' = Resting
    /\ UNCHANGED <<second, due, kept, partials, backup, recent, setBack, halved, troubles>>

\* The request's context ends, or pg_restore fails: what it had replaced stays.
CutRestore ==
    /\ restore.at = "restoring"
    /\ troubles < MaxTroubles /\ troubles' = troubles + 1
    /\ restore' = Resting
    /\ halved' = TRUE
    /\ UNCHANGED <<db, second, due, kept, partials, backup, recent, setBack>>

BackupsNext ==
    \/ Change \/ TimePasses \/ ClockSetBack
    \/ BuildBackup \/ WritePartial \/ FinishFile \/ ReadNames \/ Prune \/ RunEnds
    \/ ExportInto \/ \E n \in DOMAIN kept : BeginRestore(n)
    \/ EndRestore \/ CutRestore

-----------------------------------------------------------------------------
(* Properties *)

LastMade == {recent[k] : k \in DOMAIN recent}

\* Whenever the worker stops, every file with a backup's name is whole, and the last
\* Keep backups it made are there (RunScheduled, pruneBackups), unless the clock went
\* back or another file took a place; no more files pile up than runs were cut short;
\* and each holds a state the database was in, unless a restore was cut short.
BackupsAreKept ==
    /\ BackupsTypeOK
    /\ \A n \in DOMAIN kept : kept[n] # Cut
    /\ setBack \/ LastMade \subseteq DOMAIN kept
    /\ setBack \/ Cardinality(DOMAIN kept) <= Keep + 1 + troubles
    /\ halved \/ \A n \in DOMAIN kept : kept[n] # Half
=============================================================================

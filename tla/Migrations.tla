------------------------------ MODULE Migrations ------------------------------
(***************************************************************************)
(* cmd/migrate: Migrate applies the migration files in order, each in a    *)
(* transaction of its own, and notes it in schema_migrations afterwards,   *)
(* in another statement.  RollbackMigrations undoes recorded files in      *)
(* reverse order, statement by statement and without a transaction.  A run *)
(* may die between any two steps, a statement may fail, and two runs may   *)
(* overlap; the operator runs the program again until it succeeds.         *)
(*                                                                         *)
(* File 1 creates the tables that later files alter.  A later file either  *)
(* creates tables of its own (IF NOT EXISTS, DROP IF EXISTS) or alters one *)
(* table:                                                                  *)
(*   "column"   adds a column; the down block copies the table without it  *)
(*   "kept"     adds a column; the down block leaves it there              *)
(*   "dropped"  drops a column; the down block adds it again               *)
(*   "rebuilt"  copies the table in the up block, and back in the down one *)
(***************************************************************************)
EXTENDS FiniteSets, Integers

CONSTANTS
    NFiles,        \* the migration files, 1 .. NFiles in name order
    Kind,          \* what each file does
    Table,         \* the table that it alters
    Shared,        \* files that also create, and drop, a table that file 1 creates
    Probed,        \* the files migrationLooksAppliedBySchema knows
    Tables,        \* the tables of file 1 that later files alter
    Users,         \* the one that its down block drops last
    Runners,       \* processes that may run cmd/migrate
    MaxDowns,      \* bound on rollbacks
    MaxOverlaps,   \* bound on runs that start while another is under way
    MaxSlips       \* bound on deaths and failing statements

Files == 1 .. NFiles
Columns == {f \in Files : Kind[f] = "column"}
Kept == {f \in Files : Kind[f] = "kept"}
Dropping == {f \in Files : Kind[f] = "dropped"}
Rebuilt == {f \in Files : Kind[f] = "rebuilt"}
Altering == Columns \cup Kept \cup Dropping \cup Rebuilt
Copying == Columns \cup Rebuilt                   \* their down block copies a table

ASSUME MigrationsAssumption ==
    /\ NFiles \in Nat \ {0}
    /\ Kind \in [Files -> {"tables", "column", "kept", "dropped", "rebuilt"}]
    /\ Kind[1] = "tables" /\ Table \in [Files -> Tables] /\ Users \in Tables
    /\ Shared \subseteq Columns
    /\ Probed \subseteq Files \ (Kept \cup Dropping \cup Rebuilt)
    /\ 1 \in Probed \/ Columns \cap Probed = {}    \* no column without its table
    /\ MaxDowns \in Nat /\ MaxOverlaps \in Nat /\ MaxSlips \in Nat

VARIABLES
    schema,        \* how much of its own tables a file has in the database
    tables,        \* the altered tables that are there
    changed,       \* the files whose change to their table is in place
    shared,        \* the files whose table shared with file 1 is there
    copies,        \* the files whose copy of their table is there
    rows,          \* where a table's rows are: 0 the table, f the copy of file f
    referenced,    \* tables with rows that rows of other tables refer to
    recorded,      \* schema_migrations
    runs,          \* what each runner is doing
    downs,         \* rollbacks so far
    overlaps,      \* runs so far that started while another was under way
    slips,         \* deaths and failing statements so far
    torn,          \* history: files whose rollback was begun, not completed
    again,         \* history: tables copied or dropped anew where a rollback was torn
    orphaned       \* history: files committed by a run that did not record them

database == <<schema, tables, changed, shared, copies, rows, referenced>>
history == <<torn, again, orphaned>>
vars == <<schema, tables, changed, shared, copies, rows, referenced, recorded, runs,
          downs, overlaps, slips, torn, again, orphaned>>

Idle == [step |-> "idle"]
Goto(r, step, f) == runs' = [runs EXCEPT ![r] = [@ EXCEPT !.step = step, !.at = f]]
End(r) == runs' = [runs EXCEPT ![r] = Idle]

Slip == slips < MaxSlips /\ slips' = slips + 1
Overlap ==
    IF \A r \in Runners : runs[r] = Idle THEN UNCHANGED overlaps
    ELSE overlaps < MaxOverlaps /\ overlaps' = overlaps + 1

(* A new database, or one from before migrations were recorded: it had the *)
(* changes that migrationLooksAppliedBySchema can recognise.               *)
Init ==
    /\ \E old \in {{}, Probed} :
          /\ schema = [f \in Files |-> IF f \in old THEN "applied" ELSE "absent"]
          /\ tables = IF 1 \in old THEN Tables ELSE {}
          /\ changed = old \cap Altering
          /\ shared = IF 1 \in old THEN Shared ELSE {}
    /\ copies = {} /\ rows = [t \in Tables |-> {0}]
    /\ referenced \in SUBSET tables
    /\ recorded = {}
    /\ runs = [r \in Runners |-> Idle]
    /\ downs = 0 /\ overlaps = 0 /\ slips = 0
    /\ torn = {} /\ again = {} /\ orphaned = {}

-----------------------------------------------------------------------------
(* A file's up block, in one transaction.  A table is copied with the      *)
(* columns of the files before; and since no transaction can turn foreign  *)
(* keys off, it cannot be dropped while rows refer to it.                  *)
On(t) == {f \in Altering : Table[f] = t}
Copyable(f) ==
    /\ Table[f] \in tables
    /\ \A g \in On(Table[f]) : /\ g < f /\ g \in Columns \cup Kept => g \in changed
                               /\ g > f /\ g \in Dropping => g \notin changed
AsBefore(f) == {g \in changed : Table[g] # Table[f]} \cup {g \in On(Table[f]) : g < f}

MayApply(f) ==
    /\ f \in Altering \ Rebuilt => Table[f] \in tables /\ f \notin changed
    /\ f \in Rebuilt => Copyable(f) /\ Table[f] \notin referenced

CreateTables(f) ==
    /\ schema' = [schema EXCEPT ![f] = "applied"]
    /\ tables' = IF f = 1 THEN Tables ELSE tables
    /\ shared' = IF f = 1 THEN Shared ELSE shared
    /\ UNCHANGED changed
Alter(f) ==
    /\ changed' = {f} \cup IF f \in Rebuilt THEN AsBefore(f) ELSE changed
    /\ shared' = shared \cup ({f} \cap Shared)
    /\ UNCHANGED <<schema, tables>>

(* migrationLooksAppliedBySchema: files it does not know never look so, of *)
(* the first it looks at one table.                                        *)
NeverLooksApplied(f) == FALSE                  \* faulty: knows no file
KnownByName(f) == f \in Probed                 \* faulty: does not look
LooksApplied(f) ==
    /\ f \in Probed
    /\ f = 1 => Users \in tables
    /\ f \in Columns => f \in changed /\ (f \in Shared => f \in shared)
    /\ f \notin {1} \cup Columns => schema[f] # "absent"

-----------------------------------------------------------------------------
(* The statements of a down block.  File 1 drops the altered tables, then  *)
(* the users; another file that creates tables drops them one by one.      *)
LeaveTables(ts) ==
    /\ tables' = tables \cap ts
    /\ changed' = {f \in changed : Table[f] \in ts}
    /\ referenced' = referenced \cap ts
    /\ rows' = [t \in Tables |-> IF t \in ts THEN rows[t] ELSE {0}]
    /\ shared' = {}
DropTables(f, j) ==
    /\ schema' = [schema EXCEPT ![f] = IF j = 2 \/ @ = "absent" THEN "absent" ELSE "part"]
    /\ IF f = 1 THEN LeaveTables(IF j = 1 THEN {Users} ELSE {})
       ELSE UNCHANGED <<tables, changed, referenced, rows, shared>>
    /\ UNCHANGED copies

DropShared(f) ==
    /\ shared' = shared \ {f}
    /\ UNCHANGED <<schema, tables, changed, copies, rows, referenced>>
AddAgain(f) ==
    /\ changed' = changed \ {f}
    /\ UNCHANGED <<schema, tables, shared, copies, rows, referenced>>

(* The table without the column is built as a copy and put in its place.   *)
InRows(f, rs) == rows' = [rows EXCEPT ![Table[f]] = rs]
DropCopy(f) ==
    /\ copies' = copies \ {f}
    /\ InRows(f, rows[Table[f]] \ {f})
    /\ UNCHANGED <<tables, changed>>
CreateCopy(f) == copies' = copies \cup {f} /\ UNCHANGED <<tables, changed, rows>>
FillCopy(f) ==
    /\ InRows(f, rows[Table[f]] \cup IF 0 \in rows[Table[f]] THEN {f} ELSE {})
    /\ UNCHANGED <<tables, changed, copies>>
DropTable(f) ==
    /\ tables' = tables \ {Table[f]}
    /\ changed' = {g \in changed : Table[g] # Table[f]}
    /\ InRows(f, rows[Table[f]] \ {0})
    /\ UNCHANGED copies
RenameCopy(f) ==
    /\ tables' = tables \cup {Table[f]}
    /\ changed' = AsBefore(f)
    /\ copies' = copies \ {f}
    /\ InRows(f, (rows[Table[f]] \ {f}) \cup IF f \in rows[Table[f]] THEN {0} ELSE {})

(* faulty: drops the table before it is copied *)
DropFirst(f, j) ==
    \/ j = 1 /\ DropCopy(f)
    \/ j = 2 /\ CreateCopy(f)
    \/ j = 3 /\ DropTable(f)
    \/ j = 4 /\ FillCopy(f)
    \/ j = 5 /\ RenameCopy(f)
Rebuild(f, j) ==
    \/ j = 1 /\ DropCopy(f)
    \/ j = 2 /\ CreateCopy(f)
    \/ j = 3 /\ FillCopy(f)
    \/ j = 4 /\ DropTable(f)
    \/ j = 5 /\ RenameCopy(f)
Rebuildable(f, j) ==
    CASE j = 2 -> f \notin copies
      [] j = 3 -> f \in copies /\ Copyable(f)
      [] j = 4 -> Table[f] \in tables
      [] j = 5 -> f \in copies /\ Table[f] \notin tables
      [] OTHER -> TRUE

MostStatements == 6
Lead(f) == IF f \in Shared THEN 1 ELSE 0         \* statements before the copying
Statements(f) ==
    CASE f \in Copying -> Lead(f) + 5
      [] f \in Kept \cup Dropping -> 1
      [] OTHER -> 2
Execute(f, j) ==
    \/ f \in Copying /\ j <= Lead(f) /\ DropShared(f)
    \/ /\ f \in Copying /\ j > Lead(f) /\ Rebuild(f, j - Lead(f))
       /\ UNCHANGED <<schema, shared, referenced>>
    \/ f \in Kept /\ UNCHANGED database
    \/ f \in Dropping /\ AddAgain(f)
    \/ f \notin Altering /\ DropTables(f, j)
Executable(f, j) ==
    /\ f \in Copying => Rebuildable(f, j - Lead(f))
    /\ f \in Dropping => Table[f] \in tables /\ f \in changed

-----------------------------------------------------------------------------
(* Migrate.                                                                *)
StartUp(r) ==
    /\ runs[r] = Idle
    /\ Overlap
    /\ runs' = [runs EXCEPT ![r] = [step |-> "look", at |-> 1]]
    /\ UNCHANGED <<database, recorded, downs, slips, history>>

Look(r) ==
    LET f == runs[r].at
    IN  /\ runs[r].step = "look"
        /\ \/ f > NFiles /\ End(r)
           \/ f \in recorded /\ Goto(r, "look", f + 1)
           \/ f \in Files \ recorded /\ Goto(r, "apply", f)
        /\ UNCHANGED <<database, recorded, downs, overlaps, slips, history>>

Apply(r) ==
    LET f == runs[r].at
    IN  /\ runs[r].step = "apply"
        /\ MayApply(f)
        /\ IF f \in Altering THEN Alter(f) ELSE CreateTables(f)
        /\ Goto(r, "record", f)
        /\ UNCHANGED <<copies, rows, referenced, recorded, downs, overlaps, slips, history>>

(* A statement fails, and everything is rolled back.                       *)
ApplyFails(r) ==
    /\ runs[r].step = "apply"
    /\ IF MayApply(runs[r].at) THEN Slip ELSE UNCHANGED slips
    /\ Goto(r, "probe", runs[r].at)
    /\ UNCHANGED <<database, recorded, downs, overlaps, history>>

Probe(r) ==
    /\ runs[r].step = "probe"
    /\ IF LooksApplied(runs[r].at) THEN Goto(r, "record", runs[r].at) ELSE End(r)
    /\ UNCHANGED <<database, recorded, downs, overlaps, slips, history>>

Record(r) ==
    LET f == runs[r].at
    IN  /\ runs[r].step = "record"
        /\ recorded' = recorded \cup {f}
        /\ Goto(r, "look", f + 1)
        /\ UNCHANGED <<database, downs, overlaps, slips, history>>

-----------------------------------------------------------------------------
(* RollbackMigrations, of all files or of one step.                        *)
StartDown(r) ==
    /\ runs[r] = Idle
    /\ downs < MaxDowns
    /\ downs' = downs + 1
    /\ Overlap
    /\ \E all \in BOOLEAN :
          runs' = [runs EXCEPT ![r] = [step |-> "back", at |-> NFiles, all |-> all]]
    /\ UNCHANGED <<database, recorded, slips, history>>

(* Tables that a rollback of file f drops, and those at which a rollback   *)
(* is under way or was left half done.                                     *)
Drops(f) == {t \in Tables : f = 1 \/ (f \in Copying /\ Table[f] = t)}
Broken(t) == \E f \in torn : t \in Drops(f)

LookBack(r) ==
    LET f == runs[r].at
    IN  /\ runs[r].step = "back"
        /\ \/ f = 0 /\ End(r) /\ UNCHANGED <<torn, again>>
           \/ /\ f \in Files \ recorded
              /\ Goto(r, "back", f - 1)
              /\ UNCHANGED <<torn, again>>
           \/ /\ f \in recorded
              /\ runs' = [runs EXCEPT ![r] = [step |-> "undo", at |-> f,
                                              all |-> @.all, statement |-> 1]]
              /\ torn' = torn \cup {f}
              /\ again' = again \cup {t \in Drops(f) : Broken(t)}
        /\ UNCHANGED <<database, recorded, downs, overlaps, slips, orphaned>>

Undo(r) ==
    LET f == runs[r].at
        j == runs[r].statement
    IN  /\ runs[r].step = "undo"
        /\ j <= Statements(f)
        /\ Executable(f, j)
        /\ Execute(f, j)
        /\ runs' = [runs EXCEPT ![r].statement = j + 1]
        /\ UNCHANGED <<recorded, downs, overlaps, slips, history>>

UndoFails(r) ==
    LET f == runs[r].at
        j == runs[r].statement
    IN  /\ runs[r].step = "undo"
        /\ j <= Statements(f)
        /\ IF Executable(f, j) THEN Slip ELSE UNCHANGED slips
        /\ End(r)
        /\ torn' = torn \cup {f}
        /\ UNCHANGED <<database, recorded, downs, overlaps, again, orphaned>>

Forget(r) ==
    LET f == runs[r].at
    IN  /\ runs[r].step = "undo"
        /\ runs[r].statement = Statements(f) + 1
        /\ recorded' = recorded \ {f}
        /\ torn' = torn \ {f}
        /\ runs' = [runs EXCEPT ![r] =
                       IF @.all THEN [step |-> "back", at |-> f - 1, all |-> TRUE]
                       ELSE Idle]
        /\ UNCHANGED <<database, downs, overlaps, slips, again, orphaned>>

-----------------------------------------------------------------------------
(* The process dies, or ends because the ledger could not be read or       *)
(* written.                                                                *)
Die(r) ==
    /\ runs[r] # Idle
    /\ Slip
    /\ orphaned' = IF runs[r].step = "record" THEN orphaned \cup {runs[r].at}
                   ELSE orphaned
    /\ torn' = IF runs[r].step = "undo" THEN torn \cup {runs[r].at} ELSE torn
    /\ End(r)
    /\ UNCHANGED <<database, recorded, downs, overlaps, again>>

(* The program in use: rows come that refer to those of a table.           *)
Refer(t) ==
    /\ t \in tables
    /\ referenced' = referenced \cup {t}
    /\ UNCHANGED <<schema, tables, changed, shared, copies, rows, recorded, runs,
                   downs, overlaps, slips, history>>

UpStep(r) == Look(r) \/ Apply(r) \/ ApplyFails(r) \/ Probe(r) \/ Record(r)
DownStep(r) == LookBack(r) \/ Undo(r) \/ UndoFails(r) \/ Forget(r)

Next ==
    \/ \E r \in Runners : StartUp(r) \/ UpStep(r) \/ StartDown(r) \/ DownStep(r) \/ Die(r)
    \/ \E t \in Tables : Refer(t)

(* A run goes on, and every deployment starts one.                         *)
Spec ==
    /\ Init /\ [][Next]_vars
    /\ \A r \in Runners : WF_vars(UpStep(r)) /\ WF_vars(DownStep(r))
    /\ WF_vars(\E r \in Runners : StartUp(r))

-----------------------------------------------------------------------------
Local ==
    {Idle}
    \cup [step : {"look"}, at : 1 .. NFiles + 1]
    \cup [step : {"apply", "probe", "record"}, at : Files]
    \cup [step : {"back"}, at : 0 .. NFiles, all : BOOLEAN]
    \cup {l \in [step : {"undo"}, at : Files, all : BOOLEAN,
                 statement : 1 .. MostStatements + 1] :
             l.statement <= Statements(l.at) + 1}

(* Types of the database, the ledger and the runs.                         *)
TypeOK ==
    /\ schema \in [Files -> {"absent", "part", "applied"}]
    /\ tables \subseteq Tables /\ referenced \subseteq Tables
    /\ changed \subseteq Altering /\ shared \subseteq Shared /\ copies \subseteq Copying
    /\ rows \in [Tables -> SUBSET ({0} \cup Files)]
    /\ recorded \subseteq Files
    /\ runs \in [Runners -> Local]
    /\ downs \in 0 .. MaxDowns
    /\ overlaps \in 0 .. MaxOverlaps /\ slips \in 0 .. MaxSlips
    /\ torn \subseteq Files /\ again \subseteq Tables /\ orphaned \subseteq Files

(* What schema_migrations says is true and has no gaps, whatever run died  *)
(* where, as long as runs do not overlap.  What is recorded is in the      *)
(* schema, and so are the files before it, but for a file or a table whose *)
(* rollback was begun and not completed.  (The rollback of a shared file   *)
(* takes its table from file 1, which remains recorded.)                   *)
InPlace(f) ==
    IF f \in Altering
    THEN (f \in Shared => f \in shared) /\ (~Broken(Table[f]) => f \in changed)
    ELSE schema[f] = "applied"
LedgerIsTrue ==
    overlaps = 0 =>
        /\ \A f \in recorded : 1 .. f \subseteq recorded
        /\ \A f \in recorded \ torn : InPlace(f)
        /\ recorded # {} => \A t \in Tables : t \in tables \/ Broken(t)

(* A rollback interrupted anywhere keeps the rows of the table it copies;  *)
(* only one that begins where another is under way or was left half done   *)
(* may lose them, for it drops the copy first.                             *)
RowsKept == \A t \in Tables : rows[t] = {} => t \in again

(* Repeating the migration gets every file recorded, through deaths, lost  *)
(* statements and overlapping runs, unless what is in the schema cannot be *)
(* repeated or taken back: a run committed a change that cannot be         *)
(* recognised and ended before recording it, a rolled back file left its   *)
(* column, a table to be copied is referred to, a rollback was left half   *)
(* done or met another, or overlapping runs made a record untrue.          *)
Obstructed ==
    \/ (orphaned \cap Altering) \ (Probed \cup Rebuilt) # {}
    \/ \E f \in Kept \ recorded : f \in changed
    \/ \E f \in Rebuilt \ recorded : Table[f] \in referenced
    \/ \E f \in recorded \cap Altering : f \notin changed
    \/ torn # {} \/ again # {}
Converges == []<>(recorded = Files \/ Obstructed)
===============================================================================

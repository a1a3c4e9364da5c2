--------------------------- MODULE MigrationsProofs ---------------------------
(***************************************************************************)
(* What a database goes through in migrations and rollbacks, for any       *)
(* number of files of any kind, of runs, overlaps, deaths and failures.    *)
(***************************************************************************)
EXTENDS Migrations, TLAPS

(* What a run may rely on as long as runs do not overlap.                  *)
Committed(f) ==
    /\ f \in Altering => f \in changed /\ (f \in Shared => f \in shared)
    /\ f \notin Altering => schema[f] = "applied"
    /\ f = 1 => tables = Tables
Undone(f) ==
    /\ f \in Copying => /\ Table[f] \in tables
                        /\ \A g \in On(Table[f]) : g < f => g \in changed
    /\ f \notin Altering => schema[f] = "absent"
    /\ f = 1 => tables = {}
RelyOn(l) ==
    /\ l.step \in {"look", "apply", "probe", "record"} => 1 .. l.at - 1 \subseteq recorded
    /\ l.step \in {"apply", "probe", "record"} => l.at \notin recorded
    /\ l.step = "record" => Committed(l.at)
    /\ l.step \in {"back", "undo"} => recorded \subseteq 1 .. l.at
    /\ l.step = "undo" => l.at \in torn \cap recorded
    /\ l.step = "undo" => (l.statement = Statements(l.at) + 1 => Undone(l.at))

Alone ==
    overlaps = 0 =>
        /\ \A q, r \in Runners : runs[q] # Idle /\ runs[r] # Idle => q = r
        /\ \A r \in Runners : runs[r] # Idle => RelyOn(runs[r])

(* A file that is not recorded is in the schema as a whole or not at all.  *)
Whole ==
    overlaps = 0 =>
        /\ \A f \in Files \ (recorded \cup Altering) : schema[f] # "part"
        /\ 1 \notin recorded => IF schema[1] = "absent" THEN tables = {}
                                ELSE tables = Tables

(* Where the rows of a table are while it is rolled back, unless rollbacks *)
(* met at the table or one was begun anew.                                 *)
UndoAt(r, t) == runs[r].step = "undo" /\ t \in Drops(runs[r].at)
RowsAt(f, j) ==
    CASE f \in Copying /\ j = Lead(f) + 4 -> {0, f}
      [] f \in Copying /\ j = Lead(f) + 5 -> {f}
      [] OTHER -> {0}

RowsFollowOf(t) ==
    /\ \A f, g \in torn : t \in Drops(f) /\ t \in Drops(g) => f = g
    /\ \A r \in Runners : UndoAt(r, t) => runs[r].at \in torn
    /\ \A q, r \in Runners : UndoAt(q, t) /\ UndoAt(r, t) => q = r
    /\ ~Broken(t) => rows[t] = {0}
    /\ \A r \in Runners : UndoAt(r, t) => rows[t] = RowsAt(runs[r].at, runs[r].statement)

RowsFollow == \A t \in Tables \ again : RowsFollowOf(t)

IInv == TypeOK /\ Alone /\ LedgerIsTrue /\ Whole /\ RowsFollow /\ RowsKept

-----------------------------------------------------------------------------
LEMMA Constants ==
    /\ NFiles \in Nat \ {0} /\ 1 \in Files /\ Files \subseteq Nat \ {0}
    /\ Altering \subseteq Files \ {1} /\ Copying \subseteq Altering
    /\ Columns \subseteq Copying /\ Shared \subseteq Columns
    /\ Kept \cup Dropping \subseteq Altering \ Copying
    /\ \A f \in Files : Table[f] \in Tables
    /\ Users \in Tables
    /\ Probed \cap Altering \subseteq Columns /\ Probed \subseteq Files
    /\ MaxDowns \in Nat /\ MaxOverlaps \in Nat /\ MaxSlips \in Nat
<1>1. Kind[1] = "tables" /\ 1 \in Files
  BY MigrationsAssumption DEF Files
<1>2. QED
  BY <1>1, MigrationsAssumption
  DEF Files, Altering, Copying, Columns, Kept, Dropping, Rebuilt

LEMMA StatementBounds ==
    ASSUME NEW f \in Files
    PROVE  /\ Statements(f) \in 1 .. MostStatements /\ Lead(f) \in {0, 1}
           /\ f \in Copying => Statements(f) = Lead(f) + 5
           /\ f \in Altering \ Copying => Statements(f) = 1
           /\ f \notin Altering => Statements(f) = 2
<1>1. Lead(f) \in {0, 1}
  BY DEF Lead
<1>2. f \in Altering \ Copying <=> f \in Kept \cup Dropping
  BY Constants DEF Altering, Copying
<1>3. QED
  BY <1>1, <1>2, Constants DEF Statements, MostStatements, Altering

(* The locals of a run, by its step.                                       *)
LEMMA LocalFields ==
    ASSUME NEW l \in Local
    PROVE  /\ l.step \in {"idle", "look", "apply", "probe", "record", "back", "undo"}
           /\ l = Idle <=> l.step = "idle"
           /\ l.step = "look" => l = [step |-> "look", at |-> l.at] /\ l.at \in 1 .. NFiles + 1
           /\ l.step \in {"apply", "probe", "record"} =>
                 l = [step |-> l.step, at |-> l.at] /\ l.at \in Files
           /\ l.step = "back" => /\ l = [step |-> "back", at |-> l.at, all |-> l.all]
                                 /\ l.at \in 0 .. NFiles /\ l.all \in BOOLEAN
           /\ l.step = "undo" => /\ l.at \in Files /\ l.all \in BOOLEAN
                                 /\ l.statement \in 1 .. MostStatements + 1
                                 /\ l.statement <= Statements(l.at) + 1
BY DEF Local, Idle

(* A run moves to m, the others stay.                                      *)
Moves(r, m) ==
    /\ runs' \in [Runners -> Local]
    /\ runs'[r] = m
    /\ \A q \in Runners \ {r} : runs'[q] = runs[q]

LEMMA MovesTo ==
    ASSUME TypeOK, NEW r \in Runners, NEW m \in Local,
           runs' = [runs EXCEPT ![r] = m]
    PROVE  Moves(r, m)
BY DEF TypeOK, Moves

LEMMA EndMoves ==
    ASSUME TypeOK, NEW r \in Runners, End(r)
    PROVE  Moves(r, Idle) /\ Idle.step = "idle"
BY MovesTo DEF End, Local, Idle

(* Where a run of Migrate goes next.                                       *)
LEMMA GotoMoves ==
    ASSUME TypeOK, NEW r \in Runners, NEW step, NEW f, Goto(r, step, f),
           runs[r].step \in {"look", "apply", "probe", "record"},
           \/ step = "look" /\ f \in 1 .. NFiles + 1
           \/ step \in {"apply", "probe", "record"} /\ f \in Files
    PROVE  Moves(r, [step |-> step, at |-> f])
<1>1. PICK s, a : runs[r] = [step |-> s, at |-> a]
  BY LocalFields DEF TypeOK
<1>2. [runs[r] EXCEPT !.step = step, !.at = f] = [step |-> step, at |-> f]
  <2>1. [runs[r] EXCEPT !.step = step] = [step |-> step, at |-> a]
    BY <1>1
  <2>2. [runs[r] EXCEPT !.step = step, !.at = f]
           = [[runs[r] EXCEPT !.step = step] EXCEPT !.at = f]
    OBVIOUS
  <2>3. [[step |-> step, at |-> a] EXCEPT !.at = f] = [step |-> step, at |-> f]
    OBVIOUS
  <2>4. QED
    BY <2>1, <2>2, <2>3
<1>3. runs' = [runs EXCEPT ![r] = [step |-> step, at |-> f]]
  BY <1>2 DEF Goto
<1>4. [step |-> step, at |-> f] \in Local
  BY DEF Local
<1>5. QED
  BY <1>3, <1>4, MovesTo

LEMMA BackMoves ==
    ASSUME TypeOK, NEW r \in Runners, NEW f \in 0 .. NFiles, NEW all \in BOOLEAN,
           runs' = [runs EXCEPT ![r] = [step |-> "back", at |-> f, all |-> all]]
    PROVE  Moves(r, [step |-> "back", at |-> f, all |-> all])
BY MovesTo DEF Local

-----------------------------------------------------------------------------
(* The steps of a run, one by one: where it was and where it is then.      *)
LEMMA StartUpFacts ==
    ASSUME TypeOK, NEW r \in Runners, StartUp(r)
    PROVE  /\ Moves(r, [step |-> "look", at |-> 1]) /\ runs[r].step = "idle"
           /\ runs[r] = Idle
<1>1. [step |-> "look", at |-> 1] \in Local
  BY Constants DEF Local
<1>2. runs[r] = Idle /\ runs' = [runs EXCEPT ![r] = [step |-> "look", at |-> 1]]
  BY DEF StartUp
<1>3. Moves(r, [step |-> "look", at |-> 1])
  BY <1>1, <1>2, MovesTo
<1>4. QED
  BY <1>2, <1>3 DEF Idle

LEMMA LookFacts ==
    ASSUME TypeOK, NEW r \in Runners, Look(r)
    PROVE  LET f == runs[r].at IN
           /\ runs[r].step = "look" /\ f \in 1 .. NFiles + 1
           /\ \/ Moves(r, Idle)
              \/ f \in recorded /\ f \in Files /\ Moves(r, [step |-> "look", at |-> f + 1])
              \/ f \in Files \ recorded /\ Moves(r, [step |-> "apply", at |-> f])
<1> DEFINE f == runs[r].at
<1>1. runs[r].step = "look" /\ f \in 1 .. NFiles + 1
  BY LocalFields DEF Look, TypeOK
<1>2. CASE f > NFiles /\ End(r)
  BY <1>1, <1>2, EndMoves
<1>3. CASE f \in recorded /\ Goto(r, "look", f + 1)
  <2>1. f \in Files
    BY <1>3 DEF TypeOK
  <2>2. f + 1 \in 1 .. NFiles + 1
    BY <2>1, Constants DEF Files
  <2>3. QED
    BY <1>1, <1>3, <2>1, <2>2, GotoMoves
<1>4. CASE f \in Files \ recorded /\ Goto(r, "apply", f)
  BY <1>1, <1>4, GotoMoves
<1>5. QED
  BY <1>2, <1>3, <1>4 DEF Look

(* What the up block of a file does when it commits.                       *)
LEMMA UpFacts ==
    ASSUME TypeOK, NEW f \in Files,
           IF f \in Altering THEN Alter(f) ELSE CreateTables(f)
    PROVE  /\ schema' \in [Files -> {"absent", "part", "applied"}]
           /\ tables' \subseteq Tables /\ tables \subseteq tables'
           /\ changed' \subseteq Altering /\ shared \subseteq shared' /\ shared' \subseteq Shared
           /\ \A g \in Files \ {f} : schema'[g] = schema[g]
           /\ \A g \in changed : g \in changed' \/ g > f
           /\ f # 1 => tables' = tables
           /\ Committed(f)'
<1>1. /\ schema \in [Files -> {"absent", "part", "applied"}]
      /\ tables \subseteq Tables /\ changed \subseteq Altering /\ shared \subseteq Shared
  BY DEF TypeOK
<1>2. CASE f \in Altering
  <2>1. Alter(f) /\ f # 1
    BY <1>2, Constants
  <2>2. AsBefore(f) \subseteq Altering /\ \A g \in changed : g \in AsBefore(f) \/ g > f \/ g = f
    <3>1. \A g \in changed : g \in Altering /\ g \in Nat
      BY <1>1, Constants
    <3>2. f \in Nat
      BY Constants
    <3>3. QED
      BY <1>1, <3>1, <3>2 DEF AsBefore, On
  <2>3. changed' \subseteq Altering /\ \A g \in changed : g \in changed' \/ g > f
    BY <1>1, <1>2, <2>1, <2>2 DEF Alter
  <2>4. f \in changed' /\ (f \in Shared => f \in shared')
    BY <2>1 DEF Alter
  <2>5. QED
    BY <1>1, <1>2, <2>1, <2>3, <2>4 DEF Alter, Committed
<1>3. CASE f \notin Altering
  BY <1>1, <1>3 DEF CreateTables, Committed
<1>4. QED
  BY <1>2, <1>3

LEMMA ApplyFacts ==
    ASSUME TypeOK, NEW r \in Runners, Apply(r)
    PROVE  LET f == runs[r].at IN
           /\ runs[r].step = "apply" /\ f \in Files
           /\ Moves(r, [step |-> "record", at |-> f])
           /\ IF f \in Altering THEN Alter(f) ELSE CreateTables(f)
<1>1. runs[r].step = "apply" /\ runs[r].at \in Files
  BY LocalFields DEF Apply, TypeOK
<1>2. QED
  BY <1>1, GotoMoves DEF Apply

LEMMA ApplyFailsFacts ==
    ASSUME TypeOK, NEW r \in Runners, ApplyFails(r)
    PROVE  /\ runs[r].step = "apply" /\ runs[r].at \in Files
           /\ Moves(r, [step |-> "probe", at |-> runs[r].at])
<1>1. runs[r].step = "apply" /\ runs[r].at \in Files
  BY LocalFields DEF ApplyFails, TypeOK
<1>2. QED
  BY <1>1, GotoMoves DEF ApplyFails

LEMMA ProbeFacts ==
    ASSUME TypeOK, NEW r \in Runners, Probe(r)
    PROVE  LET f == runs[r].at IN
           /\ runs[r].step = "probe" /\ f \in Files
           /\ \/ Moves(r, Idle)
              \/ LooksApplied(f) /\ Moves(r, [step |-> "record", at |-> f])
<1> DEFINE f == runs[r].at
<1>1. runs[r].step = "probe" /\ f \in Files
  BY LocalFields DEF Probe, TypeOK
<1>2. CASE LooksApplied(f)
  BY <1>1, <1>2, GotoMoves DEF Probe
<1>3. CASE ~LooksApplied(f)
  BY <1>1, <1>3, EndMoves DEF Probe
<1>4. QED
  BY <1>2, <1>3

LEMMA RecordFacts ==
    ASSUME TypeOK, NEW r \in Runners, Record(r)
    PROVE  LET f == runs[r].at IN
           /\ runs[r].step = "record" /\ f \in Files
           /\ recorded' = recorded \cup {f}
           /\ Moves(r, [step |-> "look", at |-> f + 1])
<1> DEFINE f == runs[r].at
<1>1. runs[r].step = "record" /\ f \in Files
  BY LocalFields DEF Record, TypeOK
<1>2. f + 1 \in 1 .. NFiles + 1
  BY <1>1, Constants DEF Files
<1>3. QED
  BY <1>1, <1>2, GotoMoves DEF Record

LEMMA StartDownFacts ==
    ASSUME TypeOK, NEW r \in Runners, StartDown(r)
    PROVE  /\ runs[r].step = "idle" /\ runs[r] = Idle /\ downs' \in 0 .. MaxDowns
           /\ \E all \in BOOLEAN : Moves(r, [step |-> "back", at |-> NFiles, all |-> all])
<1>1. runs[r] = Idle /\ runs[r].step = "idle"
  BY DEF StartDown, Idle
<1>2. downs' \in 0 .. MaxDowns
  BY Constants DEF StartDown, TypeOK
<1>3. NFiles \in 0 .. NFiles
  BY Constants
<1>4. QED
  BY <1>1, <1>2, <1>3, BackMoves DEF StartDown

LEMMA LookBackFacts ==
    ASSUME TypeOK, NEW r \in Runners, LookBack(r)
    PROVE  LET f == runs[r].at
               all == runs[r].all IN
           /\ runs[r].step = "back" /\ f \in 0 .. NFiles
           /\ \/ Moves(r, Idle) /\ UNCHANGED <<torn, again>>
              \/ /\ f \in Files \ recorded /\ UNCHANGED <<torn, again>>
                 /\ Moves(r, [step |-> "back", at |-> f - 1, all |-> all])
              \/ /\ f \in recorded /\ f \in Files
                 /\ Moves(r, [step |-> "undo", at |-> f, all |-> all, statement |-> 1])
                 /\ torn' = torn \cup {f}
                 /\ again' = again \cup {t \in Drops(f) : Broken(t)}
<1> DEFINE f == runs[r].at
           all == runs[r].all
<1>1. /\ runs[r].step = "back" /\ f \in 0 .. NFiles /\ all \in BOOLEAN
      /\ \E a, b : runs[r] = [step |-> "back", at |-> a, all |-> b]
  BY LocalFields DEF LookBack, TypeOK
<1>2. CASE f = 0 /\ End(r) /\ UNCHANGED <<torn, again>>
  BY <1>1, <1>2, EndMoves
<1>3. CASE f \in Files \ recorded /\ Goto(r, "back", f - 1) /\ UNCHANGED <<torn, again>>
  <2>1. f - 1 \in 0 .. NFiles
    BY <1>3, Constants DEF Files
  <2>2. [runs[r] EXCEPT !.step = "back", !.at = f - 1]
           = [step |-> "back", at |-> f - 1, all |-> all]
    <3>1. PICK a, b : runs[r] = [step |-> "back", at |-> a, all |-> b]
      BY <1>1
    <3>2. [runs[r] EXCEPT !.step = "back", !.at = f - 1]
             = [step |-> "back", at |-> f - 1, all |-> b]
      <4>1. [runs[r] EXCEPT !.step = "back"] = [step |-> "back", at |-> a, all |-> b]
        BY <3>1
      <4>2. [runs[r] EXCEPT !.step = "back", !.at = f - 1]
               = [[runs[r] EXCEPT !.step = "back"] EXCEPT !.at = f - 1]
        OBVIOUS
      <4>3. [[step |-> "back", at |-> a, all |-> b] EXCEPT !.at = f - 1]
               = [step |-> "back", at |-> f - 1, all |-> b]
        OBVIOUS
      <4>4. QED
        BY <4>1, <4>2, <4>3
    <3>3. QED
      BY <3>1, <3>2
  <2>3. runs' = [runs EXCEPT ![r] = [step |-> "back", at |-> f - 1, all |-> all]]
    BY <1>3, <2>2 DEF Goto
  <2>4. QED
    BY <1>1, <1>3, <2>1, <2>3, BackMoves
<1>4. CASE /\ f \in recorded
           /\ runs' = [runs EXCEPT ![r] = [step |-> "undo", at |-> f,
                                           all |-> @.all, statement |-> 1]]
           /\ torn' = torn \cup {f}
           /\ again' = again \cup {t \in Drops(f) : Broken(t)}
  <2>1. f \in Files
    BY <1>4 DEF TypeOK
  <2>2. [step |-> "undo", at |-> f, all |-> all, statement |-> 1] \in Local
    BY <1>1, <2>1, StatementBounds DEF Local, MostStatements
  <2>3. Moves(r, [step |-> "undo", at |-> f, all |-> all, statement |-> 1])
    BY <1>4, <2>2, MovesTo
  <2>4. QED
    BY <1>1, <1>4, <2>1, <2>3
<1>5. QED
  BY <1>2, <1>3, <1>4 DEF LookBack

LEMMA UndoFacts ==
    ASSUME TypeOK, NEW r \in Runners, Undo(r)
    PROVE  LET f == runs[r].at
               j == runs[r].statement
               m == runs'[r] IN
           /\ runs[r].step = "undo" /\ f \in Files
           /\ j \in 1 .. Statements(f) /\ Executable(f, j) /\ Execute(f, j)
           /\ Moves(r, m) /\ m.step = "undo" /\ m.at = f /\ m.statement = j + 1
           /\ m.all = runs[r].all
<1> DEFINE f == runs[r].at
           j == runs[r].statement
           m == [runs[r] EXCEPT !.statement = j + 1]
<1>1. runs[r] \in Local /\ runs[r].step = "undo" /\ j <= Statements(f)
  BY DEF Undo, TypeOK
<1>2. runs[r] \in [step : {"undo"}, at : Files, all : BOOLEAN,
                   statement : 1 .. MostStatements + 1]
  BY <1>1 DEF Local, Idle
<1>3. f \in Files /\ j \in 1 .. MostStatements + 1
  BY <1>2
<1>4. Statements(f) \in Nat /\ Statements(f) \in 1 .. MostStatements
  BY <1>3, StatementBounds
<1>5. j \in 1 .. Statements(f) /\ j + 1 \in 1 .. MostStatements + 1 /\ j + 1 <= Statements(f) + 1
  BY <1>1, <1>3, <1>4 DEF MostStatements
<1>6. /\ m \in [step : {"undo"}, at : Files, all : BOOLEAN,
                statement : 1 .. MostStatements + 1]
      /\ m.step = "undo" /\ m.at = f /\ m.statement = j + 1 /\ m.all = runs[r].all
  BY <1>2, <1>5
<1>7. m \in Local
  BY <1>5, <1>6 DEF Local
<1>8. runs' = [runs EXCEPT ![r] = m]
  BY DEF Undo
<1>9. Moves(r, m)
  BY <1>7, <1>8, MovesTo
<1>10. runs'[r] = m
  BY <1>9 DEF Moves
<1>11. Executable(f, j) /\ Execute(f, j)
  BY DEF Undo
<1> HIDE DEF m
<1>12. QED
  BY <1>1, <1>3, <1>5, <1>6, <1>9, <1>10, <1>11

LEMMA UndoFailsFacts ==
    ASSUME TypeOK, NEW r \in Runners, UndoFails(r)
    PROVE  /\ runs[r].step = "undo" /\ runs[r].at \in Files
           /\ Moves(r, Idle) /\ torn' = torn \cup {runs[r].at}
<1>1. runs[r].step = "undo" /\ runs[r].at \in Files
  BY LocalFields DEF UndoFails, TypeOK
<1>2. QED
  BY <1>1, EndMoves DEF UndoFails

LEMMA ForgetFacts ==
    ASSUME TypeOK, NEW r \in Runners, Forget(r)
    PROVE  LET f == runs[r].at IN
           /\ runs[r].step = "undo" /\ f \in Files
           /\ runs[r].statement = Statements(f) + 1
           /\ recorded' = recorded \ {f} /\ torn' = torn \ {f}
           /\ \/ Moves(r, Idle)
              \/ Moves(r, [step |-> "back", at |-> f - 1, all |-> TRUE])
<1> DEFINE f == runs[r].at
<1>1. runs[r].step = "undo" /\ f \in Files
  BY LocalFields DEF Forget, TypeOK
<1>2. f - 1 \in 0 .. NFiles
  BY <1>1, Constants DEF Files
<1>3. CASE runs' = [runs EXCEPT ![r] = [step |-> "back", at |-> f - 1, all |-> TRUE]]
  BY <1>1, <1>2, <1>3, BackMoves DEF Forget
<1>4. CASE runs' = [runs EXCEPT ![r] = Idle]
  BY <1>1, <1>4, EndMoves DEF Forget, End
<1>5. QED
  BY <1>3, <1>4 DEF Forget

LEMMA DieFacts ==
    ASSUME TypeOK, NEW r \in Runners, Die(r)
    PROVE  /\ runs[r] # Idle /\ Moves(r, Idle)
           /\ runs[r].step = "record" => runs[r].at \in Files
           /\ runs[r].step = "undo" => runs[r].at \in Files
           /\ torn' = IF runs[r].step = "undo" THEN torn \cup {runs[r].at} ELSE torn
BY EndMoves, LocalFields DEF Die, TypeOK

-----------------------------------------------------------------------------
(* The statements of a down block.                                         *)
LEMMA RebuildFacts ==
    ASSUME TypeOK, NEW f \in Copying, NEW j, Rebuild(f, j)
    PROVE  /\ tables' \subseteq Tables /\ changed' \subseteq Altering /\ copies' \subseteq Copying
           /\ rows' \in [Tables -> SUBSET ({0} \cup Files)]
           /\ \A t \in Tables \ {Table[f]} : rows'[t] = rows[t] /\ (t \in tables <=> t \in tables')
           /\ \A g \in changed : Table[g] # Table[f] => g \in changed'
           /\ j = 5 => /\ Table[f] \in tables'
                       /\ \A g \in On(Table[f]) : g < f => g \in changed'
<1>1. /\ tables \subseteq Tables /\ changed \subseteq Altering /\ copies \subseteq Copying
      /\ rows \in [Tables -> SUBSET ({0} \cup Files)]
      /\ f \in Files /\ Table[f] \in Tables /\ rows[Table[f]] \subseteq {0} \cup Files
  BY Constants DEF TypeOK
<1>2. AsBefore(f) \subseteq Altering
  BY <1>1 DEF AsBefore, On
<1>3. CASE j = 1 /\ DropCopy(f)
  BY <1>1, <1>3 DEF DropCopy, InRows
<1>4. CASE j = 2 /\ CreateCopy(f)
  BY <1>1, <1>4 DEF CreateCopy
<1>5. CASE j = 3 /\ FillCopy(f)
  BY <1>1, <1>5 DEF FillCopy, InRows
<1>6. CASE j = 4 /\ DropTable(f)
  BY <1>1, <1>6 DEF DropTable, InRows
<1>7. CASE j = 5 /\ RenameCopy(f)
  <2>1. rows' \in [Tables -> SUBSET ({0} \cup Files)]
        /\ \A t \in Tables \ {Table[f]} : rows'[t] = rows[t]
    BY <1>1, <1>7 DEF RenameCopy, InRows
  <2>2. \A g \in changed : Table[g] # Table[f] => g \in AsBefore(f)
    BY DEF AsBefore
  <2>3. \A g \in On(Table[f]) : g < f => g \in AsBefore(f)
    BY DEF AsBefore
  <2>4. QED
    BY <1>1, <1>2, <1>7, <2>1, <2>2, <2>3 DEF RenameCopy
<1>8. QED
  BY <1>3, <1>4, <1>5, <1>6, <1>7 DEF Rebuild

(* The four ways of a statement.                                           *)
LEMMA ExecuteCases ==
    ASSUME NEW f \in Files, NEW j \in 1 .. Statements(f), Execute(f, j)
    PROVE  \/ f \in Copying /\ j <= Lead(f) /\ DropShared(f) /\ f \in Shared
           \/ /\ f \in Copying /\ j > Lead(f) /\ Rebuild(f, j - Lead(f))
              /\ UNCHANGED <<schema, shared, referenced>>
           \/ f \in Altering \ Copying /\ UNCHANGED database
           \/ f \in Altering \ Copying /\ AddAgain(f)
           \/ f \notin Altering /\ j \in {1, 2} /\ DropTables(f, j)
<1>1. Lead(f) \in {0, 1} /\ (j <= Lead(f) => Lead(f) = 1)
  BY StatementBounds
<1>2. f \in Copying /\ j <= Lead(f) => f \in Shared
  BY <1>1 DEF Lead
<1>3. f \in Kept \cup Dropping => f \in Altering \ Copying
  BY Constants
<1>4. f \notin Altering => j \in {1, 2}
  BY StatementBounds
<1>5. QED
  BY <1>2, <1>3, <1>4 DEF Execute

LEMMA DropTablesFacts ==
    ASSUME TypeOK, NEW f \in Files \ Altering, NEW j \in {1, 2}, DropTables(f, j)
    PROVE  /\ schema' \in [Files -> {"absent", "part", "applied"}]
           /\ tables' \subseteq Tables /\ referenced' \subseteq Tables
           /\ changed' \subseteq Altering /\ shared' \subseteq Shared /\ copies' = copies
           /\ rows' \in [Tables -> SUBSET ({0} \cup Files)]
           /\ \A g \in Files \ {f} : schema'[g] = schema[g]
           /\ j = 2 => schema'[f] = "absent" /\ (f = 1 => tables' = {})
           /\ f # 1 => UNCHANGED <<tables, changed, shared, rows>>
           /\ \A t \in Tables : rows'[t] \in {rows[t], {0}}
<1>1. /\ schema \in [Files -> {"absent", "part", "applied"}]
      /\ tables \subseteq Tables /\ referenced \subseteq Tables
      /\ changed \subseteq Altering /\ shared \subseteq Shared
      /\ rows \in [Tables -> SUBSET ({0} \cup Files)]
  BY DEF TypeOK
<1>2. /\ schema' \in [Files -> {"absent", "part", "applied"}]
      /\ \A g \in Files \ {f} : schema'[g] = schema[g]
      /\ j = 2 => schema'[f] = "absent"
  BY <1>1 DEF DropTables
<1>3. CASE f = 1
  <2>1. PICK ts \in {{Users}, {}} : LeaveTables(ts) /\ (j = 2 => ts = {})
    BY <1>3 DEF DropTables
  <2>2. rows' \in [Tables -> SUBSET ({0} \cup Files)]
    BY <1>1, <2>1 DEF LeaveTables
  <2>3. \A t \in Tables : rows'[t] \in {rows[t], {0}}
    BY <1>1, <2>1 DEF LeaveTables
  <2>4. /\ tables' \subseteq Tables /\ referenced' \subseteq Tables
        /\ changed' \subseteq Altering /\ shared' \subseteq Shared
        /\ j = 2 => tables' = {}
    BY <1>1, <2>1 DEF LeaveTables
  <2>5. QED
    BY <1>2, <1>3, <2>2, <2>3, <2>4 DEF DropTables
<1>4. CASE f # 1
  BY <1>1, <1>2, <1>4 DEF DropTables
<1>5. QED
  BY <1>3, <1>4

LEMMA ExecuteTypes ==
    ASSUME TypeOK, NEW f \in Files, NEW j \in 1 .. Statements(f), Execute(f, j)
    PROVE  /\ schema' \in [Files -> {"absent", "part", "applied"}]
           /\ tables' \subseteq Tables /\ referenced' \subseteq Tables
           /\ changed' \subseteq Altering /\ shared' \subseteq Shared /\ copies' \subseteq Copying
           /\ rows' \in [Tables -> SUBSET ({0} \cup Files)]
<1>1. CASE f \in Copying /\ j <= Lead(f) /\ DropShared(f)
  BY <1>1 DEF TypeOK, DropShared
<1>2. CASE f \in Copying /\ Rebuild(f, j - Lead(f)) /\ UNCHANGED <<schema, shared, referenced>>
  BY <1>2, RebuildFacts DEF TypeOK
<1>3. CASE UNCHANGED database \/ AddAgain(f)
  BY <1>3 DEF TypeOK, database, AddAgain
<1>4. CASE f \notin Altering /\ j \in {1, 2} /\ DropTables(f, j)
  BY <1>4, DropTablesFacts DEF TypeOK
<1>5. QED
  BY <1>1, <1>2, <1>3, <1>4, ExecuteCases

-----------------------------------------------------------------------------
(* Types are kept.                                                         *)
LEMMA Counts ==
    ASSUME TypeOK
    PROVE  /\ Overlap => overlaps' \in 0 .. MaxOverlaps
           /\ Slip => slips' \in 0 .. MaxSlips
BY Constants DEF TypeOK, Overlap, Slip

LEMMA TypeStep ==
    ASSUME TypeOK, [Next]_vars
    PROVE  TypeOK'
<1>1. CASE UNCHANGED vars
  BY <1>1 DEF TypeOK, vars
<1>2. ASSUME NEW r \in Runners, StartUp(r)
      PROVE  TypeOK'
  BY <1>2, StartUpFacts, Counts DEF TypeOK, StartUp, Moves, database, history
<1>3. ASSUME NEW r \in Runners, Look(r)
      PROVE  TypeOK'
  <2>1. runs' \in [Runners -> Local]
    BY <1>3, LookFacts DEF Moves
  <2>2. QED
    BY <1>3, <2>1 DEF TypeOK, Look, database, history
<1>4. ASSUME NEW r \in Runners, Apply(r)
      PROVE  TypeOK'
  <2>1. /\ runs' \in [Runners -> Local]
        /\ schema' \in [Files -> {"absent", "part", "applied"}]
        /\ tables' \subseteq Tables /\ changed' \subseteq Altering /\ shared' \subseteq Shared
    BY <1>4, ApplyFacts, UpFacts DEF Moves
  <2>2. QED
    BY <1>4, <2>1 DEF TypeOK, Apply, history
<1>5. ASSUME NEW r \in Runners, ApplyFails(r)
      PROVE  TypeOK'
  <2>1. runs' \in [Runners -> Local]
    BY <1>5, ApplyFailsFacts DEF Moves
  <2>2. slips' \in 0 .. MaxSlips
    BY <1>5, Counts DEF ApplyFails, TypeOK
  <2>3. QED
    BY <1>5, <2>1, <2>2 DEF TypeOK, ApplyFails, database, history
<1>6. ASSUME NEW r \in Runners, Probe(r)
      PROVE  TypeOK'
  <2>1. runs' \in [Runners -> Local]
    BY <1>6, ProbeFacts DEF Moves
  <2>2. QED
    BY <1>6, <2>1 DEF TypeOK, Probe, database, history
<1>7. ASSUME NEW r \in Runners, Record(r)
      PROVE  TypeOK'
  <2>1. runs' \in [Runners -> Local] /\ recorded' \subseteq Files
    BY <1>7, RecordFacts DEF Moves, TypeOK
  <2>2. QED
    BY <1>7, <2>1 DEF TypeOK, Record, history, database
<1>8. ASSUME NEW r \in Runners, StartDown(r)
      PROVE  TypeOK'
  <2>1. runs' \in [Runners -> Local] /\ downs' \in 0 .. MaxDowns
    BY <1>8, StartDownFacts DEF Moves
  <2>2. QED
    BY <1>8, <2>1, Counts DEF TypeOK, StartDown, database, history
<1>9. ASSUME NEW r \in Runners, LookBack(r)
      PROVE  TypeOK'
  <2>1. runs' \in [Runners -> Local]
    BY <1>9, LookBackFacts DEF Moves
  <2>2. torn' \subseteq Files /\ again' \subseteq Tables
    <3>1. PICK f : f = runs[r].at
      OBVIOUS
    <3>2. \/ UNCHANGED <<torn, again>>
          \/ /\ f \in Files /\ torn' = torn \cup {f}
             /\ again' = again \cup {t \in Drops(f) : Broken(t)}
      BY <1>9, <3>1, LookBackFacts
    <3>3. torn \subseteq Files /\ again \subseteq Tables /\ Drops(f) \subseteq Tables
      BY DEF TypeOK, Drops
    <3>4. QED
      BY <3>2, <3>3
  <2>3. QED
    BY <1>9, <2>1, <2>2 DEF TypeOK, LookBack, database
<1>10. ASSUME NEW r \in Runners, Undo(r)
       PROVE  TypeOK'
  <2>1. runs' \in [Runners -> Local]
    BY <1>10, UndoFacts DEF Moves
  <2>2. /\ schema' \in [Files -> {"absent", "part", "applied"}]
        /\ tables' \subseteq Tables /\ referenced' \subseteq Tables
        /\ changed' \subseteq Altering /\ shared' \subseteq Shared /\ copies' \subseteq Copying
        /\ rows' \in [Tables -> SUBSET ({0} \cup Files)]
    BY <1>10, UndoFacts, ExecuteTypes
  <2>3. QED
    BY <1>10, <2>1, <2>2 DEF TypeOK, Undo, history
<1>11. ASSUME NEW r \in Runners, UndoFails(r)
       PROVE  TypeOK'
  <2>1. runs' \in [Runners -> Local] /\ torn' \subseteq Files
    BY <1>11, UndoFailsFacts DEF Moves, TypeOK
  <2>2. slips' \in 0 .. MaxSlips
    BY <1>11, Counts DEF UndoFails, TypeOK
  <2>3. QED
    BY <1>11, <2>1, <2>2 DEF TypeOK, UndoFails, database
<1>12. ASSUME NEW r \in Runners, Forget(r)
       PROVE  TypeOK'
  <2>1. /\ runs' \in [Runners -> Local]
        /\ recorded' \subseteq Files /\ torn' \subseteq Files
    BY <1>12, ForgetFacts DEF Moves, TypeOK
  <2>2. QED
    BY <1>12, <2>1 DEF TypeOK, Forget, database
<1>13. ASSUME NEW r \in Runners, Die(r)
       PROVE  TypeOK'
  <2>1. runs' \in [Runners -> Local]
    BY <1>13, DieFacts DEF Moves
  <2>2. torn' \subseteq Files /\ orphaned' \subseteq Files
    BY <1>13, DieFacts DEF TypeOK, Die
  <2>3. QED
    BY <1>13, <2>1, <2>2, Counts DEF TypeOK, Die, database
<1>14. ASSUME NEW t \in Tables, Refer(t)
       PROVE  TypeOK'
  BY <1>14 DEF TypeOK, Refer, history
<1>15. QED
  BY <1>1, <1>2, <1>3, <1>4, <1>5, <1>6, <1>7, <1>8, <1>9, <1>10, <1>11, <1>12, <1>13, <1>14
  DEF Next, UpStep, DownStep

-----------------------------------------------------------------------------
(* Runs that do not overlap.                                               *)
LEMMA AloneAfter ==
    ASSUME Alone, overlaps = 0, NEW r \in Runners, NEW m, Moves(r, m),
           runs[r] # Idle \/ \A q \in Runners : runs[q] = Idle,
           m # Idle => RelyOn(m)'
    PROVE  Alone'
<1>1. \A q \in Runners \ {r} : runs'[q] = Idle
  BY DEF Alone, Moves
<1>2. runs'[r] = m
  BY DEF Moves
<1>3. \A q \in Runners : runs'[q] # Idle => q = r
  BY <1>1
<1>4. \A q \in Runners : runs'[q] # Idle => runs'[q] = m
  BY <1>2, <1>3
<1>5. (\A q \in Runners : runs[q] # Idle => RelyOn(runs[q]))'
  BY <1>4 DEF RelyOn, Committed, Undone
<1>6. QED
  BY <1>3, <1>5 DEF Alone

LEMMA OverlapsOnly ==
    ASSUME TypeOK, [Next]_vars, overlaps' = 0
    PROVE  overlaps = 0
<1>1. overlaps \in Nat
  BY Constants DEF TypeOK
<1>2. Overlap => overlaps = 0
  BY <1>1 DEF Overlap
<1>3. QED
  BY <1>2 DEF Next, vars, UpStep, DownStep, StartUp, Look, Apply, ApplyFails, Probe, Record,
     StartDown, LookBack, Undo, UndoFails, Forget, Die, Refer

(* A rollback that was begun stays begun.                                  *)
LEMMA StillBroken ==
    ASSUME torn \subseteq torn', NEW t, Broken(t)
    PROVE  Broken(t)'
BY DEF Broken

(* The ledger stays true of a schema in which nothing that is recorded,    *)
(* and not being rolled back, is undone.                                   *)
LEMMA LedgerStays ==
    ASSUME TypeOK, LedgerIsTrue, overlaps = 0, recorded' = recorded, torn \subseteq torn',
           \A f \in recorded \ torn : f \notin Altering => schema'[f] = schema[f],
           \A f \in recorded \ torn : f \in shared => f \in shared',
           \A f \in recorded \ torn : f \in changed => f \in changed' \/ Broken(Table[f])',
           recorded # {} => \A t \in tables : t \in tables' \/ Broken(t)'
    PROVE  LedgerIsTrue'
<1>1. /\ \A f \in recorded : 1 .. f \subseteq recorded
      /\ \A f \in recorded \ torn : InPlace(f)
      /\ recorded # {} => \A t \in Tables : t \in tables \/ Broken(t)
  BY DEF LedgerIsTrue
<1>2. ASSUME NEW f \in recorded' \ torn'
      PROVE  InPlace(f)'
  <2>1. f \in recorded \ torn /\ InPlace(f)
    BY <1>1, <1>2
  <2>2. Broken(Table[f]) => Broken(Table[f])'
    BY StillBroken
  <2>3. CASE f \in Altering
    BY <2>1, <2>2, <2>3 DEF InPlace
  <2>4. CASE f \notin Altering
    BY <2>1, <2>4 DEF InPlace
  <2>5. QED
    BY <2>3, <2>4
<1>3. recorded' # {} => \A t \in Tables : t \in tables' \/ Broken(t)'
  BY <1>1, StillBroken
<1>4. QED
  BY <1>1, <1>2, <1>3 DEF LedgerIsTrue

LEMMA WholeStays ==
    ASSUME Whole, overlaps = 0, recorded' = recorded,
           \A f \in Files \ recorded : schema'[f] = schema[f],
           1 \notin recorded => tables' = tables
    PROVE  Whole'
BY Constants DEF Whole

LEMMA NothingChanges ==
    ASSUME TypeOK, LedgerIsTrue, Whole, overlaps = 0, UNCHANGED recorded, torn \subseteq torn',
           UNCHANGED <<schema, tables, changed, shared>>
    PROVE  LedgerIsTrue' /\ Whole'
<1>1. LedgerIsTrue'
  BY LedgerStays
<1>2. QED
  BY <1>1, WholeStays

(* The last statement of a down block has undone the file.                 *)
LEMMA UndoneAtLast ==
    ASSUME TypeOK, NEW f \in Files, NEW j \in 1 .. Statements(f), Execute(f, j),
           j = Statements(f)
    PROVE  Undone(f)'
<1>1. CASE f \in Copying
  <2>1. j = Lead(f) + 5 /\ Lead(f) \in {0, 1} /\ f \in Altering /\ f # 1
    BY <1>1, StatementBounds, Constants
  <2>2. j - Lead(f) = 5 /\ ~(j <= Lead(f))
    BY <2>1
  <2>3. Rebuild(f, j - Lead(f))
    BY <1>1, <2>1, <2>2, ExecuteCases
  <2>4. QED
    BY <1>1, <2>1, <2>2, <2>3, RebuildFacts DEF Undone
<1>2. CASE f \in Altering \ Copying
  BY <1>2, Constants DEF Undone
<1>3. CASE f \notin Altering
  <2>1. j = 2 /\ DropTables(f, j)
    BY <1>3, StatementBounds, ExecuteCases, Constants
  <2>2. QED
    BY <1>3, <2>1, DropTablesFacts, Constants DEF Undone
<1>4. QED
  BY <1>1, <1>2, <1>3

(* A statement of a down block spares what is recorded before.             *)
LEMMA UndoSpares ==
    ASSUME TypeOK, NEW f \in torn \cap recorded, recorded \subseteq 1 .. f,
           NEW j \in 1 .. Statements(f), Execute(f, j),
           UNCHANGED <<recorded, torn>>, LedgerIsTrue, Whole, overlaps = 0
    PROVE  LedgerIsTrue' /\ Whole'
<1>0. f \in Files /\ 1 \in recorded
  <2>1. f \in Files /\ 1 .. f \subseteq recorded
    BY DEF TypeOK, LedgerIsTrue
  <2>2. QED
    BY <2>1, Constants
<1>br. \A t \in Drops(f) : Broken(t)'
  BY DEF Broken
<1>dr. /\ f = 1 => Drops(f) = Tables
       /\ f \in Copying => Table[f] \in Drops(f)
  BY Constants, <1>0 DEF Drops
<1>ty. tables \subseteq Tables /\ changed \subseteq Altering
  BY DEF TypeOK
<1>1. CASE f \in Copying /\ DropShared(f)
  <2>1. UNCHANGED <<schema, tables, changed>> /\ \A g \in shared : g \in shared' \/ g = f
    BY <1>1 DEF DropShared
  <2>2. LedgerIsTrue'
    BY <2>1, LedgerStays
  <2>3. QED
    BY <2>1, <2>2, WholeStays
<1>2. CASE f \in Copying /\ Rebuild(f, j - Lead(f)) /\ UNCHANGED <<schema, shared, referenced>>
  <2>1. /\ \A t \in Tables \ {Table[f]} : t \in tables => t \in tables'
        /\ \A g \in changed : Table[g] # Table[f] => g \in changed'
    BY <1>2, RebuildFacts
  <2>2. Broken(Table[f])'
    BY <1>2, <1>br, <1>dr
  <2>3. \A t \in tables : t \in tables' \/ Broken(t)'
    BY <1>ty, <2>1, <2>2
  <2>4. \A g \in changed : g \in changed' \/ Broken(Table[g])'
    BY <2>1, <2>2
  <2>5. LedgerIsTrue'
    BY <1>2, <2>3, <2>4, LedgerStays
  <2>6. QED
    BY <1>0, <1>2, <2>5, WholeStays
<1>3. CASE UNCHANGED database
  BY <1>3, NothingChanges DEF database
<1>4. CASE f \in Altering /\ AddAgain(f)
  <2>1. UNCHANGED <<schema, tables, shared>> /\ \A g \in changed : g \in changed' \/ g = f
    BY <1>4 DEF AddAgain
  <2>2. LedgerIsTrue'
    BY <2>1, LedgerStays
  <2>3. QED
    BY <2>1, <2>2, WholeStays
<1>5. CASE f \notin Altering /\ j \in {1, 2} /\ DropTables(f, j)
  <2>1. /\ \A g \in Files \ {f} : schema'[g] = schema[g]
        /\ f # 1 => UNCHANGED <<tables, changed, shared>>
    BY <1>0, <1>5, DropTablesFacts
  <2>2. f = 1 => recorded \ torn = {} /\ \A t \in Tables : Broken(t)'
    BY <1>br, <1>dr
  <2>3. \A g \in recorded \ torn : g \in Files \ {f}
    BY DEF TypeOK
  <2>4. LedgerIsTrue'
    BY <1>ty, <2>1, <2>2, <2>3, LedgerStays
  <2>5. \A g \in Files \ recorded : schema'[g] = schema[g]
    BY <2>1
  <2>6. QED
    BY <1>0, <2>4, <2>5, WholeStays
<1>6. QED
  BY <1>0, <1>1, <1>2, <1>3, <1>4, <1>5, ExecuteCases


(* Deleting the record of the last file leaves a true ledger.              *)
LEMMA ForgetKeeps ==
    ASSUME TypeOK, LedgerIsTrue, Whole, overlaps = 0, NEW f \in Files, Undone(f),
           UNCHANGED <<schema, tables, changed, shared>>,
           recorded' = recorded \ {f}, torn' = torn \ {f}, recorded' \subseteq 1 .. f - 1
    PROVE  LedgerIsTrue' /\ Whole'
<1>le. /\ \A g \in recorded : 1 .. g \subseteq recorded
       /\ \A g \in recorded \ torn : InPlace(g)
       /\ recorded # {} => \A t \in Tables : t \in tables \/ Broken(t)
  BY DEF LedgerIsTrue
<1>1. ASSUME NEW t, Broken(t)
      PROVE  Broken(t)' \/ t \in Drops(f)
  BY <1>1 DEF Broken
<1>2. ASSUME NEW g \in recorded'
      PROVE  g \in Files /\ g < f /\ f # 1 /\ 1 .. g \subseteq recorded'
  <2>1. g \in recorded /\ g \in Files /\ g \in 1 .. f - 1 /\ f \in Nat
    BY <1>2, Constants DEF TypeOK
  <2>2. 1 .. g \subseteq recorded /\ f \notin 1 .. g
    BY <1>le, <2>1
  <2>3. QED
    BY <2>1, <2>2
<1>3. f # 1 => \A t \in Drops(f) : f \in Copying /\ t = Table[f] /\ t \in tables
  BY DEF Drops, Undone
<1>4. ASSUME NEW g \in recorded' \ torn'
      PROVE  InPlace(g)'
  <2>1. g \in recorded \ torn /\ InPlace(g) /\ g \in Files /\ g < f /\ f # 1
    BY <1>le, <1>2, <1>4
  <2>2. ASSUME g \in Altering, Broken(Table[g]), ~Broken(Table[g])'
        PROVE  g \in changed
    <3>1. Table[g] \in Drops(f)
      BY <1>1, <2>2
    <3>2. f \in Copying /\ Table[f] = Table[g] /\ g \in On(Table[f])
      BY <1>3, <2>1, <2>2, <3>1 DEF On
    <3>3. QED
      BY <2>1, <3>2 DEF Undone
  <2>3. QED
    BY <2>1, <2>2 DEF InPlace
<1>5. ASSUME recorded' # {}
      PROVE  \A t \in Tables : t \in tables' \/ Broken(t)'
  <2>1. f # 1 /\ recorded # {}
    BY <1>2, <1>5
  <2>2. QED
    BY <1>1, <1>3, <1>le, <2>1
<1>6. LedgerIsTrue'
  BY <1>2, <1>4, <1>5 DEF LedgerIsTrue
<1>7. Whole'
  <2>1. \A g \in Files \ (recorded' \cup Altering) : schema'[g] # "part"
    BY DEF Whole, Undone
  <2>2. 1 \notin recorded' => IF schema'[1] = "absent" THEN tables' = {} ELSE tables' = Tables
    BY Constants DEF Whole, Undone
  <2>3. QED
    BY <2>1, <2>2 DEF Whole
<1>8. QED
  BY <1>6, <1>7

LEMMA AloneStep ==
    ASSUME TypeOK, Alone, LedgerIsTrue, Whole, [Next]_vars, overlaps' = 0
    PROVE  Alone' /\ LedgerIsTrue' /\ Whole'
<1>ov. overlaps = 0
  BY OverlapsOnly
<1>le. /\ \A f \in recorded : 1 .. f \subseteq recorded
       /\ \A f \in recorded \ torn : InPlace(f)
       /\ recorded # {} => \A t \in Tables : t \in tables \/ Broken(t)
  BY <1>ov DEF LedgerIsTrue
<1>wh. /\ \A f \in Files \ (recorded \cup Altering) : schema[f] # "part"
       /\ 1 \notin recorded => IF schema[1] = "absent" THEN tables = {} ELSE tables = Tables
  BY <1>ov DEF Whole
<1>re. \A r \in Runners : runs[r] # Idle => RelyOn(runs[r])
  BY <1>ov DEF Alone
<1>id. Idle.step = "idle"
  BY DEF Idle
<1>al. Overlap => \A r \in Runners : runs[r] = Idle
  BY <1>ov DEF Overlap
<1>1. CASE UNCHANGED vars
  <2>1. Alone'
    BY <1>1 DEF vars, Alone, RelyOn, Committed, Undone
  <2>2. QED
    BY <1>1, <1>ov, <2>1, NothingChanges DEF vars
<1>2. ASSUME NEW r \in Runners, StartUp(r)
      PROVE  Alone' /\ LedgerIsTrue' /\ Whole'
  <2>1. LedgerIsTrue' /\ Whole'
    BY <1>2, <1>ov, NothingChanges DEF StartUp, database, history
  <2>2. \A q \in Runners : runs[q] = Idle
    BY <1>2, <1>al DEF StartUp
  <2>3. RelyOn([step |-> "look", at |-> 1])'
    BY DEF RelyOn
  <2>4. Moves(r, [step |-> "look", at |-> 1])
    BY <1>2, StartUpFacts
  <2>5. QED
    BY <1>ov, <2>1, <2>2, <2>3, <2>4, AloneAfter
<1>3. ASSUME NEW r \in Runners, Look(r)
      PROVE  Alone' /\ LedgerIsTrue' /\ Whole'
  <2>1. PICK f : f = runs[r].at
    OBVIOUS
  <2>2. runs[r].step = "look" /\ f \in 1 .. NFiles + 1
    BY <1>3, <2>1, LookFacts
  <2>3. UNCHANGED <<schema, tables, changed, shared, recorded, torn>>
    BY <1>3 DEF Look, database, history
  <2>4. LedgerIsTrue' /\ Whole'
    BY <1>ov, <2>3, NothingChanges
  <2>5. runs[r] # Idle /\ 1 .. f - 1 \subseteq recorded
    BY <1>id, <1>re, <2>1, <2>2 DEF RelyOn
  <2>6. CASE Moves(r, Idle)
    BY <1>ov, <2>4, <2>5, <2>6, AloneAfter
  <2>7. CASE f \in recorded /\ f \in Files /\ Moves(r, [step |-> "look", at |-> f + 1])
    <3>1. 1 .. (f + 1) - 1 \subseteq recorded
      BY <1>le, <2>2, <2>7, Constants
    <3>2. RelyOn([step |-> "look", at |-> f + 1])'
      BY <2>3, <3>1 DEF RelyOn
    <3>3. QED
      BY <1>ov, <2>4, <2>5, <2>7, <3>2, AloneAfter
  <2>8. CASE f \in Files \ recorded /\ Moves(r, [step |-> "apply", at |-> f])
    <3>1. RelyOn([step |-> "apply", at |-> f])'
      BY <2>3, <2>5, <2>8 DEF RelyOn
    <3>2. QED
      BY <1>ov, <2>4, <2>5, <2>8, <3>1, AloneAfter
  <2>9. QED
    BY <1>3, <2>1, <2>6, <2>7, <2>8, LookFacts
<1>4. ASSUME NEW r \in Runners, Apply(r)
      PROVE  Alone' /\ LedgerIsTrue' /\ Whole'
  <2>1. PICK f : f = runs[r].at
    OBVIOUS
  <2>2. /\ f \in Files /\ runs[r].step = "apply" /\ Moves(r, [step |-> "record", at |-> f])
        /\ IF f \in Altering THEN Alter(f) ELSE CreateTables(f)
    BY <1>4, <2>1, ApplyFacts
  <2>3. UNCHANGED <<recorded, torn>>
    BY <1>4 DEF Apply, history
  <2>4. runs[r] # Idle /\ RelyOn(runs[r])
    BY <2>2, <1>id, <1>re
  <2>5. 1 .. f - 1 \subseteq recorded /\ f \notin recorded
    BY <2>1, <2>2, <2>4 DEF RelyOn
  <2>6. \A g \in recorded : g \in Files /\ g # f /\ ~(g > f)
    <3>1. ASSUME NEW g \in recorded, g > f
          PROVE  FALSE
      <4>1. g \in Nat /\ f \in 1 .. g
        BY <2>2, <3>1, Constants DEF TypeOK, Files
      <4>2. QED
        BY <1>le, <2>5, <3>1, <4>1
    <3>2. QED
      BY <2>5, <3>1 DEF TypeOK
  <2>7. /\ tables \subseteq tables' /\ shared \subseteq shared'
        /\ \A g \in Files \ {f} : schema'[g] = schema[g]
        /\ \A g \in changed : g \in changed' \/ g > f
        /\ f # 1 => tables' = tables
        /\ Committed(f)'
    BY <2>2, UpFacts
  <2>8. LedgerIsTrue'
    BY <1>ov, <2>3, <2>6, <2>7, LedgerStays
  <2>9. Whole'
    <3>1. \A g \in Files \ (recorded' \cup Altering) : schema'[g] # "part"
      <4>1. ASSUME NEW g \in Files \ (recorded \cup Altering)
            PROVE  schema'[g] # "part"
        <5>1. CASE g = f
          BY <2>7, <4>1, <5>1 DEF Committed
        <5>2. CASE g # f
          BY <1>wh, <2>7, <4>1, <5>2
        <5>3. QED
          BY <5>1, <5>2
      <4>2. QED
        BY <2>3, <4>1
    <3>2. 1 \notin recorded' => IF schema'[1] = "absent" THEN tables' = {} ELSE tables' = Tables
      <4>1. CASE f = 1
        BY <2>7, <4>1, Constants DEF Committed
      <4>2. CASE f # 1
        BY <1>wh, <2>3, <2>7, <4>2, Constants
      <4>3. QED
        BY <4>1, <4>2
    <3>3. QED
      BY <3>1, <3>2 DEF Whole
  <2>10. RelyOn([step |-> "record", at |-> f])'
    BY <2>3, <2>5, <2>7 DEF RelyOn
  <2>11. QED
    BY <1>ov, <2>2, <2>4, <2>8, <2>9, <2>10, AloneAfter
<1>5. ASSUME NEW r \in Runners, ApplyFails(r)
      PROVE  Alone' /\ LedgerIsTrue' /\ Whole'
  <2>1. PICK f : f = runs[r].at
    OBVIOUS
  <2>2. /\ runs[r].step = "apply" /\ f \in Files /\ Moves(r, [step |-> "probe", at |-> f])
    BY <1>5, <2>1, ApplyFailsFacts
  <2>3. UNCHANGED <<schema, tables, changed, shared, recorded, torn>>
    BY <1>5 DEF ApplyFails, database, history
  <2>4. LedgerIsTrue' /\ Whole'
    BY <1>ov, <2>3, NothingChanges
  <2>5. runs[r] # Idle /\ RelyOn(runs[r])
    BY <2>2, <1>id, <1>re
  <2>6. RelyOn([step |-> "probe", at |-> f])'
    BY <2>1, <2>2, <2>3, <2>5 DEF RelyOn
  <2>7. QED
    BY <1>ov, <2>2, <2>4, <2>5, <2>6, AloneAfter
<1>6. ASSUME NEW r \in Runners, Probe(r)
      PROVE  Alone' /\ LedgerIsTrue' /\ Whole'
  <2>1. PICK f : f = runs[r].at
    OBVIOUS
  <2>2. runs[r].step = "probe" /\ f \in Files
    BY <1>6, <2>1, ProbeFacts
  <2>3. UNCHANGED <<schema, tables, changed, shared, recorded, torn>>
    BY <1>6 DEF Probe, database, history
  <2>4. LedgerIsTrue' /\ Whole'
    BY <1>ov, <2>3, NothingChanges
  <2>5. runs[r] # Idle /\ RelyOn(runs[r])
    BY <2>2, <1>id, <1>re
  <2>6. 1 .. f - 1 \subseteq recorded /\ f \notin recorded
    BY <2>1, <2>2, <2>5 DEF RelyOn
  <2>7. CASE Moves(r, Idle)
    BY <1>ov, <2>4, <2>5, <2>7, AloneAfter
  <2>8. CASE LooksApplied(f) /\ Moves(r, [step |-> "record", at |-> f])
    <3>1. f \in Altering => f \in Columns /\ f \in changed /\ (f \in Shared => f \in shared)
      BY <2>8, Constants DEF LooksApplied
    <3>2. f \notin Altering => schema[f] # "part" /\ schema[f] # "absent"
      <4>1. CASE f = 1
        BY <1>wh, <2>2, <2>6, <2>8, <4>1, Constants DEF LooksApplied
      <4>2. CASE f # 1
        BY <1>wh, <2>2, <2>6, <2>8, <4>2, Constants DEF LooksApplied
      <4>3. QED
        BY <4>1, <4>2
    <3>3. f \notin Altering => schema[f] = "applied"
      BY <2>2, <3>2 DEF TypeOK
    <3>4. f = 1 => tables = Tables
      BY <1>wh, <2>6, <3>3, Constants
    <3>5. Committed(f)'
      BY <2>3, <3>1, <3>3, <3>4 DEF Committed
    <3>6. RelyOn([step |-> "record", at |-> f])'
      BY <2>3, <2>6, <3>5 DEF RelyOn
    <3>7. QED
      BY <1>ov, <2>4, <2>5, <2>8, <3>6, AloneAfter
  <2>9. QED
    BY <1>6, <2>1, <2>7, <2>8, ProbeFacts
<1>7. ASSUME NEW r \in Runners, Record(r)
      PROVE  Alone' /\ LedgerIsTrue' /\ Whole'
  <2>1. PICK f : f = runs[r].at
    OBVIOUS
  <2>2. /\ f \in Files /\ runs[r].step = "record" /\ recorded' = recorded \cup {f}
        /\ Moves(r, [step |-> "look", at |-> f + 1])
    BY <1>7, <2>1, RecordFacts
  <2>3. UNCHANGED <<schema, tables, changed, shared, torn>>
    BY <1>7 DEF Record, database, history
  <2>4. runs[r] # Idle /\ RelyOn(runs[r])
    BY <2>2, <1>id, <1>re
  <2>5. 1 .. f - 1 \subseteq recorded /\ Committed(f)
    BY <2>1, <2>2, <2>4 DEF RelyOn
  <2>6. 1 .. f \subseteq recorded' /\ (f + 1) - 1 = f
    BY <2>2, <2>5, Constants
  <2>7. LedgerIsTrue'
    <3>1. \A g \in recorded' : 1 .. g \subseteq recorded'
      BY <1>le, <2>2, <2>6
    <3>2. \A t : Broken(t)' <=> Broken(t)
      BY <2>3 DEF Broken
    <3>3. ASSUME NEW g \in recorded' \ torn'
          PROVE  InPlace(g)'
      <4>1. CASE g = f
        BY <2>3, <2>5, <4>1 DEF InPlace, Committed
      <4>2. CASE g # f
        <5>1. InPlace(g)
          BY <1>le, <2>2, <2>3, <3>3, <4>2
        <5>2. QED
          BY <2>3, <3>2, <5>1 DEF InPlace
      <4>3. QED
        BY <4>1, <4>2
    <3>4. \A t \in Tables : t \in tables' \/ Broken(t)'
      <4>1. CASE f = 1
        BY <2>3, <2>5, <4>1 DEF Committed
      <4>2. CASE f # 1
        <5>1. 1 \in 1 .. f - 1
          BY <2>2, <4>2, Constants DEF Files
        <5>2. QED
          BY <1>le, <2>3, <2>5, <3>2, <5>1
      <4>3. QED
        BY <4>1, <4>2
    <3>5. QED
      BY <3>1, <3>3, <3>4 DEF LedgerIsTrue
  <2>8. Whole'
    BY <1>wh, <2>2, <2>3 DEF Whole
  <2>9. RelyOn([step |-> "look", at |-> f + 1])'
    BY <2>6 DEF RelyOn
  <2>10. QED
    BY <1>ov, <2>2, <2>4, <2>7, <2>8, <2>9, AloneAfter
<1>8. ASSUME NEW r \in Runners, StartDown(r)
      PROVE  Alone' /\ LedgerIsTrue' /\ Whole'
  <2>1. UNCHANGED <<schema, tables, changed, shared, recorded, torn>>
    BY <1>8 DEF StartDown, database, history
  <2>2. LedgerIsTrue' /\ Whole'
    BY <1>ov, <2>1, NothingChanges
  <2>3. \A q \in Runners : runs[q] = Idle
    BY <1>8, <1>al DEF StartDown
  <2>4. PICK all \in BOOLEAN : Moves(r, [step |-> "back", at |-> NFiles, all |-> all])
    BY <1>8, StartDownFacts
  <2>5. RelyOn([step |-> "back", at |-> NFiles, all |-> all])'
    BY <2>1 DEF RelyOn, TypeOK, Files
  <2>6. QED
    BY <1>ov, <2>2, <2>3, <2>4, <2>5, AloneAfter
<1>9. ASSUME NEW r \in Runners, LookBack(r)
      PROVE  Alone' /\ LedgerIsTrue' /\ Whole'
  <2>1. PICK f, all : f = runs[r].at /\ all = runs[r].all
    OBVIOUS
  <2>2. runs[r].step = "back" /\ f \in 0 .. NFiles
    BY <1>9, <2>1, LookBackFacts
  <2>3. UNCHANGED <<schema, tables, changed, shared, recorded>> /\ torn \subseteq torn'
    BY <1>9, LookBackFacts DEF LookBack, database
  <2>4. LedgerIsTrue' /\ Whole'
    BY <1>ov, <2>3, NothingChanges
  <2>5. runs[r] # Idle /\ RelyOn(runs[r])
    BY <2>2, <1>id, <1>re
  <2>6. recorded \subseteq 1 .. f
    BY <2>1, <2>2, <2>5 DEF RelyOn
  <2>7. CASE Moves(r, Idle)
    BY <1>ov, <2>4, <2>5, <2>7, AloneAfter
  <2>8. CASE /\ f \in Files \ recorded
             /\ Moves(r, [step |-> "back", at |-> f - 1, all |-> all])
    <3>1. recorded \subseteq 1 .. f - 1
      BY <2>6, <2>8, Constants
    <3>2. RelyOn([step |-> "back", at |-> f - 1, all |-> all])'
      BY <2>3, <3>1 DEF RelyOn
    <3>3. QED
      BY <1>ov, <2>4, <2>5, <2>8, <3>2, AloneAfter
  <2>9. CASE /\ f \in recorded /\ f \in Files /\ torn' = torn \cup {f}
             /\ Moves(r, [step |-> "undo", at |-> f, all |-> all, statement |-> 1])
    <3>1. 1 # Statements(f) + 1
      BY <2>9, StatementBounds DEF MostStatements
    <3>2. RelyOn([step |-> "undo", at |-> f, all |-> all, statement |-> 1])'
      BY <2>3, <2>6, <2>9, <3>1 DEF RelyOn
    <3>3. QED
      BY <1>ov, <2>4, <2>5, <2>9, <3>2, AloneAfter
  <2>10. QED
    BY <1>9, <2>1, <2>7, <2>8, <2>9, LookBackFacts
<1>10. ASSUME NEW r \in Runners, Undo(r)
       PROVE  Alone' /\ LedgerIsTrue' /\ Whole'
  <2>1. PICK f, j, m : f = runs[r].at /\ j = runs[r].statement /\ m = runs'[r]
    OBVIOUS
  <2>2. /\ f \in Files /\ runs[r].step = "undo" /\ j \in 1 .. Statements(f) /\ Execute(f, j)
        /\ Moves(r, m) /\ m.step = "undo" /\ m.at = f /\ m.statement = j + 1
    BY <1>10, <2>1, UndoFacts
  <2>3. UNCHANGED <<recorded, torn>>
    BY <1>10 DEF Undo, history
  <2>4. runs[r] # Idle /\ RelyOn(runs[r])
    BY <2>2, <1>id, <1>re
  <2>5. recorded \subseteq 1 .. f /\ f \in torn \cap recorded
    BY <2>1, <2>2, <2>4 DEF RelyOn
  <2>6. LedgerIsTrue' /\ Whole'
    BY <1>ov, <2>2, <2>3, <2>5, UndoSpares
  <2>7. m.statement = Statements(f) + 1 => Undone(f)'
    <3>1. j \in Nat /\ Statements(f) \in Nat
      BY <2>2, StatementBounds
    <3>2. QED
      BY <2>2, <3>1, UndoneAtLast
  <2>8. RelyOn(m)'
    BY <2>2, <2>3, <2>5, <2>7 DEF RelyOn
  <2>9. QED
    BY <1>ov, <2>2, <2>4, <2>6, <2>8, AloneAfter
<1>11. ASSUME NEW r \in Runners, UndoFails(r)
       PROVE  Alone' /\ LedgerIsTrue' /\ Whole'
  <2>1. /\ runs[r].step = "undo" /\ Moves(r, Idle) /\ torn \subseteq torn'
        /\ UNCHANGED <<schema, tables, changed, shared, recorded>>
    BY <1>11, UndoFailsFacts DEF UndoFails, database
  <2>2. LedgerIsTrue' /\ Whole'
    BY <1>ov, <2>1, NothingChanges
  <2>3. runs[r] # Idle
    BY <1>id, <2>1
  <2>4. QED
    BY <1>ov, <2>1, <2>2, <2>3, AloneAfter
<1>12. ASSUME NEW r \in Runners, Forget(r)
       PROVE  Alone' /\ LedgerIsTrue' /\ Whole'
  <2>1. PICK f : f = runs[r].at
    OBVIOUS
  <2>2. /\ f \in Files /\ runs[r].step = "undo" /\ runs[r].statement = Statements(f) + 1
        /\ recorded' = recorded \ {f} /\ torn' = torn \ {f}
    BY <1>12, <2>1, ForgetFacts
  <2>3. UNCHANGED <<schema, tables, changed, shared>>
    BY <1>12 DEF Forget, database
  <2>4. runs[r] # Idle /\ RelyOn(runs[r])
    BY <2>2, <1>id, <1>re
  <2>5. recorded \subseteq 1 .. f /\ f \in torn \cap recorded /\ Undone(f)
    BY <2>1, <2>2, <2>4 DEF RelyOn
  <2>6. recorded' \subseteq 1 .. f - 1 /\ f \notin recorded'
    BY <2>2, <2>5, Constants
  <2>7. LedgerIsTrue' /\ Whole'
    BY <1>ov, <2>2, <2>3, <2>5, <2>6, ForgetKeeps
  <2>8. CASE Moves(r, Idle)
    BY <1>ov, <2>4, <2>7, <2>8, AloneAfter
  <2>9. CASE Moves(r, [step |-> "back", at |-> f - 1, all |-> TRUE])
    <3>1. RelyOn([step |-> "back", at |-> f - 1, all |-> TRUE])'
      BY <2>6 DEF RelyOn
    <3>2. QED
      BY <1>ov, <2>4, <2>7, <2>9, <3>1, AloneAfter
  <2>10. QED
    BY <1>12, <2>1, <2>8, <2>9, ForgetFacts
<1>13. ASSUME NEW r \in Runners, Die(r)
       PROVE  Alone' /\ LedgerIsTrue' /\ Whole'
  <2>1. /\ runs[r] # Idle /\ Moves(r, Idle) /\ torn \subseteq torn'
        /\ UNCHANGED <<schema, tables, changed, shared, recorded>>
    BY <1>13, DieFacts DEF Die, database
  <2>2. LedgerIsTrue' /\ Whole'
    BY <1>ov, <2>1, NothingChanges
  <2>3. QED
    BY <1>ov, <2>1, <2>2, AloneAfter
<1>14. ASSUME NEW t \in Tables, Refer(t)
       PROVE  Alone' /\ LedgerIsTrue' /\ Whole'
  <2>1. UNCHANGED <<schema, tables, changed, shared, recorded, torn, runs, overlaps>>
    BY <1>14 DEF Refer, history
  <2>2. Alone'
    BY <2>1 DEF Alone, RelyOn, Committed, Undone
  <2>3. QED
    BY <1>ov, <2>1, <2>2, NothingChanges
<1>15. QED
  BY <1>1, <1>2, <1>3, <1>4, <1>5, <1>6, <1>7, <1>8, <1>9, <1>10, <1>11, <1>12, <1>13, <1>14
  DEF Next, UpStep, DownStep

-----------------------------------------------------------------------------
(* The rows of a table that is copied.                                     *)
LEMMA RowsAtFacts ==
    ASSUME NEW f \in Files
    PROVE  /\ \A j : RowsAt(f, j) # {}
           /\ RowsAt(f, 1) = {0} /\ RowsAt(f, Statements(f) + 1) = {0}
           /\ f \notin Copying => \A j : RowsAt(f, j) = {0}
BY StatementBounds DEF RowsAt

(* A step that at most ends a rollback, and says so, leaves them be.       *)
LEMMA FewerUndo ==
    ASSUME NEW t \in Tables, RowsFollowOf(t), rows' = rows, torn \subseteq torn',
           \A f \in torn' : t \in Drops(f) => f \in torn,
           \A q \in Runners : runs'[q].step = "undo" => runs'[q] = runs[q]
    PROVE  RowsFollowOf(t)'
<1>1. \A q \in Runners : UndoAt(q, t)' => UndoAt(q, t) /\ runs'[q] = runs[q]
  BY DEF UndoAt, Drops
<1>2. \A f : (t \in Drops(f))' <=> t \in Drops(f)
  BY DEF Drops
<1>3. Broken(t) => Broken(t)'
  BY DEF Broken, Drops
<1>4. (\A f, g \in torn : t \in Drops(f) /\ t \in Drops(g) => f = g)'
  BY <1>2 DEF RowsFollowOf
<1>5. \A q \in Runners : UndoAt(q, t)' =>
         /\ runs'[q].at \in torn' /\ rows'[t] = RowsAt(runs[q].at, runs[q].statement)'
         /\ \A r \in Runners : UndoAt(r, t)' => q = r
  BY <1>1 DEF RowsFollowOf, RowsAt
<1>6. QED
  BY <1>3, <1>4, <1>5 DEF RowsFollowOf

(* A run that does not undo moves to where it does not undo.               *)
LEMMA NoUndoMoves ==
    ASSUME NEW r \in Runners, NEW m, Moves(r, m), m.step # "undo"
    PROVE  \A q \in Runners : runs'[q].step = "undo" => runs'[q] = runs[q]
BY DEF Moves

(* A rollback of a file that drops the table begins where nobody is.       *)
LEMMA RowsLookBack ==
    ASSUME TypeOK, NEW t \in Tables, RowsFollowOf(t), NEW r \in Runners, LookBack(r),
           t \notin again'
    PROVE  RowsFollowOf(t)' /\ rows' = rows
<1>1. PICK f, all : f = runs[r].at /\ all = runs[r].all
  OBVIOUS
<1>2. rows' = rows /\ runs[r].step = "back"
  BY DEF LookBack, database
<1>3. CASE Moves(r, Idle) /\ torn' = torn
  BY <1>2, <1>3, FewerUndo, NoUndoMoves DEF Idle
<1>4. CASE Moves(r, [step |-> "back", at |-> f - 1, all |-> all]) /\ torn' = torn
  BY <1>2, <1>4, FewerUndo, NoUndoMoves
<1>5. CASE /\ f \in Files
           /\ Moves(r, [step |-> "undo", at |-> f, all |-> all, statement |-> 1])
           /\ torn' = torn \cup {f}
           /\ again' = again \cup {s \in Drops(f) : Broken(s)}
  <2>1. /\ runs'[r].step = "undo" /\ runs'[r].at = f /\ runs'[r].statement = 1
        /\ \A q \in Runners \ {r} : runs'[q] = runs[q]
    BY <1>5 DEF Moves
  <2>2. t \in Drops(f) => ~Broken(t)
    BY <1>5
  <2>3. \A q \in Runners : UndoAt(q, t) => Broken(t)
    BY DEF UndoAt, Broken, RowsFollowOf
  <2>4. \A q \in Runners : UndoAt(q, t)' <=> IF q = r THEN t \in Drops(f) ELSE UndoAt(q, t)
    BY <2>1 DEF UndoAt, Drops
  <2>5. (\A h, g \in torn : t \in Drops(h) /\ t \in Drops(g) => h = g)'
    <3>1. ASSUME NEW h \in torn', NEW g \in torn', t \in Drops(h), t \in Drops(g)
          PROVE  h = g
      BY <1>5, <2>2, <3>1 DEF RowsFollowOf, Broken
    <3>2. QED
      BY <3>1 DEF Drops
  <2>6. ~Broken(t)' => rows'[t] = {0}
    <3>1. Broken(t) => Broken(t)'
      BY <1>5, StillBroken
    <3>2. QED
      BY <1>2, <3>1 DEF RowsFollowOf
  <2>7. ASSUME NEW q \in Runners, UndoAt(q, t)'
        PROVE  /\ runs'[q].at \in torn'
               /\ rows'[t] = RowsAt(runs[q].at, runs[q].statement)'
               /\ \A p \in Runners : UndoAt(p, t)' => p = q
    <3>1. CASE q = r
      <4>1. t \in Drops(f) /\ ~Broken(t) /\ rows[t] = {0}
        BY <2>2, <2>4, <2>7, <3>1 DEF RowsFollowOf
      <4>2. rows'[t] = RowsAt(f, 1)
        BY <1>2, <1>5, <4>1, RowsAtFacts
      <4>3. rows'[t] = RowsAt(runs[q].at, runs[q].statement)'
        BY <2>1, <3>1, <4>2 DEF RowsAt
      <4>4. \A p \in Runners : UndoAt(p, t)' => p = q
        BY <2>3, <2>4, <3>1, <4>1
      <4>5. QED
        BY <1>5, <2>1, <3>1, <4>3, <4>4
    <3>2. CASE q # r
      <4>1. UndoAt(q, t) /\ runs'[q] = runs[q] /\ t \notin Drops(f)
        BY <2>1, <2>2, <2>3, <2>4, <2>7, <3>2
      <4>2. \A p \in Runners : UndoAt(p, t)' => p = q
        BY <2>4, <4>1 DEF RowsFollowOf
      <4>3. QED
        BY <1>2, <1>5, <4>1, <4>2 DEF RowsFollowOf, RowsAt
    <3>3. QED
      BY <3>1, <3>2
  <2>8. QED
    BY <1>2, <2>5, <2>6, <2>7 DEF RowsFollowOf
<1>6. QED
  BY <1>1, <1>3, <1>4, <1>5, LookBackFacts

(* What a statement of a down block does to the rows of a table.           *)
LEMMA RowsExecute ==
    ASSUME TypeOK, NEW f \in Files, NEW j \in 1 .. Statements(f), Execute(f, j),
           NEW t \in Tables
    PROVE  /\ t \notin Drops(f) => rows'[t] = rows[t]
           /\ t \in Drops(f) /\ rows[t] = RowsAt(f, j) => rows'[t] = RowsAt(f, j + 1)
<1>1. CASE f \in Copying /\ j <= Lead(f) /\ DropShared(f)
  <2>1. RowsAt(f, j) = {0} /\ RowsAt(f, j + 1) = {0}
    BY <1>1, StatementBounds DEF RowsAt
  <2>2. QED
    BY <1>1, <2>1 DEF DropShared
<1>2. CASE f \in Copying /\ j > Lead(f) /\ Rebuild(f, j - Lead(f))
  <2>1. /\ f # 1 /\ f # 0 /\ Table[f] \in Tables /\ Lead(f) \in {0, 1} /\ j \in Nat
        /\ rows \in [Tables -> SUBSET ({0} \cup Files)]
    BY <1>2, Constants, StatementBounds DEF TypeOK
  <2>2. t \in Drops(f) <=> t = Table[f]
    BY <1>2, <2>1 DEF Drops
  <2>3. t # Table[f] => rows'[t] = rows[t]
    BY <1>2, RebuildFacts
  <2>4. ASSUME t = Table[f], rows[t] = RowsAt(f, j)
        PROVE  rows'[t] = RowsAt(f, j + 1)
    <3>0. \A rs : InRows(f, rs) => rows'[t] = rs
      BY <2>1, <2>4 DEF InRows
    <3>1. CASE j - Lead(f) = 1 /\ DropCopy(f)
      <4>1. rows'[t] = rows[t] \ {f}
        BY <2>4, <3>0, <3>1 DEF DropCopy
      <4>2. RowsAt(f, j) = {0} /\ RowsAt(f, j + 1) = {0}
        BY <1>2, <2>1, <3>1 DEF RowsAt
      <4>3. QED
        BY <2>1, <2>4, <4>1, <4>2
    <3>2. CASE j - Lead(f) = 2 /\ CreateCopy(f)
      BY <1>2, <2>1, <2>4, <3>2 DEF CreateCopy, RowsAt
    <3>3. CASE j - Lead(f) = 3 /\ FillCopy(f)
      <4>1. rows'[t] = rows[t] \cup IF 0 \in rows[t] THEN {f} ELSE {}
        BY <2>4, <3>0, <3>3 DEF FillCopy
      <4>2. RowsAt(f, j) = {0} /\ RowsAt(f, j + 1) = {0, f}
        BY <1>2, <2>1, <3>3 DEF RowsAt
      <4>3. QED
        BY <2>1, <2>4, <4>1, <4>2
    <3>4. CASE j - Lead(f) = 4 /\ DropTable(f)
      <4>1. rows'[t] = rows[t] \ {0}
        BY <2>4, <3>0, <3>4 DEF DropTable
      <4>2. RowsAt(f, j) = {0, f} /\ RowsAt(f, j + 1) = {f}
        BY <1>2, <2>1, <3>4 DEF RowsAt
      <4>3. QED
        BY <2>1, <2>4, <4>1, <4>2
    <3>5. CASE j - Lead(f) = 5 /\ RenameCopy(f)
      <4>1. rows'[t] = (rows[t] \ {f}) \cup IF f \in rows[t] THEN {0} ELSE {}
        BY <2>4, <3>0, <3>5 DEF RenameCopy
      <4>2. RowsAt(f, j) = {f} /\ RowsAt(f, j + 1) = {0}
        BY <1>2, <2>1, <3>5 DEF RowsAt
      <4>3. QED
        BY <2>1, <2>4, <4>1, <4>2
    <3>6. QED
      BY <1>2, <3>1, <3>2, <3>3, <3>4, <3>5 DEF Rebuild
  <2>5. QED
    BY <2>2, <2>3, <2>4
<1>3. CASE f \in Altering \ Copying /\ (UNCHANGED database \/ AddAgain(f))
  BY <1>3, Constants DEF Drops, database, AddAgain
<1>4. CASE f \notin Altering /\ j \in {1, 2} /\ DropTables(f, j)
  <2>1. /\ f # 1 => rows' = rows
        /\ rows'[t] \in {rows[t], {0}}
    BY <1>4, DropTablesFacts
  <2>2. f \notin Copying
    BY <1>4, Constants
  <2>3. t \notin Drops(f) => f # 1
    BY DEF Drops
  <2>4. QED
    BY <2>1, <2>2, <2>3, RowsAtFacts
<1>5. QED
  BY <1>1, <1>2, <1>3, <1>4, ExecuteCases

(* The next statement of a rollback.                                       *)
LEMMA RowsUndo ==
    ASSUME TypeOK, NEW t \in Tables, RowsFollowOf(t), NEW r \in Runners, Undo(r),
           rows[t] # {}
    PROVE  RowsFollowOf(t)' /\ rows'[t] # {}
<1>1. PICK f, j, m : f = runs[r].at /\ j = runs[r].statement /\ m = runs'[r]
  OBVIOUS
<1>2. /\ f \in Files /\ runs[r].step = "undo" /\ j \in 1 .. Statements(f) /\ Execute(f, j)
      /\ Moves(r, m) /\ m.step = "undo" /\ m.at = f /\ m.statement = j + 1
  BY <1>1, UndoFacts
<1>3. torn' = torn
  BY DEF Undo, history
<1>4. /\ \A q \in Runners \ {r} : runs'[q] = runs[q]
      /\ \A q \in Runners : UndoAt(q, t)' <=> UndoAt(q, t)
  BY <1>1, <1>2 DEF Moves, UndoAt, Drops
<1>5. UndoAt(r, t) <=> t \in Drops(f)
  BY <1>1, <1>2 DEF UndoAt
<1>6. Broken(t)' <=> Broken(t)
  BY <1>3 DEF Broken, Drops
<1>7. (\A h, g \in torn : t \in Drops(h) /\ t \in Drops(g) => h = g)'
  BY <1>3 DEF RowsFollowOf, Drops
<1>8. \A q \in Runners : UndoAt(q, t)' =>
         runs'[q].at \in torn' /\ \A p \in Runners : UndoAt(p, t)' => q = p
  BY <1>1, <1>2, <1>3, <1>4 DEF RowsFollowOf
<1>9. CASE t \in Drops(f)
  <2>1. rows[t] = RowsAt(f, j) /\ f \in torn
    BY <1>1, <1>5, <1>9 DEF RowsFollowOf
  <2>2. rows'[t] = RowsAt(f, j + 1)
    BY <1>2, <1>9, <2>1, RowsExecute
  <2>3. \A q \in Runners : UndoAt(q, t)' => rows'[t] = RowsAt(runs[q].at, runs[q].statement)'
    <3>1. \A q \in Runners : UndoAt(q, t)' => q = r
      BY <1>4, <1>5, <1>9 DEF RowsFollowOf
    <3>2. QED
      BY <1>1, <1>2, <2>2, <3>1 DEF RowsAt
  <2>4. Broken(t)'
    BY <1>6, <1>9, <2>1 DEF Broken
  <2>5. rows'[t] # {}
    BY <1>2, <2>2, RowsAtFacts
  <2>6. QED
    BY <1>7, <1>8, <2>3, <2>4, <2>5 DEF RowsFollowOf
<1>10. CASE t \notin Drops(f)
  <2>1. rows'[t] = rows[t]
    BY <1>2, <1>10, RowsExecute
  <2>2. \A q \in Runners : UndoAt(q, t)' => rows'[t] = RowsAt(runs[q].at, runs[q].statement)'
    <3>1. \A q \in Runners : UndoAt(q, t)' => UndoAt(q, t) /\ runs'[q] = runs[q]
      BY <1>4, <1>5, <1>10
    <3>2. QED
      BY <2>1, <3>1 DEF RowsFollowOf, RowsAt
  <2>3. ~Broken(t)' => rows'[t] = {0}
    BY <1>6, <2>1 DEF RowsFollowOf
  <2>4. QED
    BY <1>7, <1>8, <2>1, <2>2, <2>3 DEF RowsFollowOf
<1>11. QED
  BY <1>9, <1>10

(* A rollback ends, and the file counts as rolled back.                    *)
LEMMA RowsForget ==
    ASSUME TypeOK, NEW t \in Tables, RowsFollowOf(t), NEW r \in Runners, Forget(r)
    PROVE  RowsFollowOf(t)' /\ rows' = rows
<1>1. PICK f : f = runs[r].at
  OBVIOUS
<1>2. /\ f \in Files /\ runs[r].step = "undo" /\ runs[r].statement = Statements(f) + 1
      /\ torn' = torn \ {f} /\ rows' = rows
  BY <1>1, ForgetFacts DEF Forget, database
<1>3. \/ Moves(r, Idle)
      \/ Moves(r, [step |-> "back", at |-> f - 1, all |-> TRUE])
  BY <1>1, ForgetFacts
<1>4. \A q \in Runners : runs'[q].step = "undo" => q # r /\ runs'[q] = runs[q]
  BY <1>3 DEF Moves, Idle
<1>5. UndoAt(r, t) <=> t \in Drops(f)
  BY <1>1, <1>2 DEF UndoAt
<1>6. \A q \in Runners : UndoAt(q, t)' => UndoAt(q, t) /\ q # r /\ runs'[q] = runs[q]
  BY <1>4 DEF UndoAt, Drops
<1>7. (\A h, g \in torn : t \in Drops(h) /\ t \in Drops(g) => h = g)'
  BY <1>2 DEF RowsFollowOf, Drops
<1>8. ASSUME NEW q \in Runners, UndoAt(q, t)'
      PROVE  /\ runs'[q].at \in torn' /\ \A p \in Runners : UndoAt(p, t)' => q = p
             /\ rows'[t] = RowsAt(runs[q].at, runs[q].statement)'
  <2>1. UndoAt(q, t) /\ q # r /\ runs'[q] = runs[q] /\ runs[q].at \in torn
    BY <1>6, <1>8 DEF RowsFollowOf
  <2>2. runs[q].at # f
    <3>1. runs[q].at = f => UndoAt(r, t)
      BY <1>5, <2>1 DEF UndoAt
    <3>2. QED
      BY <2>1, <3>1 DEF RowsFollowOf
  <2>3. QED
    BY <1>2, <1>6, <2>1, <2>2 DEF RowsFollowOf, RowsAt
<1>9. ~Broken(t)' => rows'[t] = {0}
  <2>1. CASE t \in Drops(f)
    BY <1>1, <1>2, <1>5, <2>1, RowsAtFacts DEF RowsFollowOf
  <2>2. CASE t \notin Drops(f)
    <3>1. Broken(t) => Broken(t)'
      BY <1>2, <2>2 DEF Broken, Drops
    <3>2. QED
      BY <1>2, <3>1 DEF RowsFollowOf
  <2>3. QED
    BY <2>1, <2>2
<1>10. QED
  BY <1>2, <1>7, <1>8, <1>9 DEF RowsFollowOf

LEMMA RowsStep ==
    ASSUME TypeOK, RowsFollow, RowsKept, [Next]_vars
    PROVE  RowsFollow' /\ RowsKept'
<1> SUFFICES ASSUME NEW t \in Tables, t \notin again'
             PROVE  RowsFollowOf(t)' /\ rows'[t] # {}
  BY DEF RowsFollow, RowsKept
<1>1. again \subseteq again'
  <2>1. ASSUME NEW r \in Runners, LookBack(r)
        PROVE  again \subseteq again'
    BY <2>1 DEF LookBack
  <2>2. QED
    BY <2>1 DEF Next, vars, history, UpStep, DownStep, StartUp, Look, Apply, ApplyFails,
       Probe, Record, StartDown, Undo, UndoFails, Forget, Die, Refer
<1>2. RowsFollowOf(t) /\ rows[t] # {}
  BY <1>1 DEF RowsFollow, RowsKept
<1>3. CASE UNCHANGED vars
  BY <1>2, <1>3, FewerUndo DEF vars
<1>4. ASSUME NEW r \in Runners, StartUp(r) \/ UpStep(r) \/ StartDown(r)
      PROVE  RowsFollowOf(t)' /\ rows'[t] # {}
  <2>1. rows' = rows /\ torn' = torn
    BY <1>4 DEF UpStep, StartUp, Look, Apply, ApplyFails, Probe, Record, StartDown,
       database, history
  <2>2. PICK f : f = runs[r].at
    OBVIOUS
  <2>3. \/ Moves(r, Idle)
        \/ Moves(r, [step |-> "look", at |-> 1])
        \/ Moves(r, [step |-> "look", at |-> f + 1])
        \/ \E step \in {"apply", "probe", "record"} : Moves(r, [step |-> step, at |-> f])
        \/ \E all \in BOOLEAN : Moves(r, [step |-> "back", at |-> NFiles, all |-> all])
    <3>1. CASE StartUp(r)
      BY <3>1, StartUpFacts
    <3>2. CASE Look(r)
      BY <2>2, <3>2, LookFacts
    <3>3. CASE Apply(r)
      BY <2>2, <3>3, ApplyFacts
    <3>4. CASE ApplyFails(r)
      BY <2>2, <3>4, ApplyFailsFacts
    <3>5. CASE Probe(r)
      BY <2>2, <3>5, ProbeFacts
    <3>6. CASE Record(r)
      BY <2>2, <3>6, RecordFacts
    <3>7. CASE StartDown(r)
      BY <3>7, StartDownFacts
    <3>8. QED
      BY <1>4, <3>1, <3>2, <3>3, <3>4, <3>5, <3>6, <3>7 DEF UpStep
  <2>4. \A q \in Runners : runs'[q].step = "undo" => runs'[q] = runs[q]
    <3>1. CASE Moves(r, Idle) \/ Moves(r, [step |-> "look", at |-> 1])
               \/ Moves(r, [step |-> "look", at |-> f + 1])
      BY <3>1, NoUndoMoves DEF Idle
    <3>2. ASSUME NEW step \in {"apply", "probe", "record"},
                 Moves(r, [step |-> step, at |-> f])
          PROVE  \A q \in Runners : runs'[q].step = "undo" => runs'[q] = runs[q]
      <4>1. [step |-> step, at |-> f].step # "undo"
        OBVIOUS
      <4>2. QED
        BY <3>2, <4>1, NoUndoMoves
    <3>3. ASSUME NEW all, Moves(r, [step |-> "back", at |-> NFiles, all |-> all])
          PROVE  \A q \in Runners : runs'[q].step = "undo" => runs'[q] = runs[q]
      BY <3>3, NoUndoMoves
    <3>4. QED
      BY <2>3, <3>1, <3>2, <3>3
  <2>5. QED
    BY <1>2, <2>1, <2>4, FewerUndo
<1>5. ASSUME NEW r \in Runners, LookBack(r)
      PROVE  RowsFollowOf(t)' /\ rows'[t] # {}
  BY <1>2, <1>5, RowsLookBack
<1>6. ASSUME NEW r \in Runners, Undo(r)
      PROVE  RowsFollowOf(t)' /\ rows'[t] # {}
  BY <1>2, <1>6, RowsUndo
<1>7. ASSUME NEW r \in Runners, UndoFails(r) \/ Die(r)
      PROVE  RowsFollowOf(t)' /\ rows'[t] # {}
  <2>1. PICK f : f = runs[r].at
    OBVIOUS
  <2>2. /\ rows' = rows
        /\ torn' = torn \/ (torn' = torn \cup {f} /\ runs[r].step = "undo")
    BY <1>7, <2>1, UndoFailsFacts, DieFacts DEF UndoFails, Die, database
  <2>3. runs[r].step = "undo" /\ t \in Drops(f) => f \in torn
    BY <1>2, <2>1 DEF RowsFollowOf, UndoAt
  <2>4. torn \subseteq torn' /\ \A g \in torn' : t \in Drops(g) => g \in torn
    BY <2>2, <2>3
  <2>5. Moves(r, Idle) /\ Idle.step # "undo"
    BY <1>7, UndoFailsFacts, DieFacts DEF Idle
  <2>6. \A q \in Runners : runs'[q].step = "undo" => runs'[q] = runs[q]
    BY <2>5, NoUndoMoves
  <2>7. QED
    BY <1>2, <2>2, <2>4, <2>6, FewerUndo
<1>8. ASSUME NEW r \in Runners, Forget(r)
      PROVE  RowsFollowOf(t)' /\ rows'[t] # {}
  BY <1>2, <1>8, RowsForget
<1>9. ASSUME NEW s \in Tables, Refer(s)
      PROVE  RowsFollowOf(t)' /\ rows'[t] # {}
  <2>1. rows' = rows /\ torn' = torn /\ runs' = runs
    BY <1>9 DEF Refer, history
  <2>2. QED
    BY <1>2, <2>1, FewerUndo
<1>10. QED
  BY <1>3, <1>4, <1>5, <1>6, <1>7, <1>8, <1>9 DEF Next, DownStep

-----------------------------------------------------------------------------
LEMMA Initially == Init => IInv
<1> SUFFICES ASSUME Init
             PROVE  IInv
  OBVIOUS
<1>1. \A r \in Runners : runs[r] = Idle /\ runs[r].step = "idle"
  BY DEF Init, Idle
<1>2. /\ schema \in [Files -> {"absent", "applied"}]
      /\ tables \subseteq Tables /\ changed \subseteq Altering /\ shared \subseteq Shared
      /\ IF schema[1] = "absent" THEN tables = {} ELSE tables = Tables
  BY Constants DEF Init
<1>3. TypeOK
  <2>1. rows \in [Tables -> SUBSET ({0} \cup Files)]
    BY DEF Init
  <2>2. runs \in [Runners -> Local]
    BY DEF Init, Local
  <2>3. /\ downs \in 0 .. MaxDowns
        /\ overlaps \in 0 .. MaxOverlaps /\ slips \in 0 .. MaxSlips
    BY Constants DEF Init
  <2>4. QED
    BY <1>2, <2>1, <2>2, <2>3 DEF TypeOK, Init
<1>4. Alone /\ LedgerIsTrue
  BY <1>1 DEF Alone, LedgerIsTrue, Init
<1>5. Whole
  BY <1>2 DEF Whole
<1>6. \A t \in Tables : rows[t] = {0}
  BY DEF Init
<1>7. torn = {}
  BY DEF Init
<1>8. RowsFollow /\ RowsKept
  BY <1>1, <1>6, <1>7 DEF RowsFollow, RowsFollowOf, RowsKept, UndoAt
<1>9. QED
  BY <1>3, <1>4, <1>5, <1>8 DEF IInv

LEMMA Inductive == IInv /\ [Next]_vars => IInv'
<1> SUFFICES ASSUME TypeOK, Alone, LedgerIsTrue, Whole, RowsFollow, RowsKept, [Next]_vars
             PROVE  IInv'
  BY DEF IInv
<1>1. TypeOK' /\ RowsFollow' /\ RowsKept'
  BY TypeStep, RowsStep
<1>2. CASE overlaps' = 0
  BY <1>1, <1>2, AloneStep DEF IInv
<1>3. CASE overlaps' # 0
  <2>1. Alone' /\ LedgerIsTrue' /\ Whole'
    BY <1>3 DEF Alone, LedgerIsTrue, Whole
  <2>2. QED
    BY <1>1, <2>1 DEF IInv
<1>4. QED
  BY <1>2, <1>3

LEMMA Always == Spec => []IInv
BY Initially, Inductive, PTL DEF Spec

(* The schema, the ledger and the runs stay what the program works with,   *)
(* and a rollback never passes the last statement of its down block.       *)
THEOREM MigrationsTypeCorrect == Spec => []TypeOK
<1>1. IInv => TypeOK
  BY DEF IInv
<1>2. QED
  BY <1>1, Always, PTL

(* schema_migrations tells the truth and has no gaps wherever a run died   *)
(* between the commit of a file and its record, or a file and its deletion, *)
(* for any number of files of any kind and runs that do not overlap.       *)
THEOREM LedgerIsTrueCorrect == Spec => []LedgerIsTrue
<1>1. IInv => LedgerIsTrue
  BY DEF IInv
<1>2. QED
  BY <1>1, Always, PTL

(* A rollback interrupted between any two statements keeps the rows of the *)
(* table it copies, whatever other runs do meanwhile, unless it was begun  *)
(* anew or met another at the same table.                                  *)
THEOREM RowsKeptCorrect == Spec => []RowsKept
<1>1. IInv => RowsKept
  BY DEF IInv
<1>2. QED
  BY <1>1, Always, PTL
===============================================================================

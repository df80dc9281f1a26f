-------------------------- MODULE MigrationsProofs --------------------------
(* Theorems about Migrations: however many runners there are, the schema   *)
(* goes through the files in order, each once.                             *)
EXTENDS Migrations, TLAPS

Working == {"sql", "record", "commit"}

(* What is recorded is what is done, and that is the first files.          *)
Prefix ==
  /\ Len(schema) <= Len(Files)
  /\ \A k \in 1..Len(schema) : schema[k] = Files[k]
  /\ recorded = {Files[k] : k \in 1..Len(schema)}

(* A runner may be behind the schema, never ahead of it.                   *)
NoneAhead ==
  \A r \in Runners :
    runner[r].step \in Working => First(runner[r].todo) <= Len(schema) + 1

(* No two runners have the same file's transaction open.                   *)
Exclusive ==
  \A q, r \in Runners :
    (q # r /\ runner[q].step \in {"record", "commit"}
           /\ runner[r].step \in {"record", "commit"}) => File(q) # File(r)

Unrecorded == \A r \in Runners : At(r, "commit") => File(r) \notin recorded

IInv ==
  /\ TypeOK /\ Prefix /\ NoneAhead /\ Exclusive /\ Unrecorded
  /\ DoneMeansUpToDate
-----------------------------------------------------------------------------
(* Files is a sequence without repetition, as a sorted directory is.       *)
LEMMA FilesInOrder ==
  /\ Len(Files) \in Nat
  /\ DOMAIN Files = Places
  /\ \A i \in Places : Files[i] \in FileSet
  /\ \A f \in FileSet : \E i \in Places : f = Files[i]
  /\ \A i, j \in Places : Files[i] = Files[j] => i = j
BY MigrationAssumption DEF MigrationAssumption, Places, FileSet, ToSet, IsInjective

(* The loop takes the files from the first place left over, and what then  *)
(* remains is the rest of them.                                            *)
LEMMA FirstIsLeast ==
  ASSUME NEW i \in Places
  PROVE  /\ First(i..Len(Files)) = i
         /\ (i..Len(Files)) \ {i} = (i + 1)..Len(Files)
<1>1. \A j \in Int, k \in Int : j <= k /\ k <= j => j = k
  OBVIOUS
<1>2. i \in i..Len(Files) /\ \A j \in i..Len(Files) : j \in Int /\ i <= j
  BY FilesInOrder DEF Places
<1>3. \A j : (j \in i..Len(Files) /\ \A k \in i..Len(Files) : j <= k) => j = i
  BY <1>1, <1>2
<1>4. First(i..Len(Files)) = i
  BY <1>2, <1>3 DEF First
<1>5. (i..Len(Files)) \ {i} = (i + 1)..Len(Files)
  BY FilesInOrder DEF Places
<1>. QED  BY <1>4, <1>5

(* Nothing is left exactly behind the last file.                           *)
LEMMA NothingLeft ==
  /\ {} \in Remainders
  /\ \A i \in 1..(Len(Files) + 1) : i..Len(Files) = {} <=> i = Len(Files) + 1
<1>1. \A i \in 1..(Len(Files) + 1) : i # Len(Files) + 1 => i \in i..Len(Files)
  BY FilesInOrder
<1>2. (Len(Files) + 1)..Len(Files) = {}
  BY FilesInOrder
<1>3. Len(Files) + 1 \in 1..(Len(Files) + 1)
  BY FilesInOrder
<1>. QED  BY <1>1, <1>2, <1>3 DEF Remainders

(* A runner at work has a place in Files that is the first it has left.    *)
LEMMA AtAPlace ==
  ASSUME TypeOK, NEW r \in Runners, runner[r].step \in Working
  PROVE  /\ First(runner[r].todo) \in Places
         /\ runner[r].todo = First(runner[r].todo)..Len(Files)
         /\ File(r) = Files[First(runner[r].todo)]
         /\ File(r) \in FileSet
<1>1. PICK i \in 1..(Len(Files) + 1) : runner[r].todo = i..Len(Files)
  BY DEF TypeOK, Remainders
<1>2. i \in Places
  BY <1>1, FilesInOrder DEF TypeOK, Working, Places
<1>. QED  BY <1>1, <1>2, FirstIsLeast, FilesInOrder DEF File

(* What is left of a remainder after its first file is a remainder.        *)
LEMMA RestIsRemainder ==
  ASSUME NEW i \in Places
  PROVE  (i..Len(Files)) \ {First(i..Len(Files))} \in Remainders
<1>1. (i..Len(Files)) \ {First(i..Len(Files))} = (i + 1)..Len(Files)
  BY FirstIsLeast
<1>2. i + 1 \in 1..(Len(Files) + 1)
  BY FilesInOrder DEF Places
<1>. QED  BY <1>1, <1>2 DEF Remainders

(* While the record is a prefix of the files, what a runner finds missing  *)
(* is the rest of them.                                                    *)
LEMMA MissingIsTheRest ==
  ASSUME Prefix, schema \in Seq(FileSet)
  PROVE  /\ Missing(recorded) = (Len(schema) + 1)..Len(Files)
         /\ Missing(recorded) \in Remainders
<1>1. Len(schema) \in Nat /\ Len(schema) <= Len(Files)
  BY DEF Prefix
<1>2. \A i \in Places : Files[i] \in recorded <=> i <= Len(schema)
  BY <1>1, FilesInOrder DEF Prefix, Places
<1>3. Missing(recorded) = (Len(schema) + 1)..Len(Files)
  BY <1>1, <1>2, FilesInOrder DEF Missing, Places
<1>. QED  BY <1>1, <1>3, FilesInOrder DEF Remainders

(* A runner about to commit a file nobody recorded commits the next one.   *)
LEMMA CommitsTheNext ==
  ASSUME IInv, NEW r \in Runners, At(r, "commit")
  PROVE  /\ First(runner[r].todo) = Len(schema) + 1
         /\ Len(schema) + 1 \in Places
         /\ File(r) = Files[Len(schema) + 1]
<1>1. runner[r].step \in Working
  BY DEF At, Working
<1>2. /\ First(runner[r].todo) \in Places
      /\ File(r) = Files[First(runner[r].todo)]
  BY <1>1, AtAPlace DEF IInv
<1>3. Len(schema) \in Nat /\ First(runner[r].todo) <= Len(schema) + 1
  BY <1>1 DEF IInv, TypeOK, NoneAhead
<1>4. ~(First(runner[r].todo) <= Len(schema))
  BY <1>2, <1>3 DEF IInv, Unrecorded, Prefix, Places
<1>5. First(runner[r].todo) = Len(schema) + 1
  BY <1>2, <1>3, <1>4, FilesInOrder DEF Places
<1>. QED  BY <1>2, <1>5
-----------------------------------------------------------------------------
(* A step of one runner that leaves the tables alone keeps the invariant,  *)
(* if the place it goes to agrees with it.                                 *)
LEMMA MovesKeep ==
  ASSUME IInv, NEW r \in Runners, NEW step \in Steps, NEW todo \in Remainders,
         Goto(r, step, todo), UNCHANGED <<schema, recorded>>,
         step \in Working => /\ todo # {}
                             /\ First(todo) <= Len(schema) + 1,
         step \in {"record", "commit"} =>
           \A q \in Runners \ {r} :
             runner[q].step \in {"record", "commit"} => File(q) # Files[First(todo)],
         step = "commit" => Files[First(todo)] \notin recorded,
         step = "done" => recorded = FileSet
  PROVE  IInv'
<1>. USE DEF IInv
<1>1. /\ runner \in [Runners -> [step: Steps, todo: Remainders]]
      /\ runner' = [runner EXCEPT ![r] = [step |-> step, todo |-> todo]]
      /\ schema' = schema /\ recorded' = recorded
  BY DEF TypeOK, Goto
<1>2. /\ runner'[r].step = step /\ runner'[r].todo = todo
      /\ \A q \in Runners \ {r} : runner'[q] = runner[q]
  BY <1>1
<1>3. /\ File(r)' = Files[First(todo)]
      /\ \A q \in Runners \ {r} : File(q)' = File(q)
  BY <1>2 DEF File
<1>4. TypeOK'
  <2>1. runner' \in [Runners -> [step: Steps, todo: Remainders]]
    BY <1>1
  <2>. QED  BY <1>1, <1>2, <2>1 DEF TypeOK, Working
<1>5. Prefix'
  BY <1>1 DEF Prefix
<1>6. NoneAhead'
  BY <1>1, <1>2 DEF NoneAhead
<1>7. Exclusive'
  BY <1>2, <1>3 DEF Exclusive
<1>8. Unrecorded'
  BY <1>1, <1>2, <1>3 DEF Unrecorded, At
<1>9. DoneMeansUpToDate'
  BY <1>1, <1>2 DEF DoneMeansUpToDate, At
<1>. QED  BY <1>4, <1>5, <1>6, <1>7, <1>8, <1>9

(* A COMMIT takes schema and record one file further.                      *)
LEMMA CommitAdvances ==
  ASSUME IInv, NEW r \in Runners, Commit(r)
  PROVE  /\ Len(schema) < Len(Files)
         /\ schema' = Append(schema, Files[Len(schema) + 1])
         /\ recorded' = recorded \cup {Files[Len(schema) + 1]}
         /\ schema' \in Seq(FileSet)
         /\ Len(schema') = Len(schema) + 1
         /\ Prefix'
<1>1. /\ Len(schema) + 1 \in Places
      /\ File(r) = Files[Len(schema) + 1]
  BY CommitsTheNext DEF Commit
<1>2. schema \in Seq(FileSet) /\ Len(schema) \in Nat
  BY DEF IInv, TypeOK
<1>3. /\ schema' = Append(schema, Files[Len(schema) + 1])
      /\ recorded' = recorded \cup {Files[Len(schema) + 1]}
  BY <1>1 DEF Commit
<1>4. Len(schema) < Len(Files)
  BY <1>1, <1>2, FilesInOrder DEF Places
<1>5. /\ schema' \in Seq(FileSet) /\ Len(schema') = Len(schema) + 1
      /\ \A k \in 1..Len(schema) : schema'[k] = schema[k]
      /\ schema'[Len(schema) + 1] = Files[Len(schema) + 1]
  BY <1>1, <1>2, <1>3, FilesInOrder
<1>6. Prefix'
  <2>1. \A k \in 1..Len(schema') : schema'[k] = Files[k]
    BY <1>2, <1>5 DEF IInv, Prefix
  <2>2. 1..Len(schema') = (1..Len(schema)) \cup {Len(schema) + 1}
    BY <1>2, <1>5
  <2>3. recorded' = {Files[k] : k \in 1..Len(schema')}
    BY <1>3, <2>2 DEF IInv, Prefix
  <2>. QED  BY <1>4, <1>2, <1>5, <2>1, <2>3, FilesInOrder DEF Prefix
<1>. QED  BY <1>3, <1>4, <1>5, <1>6

LEMMA AllRecorded ==
  ASSUME Prefix, Len(schema) = Len(Files)
  PROVE  recorded = FileSet
BY FilesInOrder DEF Prefix, Places, FileSet, ToSet

LEMMA CommitKeeps ==
  ASSUME IInv, NEW r \in Runners, Commit(r)
  PROVE  IInv'
<1>. DEFINE i == First(runner[r].todo)  rest == runner[r].todo \ {i}
<1>1. /\ schema \in Seq(FileSet) /\ Len(schema) \in Nat
      /\ runner \in [Runners -> [step: Steps, todo: Remainders]]
      /\ runner[r].step \in Working
  BY DEF IInv, TypeOK, Commit, At, Working
<1>2. i = Len(schema) + 1 /\ i \in Places
  BY CommitsTheNext DEF Commit
<1>3. rest = (i + 1)..Len(Files) /\ rest \in Remainders
  BY <1>1, <1>2, AtAPlace, FirstIsLeast, RestIsRemainder DEF IInv
<1>4. /\ rest = {} => i = Len(Files)
      /\ rest # {} => First(rest) = i + 1
  <2>1. i \in Nat /\ i + 1 \in 1..(Len(Files) + 1)
    BY <1>2, FilesInOrder DEF Places
  <2>2. rest = {} <=> i + 1 = Len(Files) + 1
    BY <1>3, <2>1, NothingLeft
  <2>3. rest # {} => i + 1 \in Places
    BY <2>1, <2>2, FilesInOrder DEF Places
  <2>4. rest = {} => i = Len(Files)
    BY <2>1, <2>2, FilesInOrder
  <2>5. rest # {} => First((i + 1)..Len(Files)) = i + 1
    BY <2>3, FirstIsLeast
  <2>. QED  BY <1>3, <2>4, <2>5
<1>5. /\ Len(schema') = Len(schema) + 1 /\ schema' \in Seq(FileSet) /\ Prefix'
      /\ recorded' = recorded \cup {File(r)} /\ recorded' \subseteq FileSet
  <2>1. recorded' = recorded \cup {File(r)} /\ File(r) \in FileSet
    BY <1>1, AtAPlace DEF Commit, IInv
  <2>. QED  BY <2>1, CommitAdvances DEF IInv, TypeOK
<1>6. rest = {} => recorded' = FileSet
  <2>1. rest = {} => Len(schema') = Len(Files)
    BY <1>2, <1>4, <1>5
  <2>2. (Prefix /\ Len(schema) = Len(Files) => recorded = FileSet)'
    BY AllRecorded, FilesInOrder DEF Prefix, Places, FileSet, ToSet
  <2>. QED  BY <1>5, <2>1, <2>2
<1>7. PICK step \in {"sql", "done", "failed"}, todo \in Remainders :
        /\ Goto(r, step, todo)
        /\ step = "sql" => todo = rest /\ rest # {}
        /\ step = "done" => rest = {}
  <2>1. {} \in Remainders
    BY NothingLeft
  <2>2. CASE Continue(r, rest) /\ rest = {}
    <3>1. Goto(r, "done", rest)
      BY <2>2 DEF Continue
    <3>. QED  BY <1>3, <2>2, <3>1
  <2>3. CASE Continue(r, rest) /\ rest # {}
    <3>1. Goto(r, "sql", rest)
      BY <2>3 DEF Continue
    <3>. QED  BY <1>3, <2>3, <3>1
  <2>4. CASE Fail(r)
    <3>1. Goto(r, "failed", {})
      BY <2>4 DEF Fail
    <3>. QED  BY <2>1, <3>1
  <2>. QED  BY <2>2, <2>3, <2>4 DEF Commit
<1>8. /\ runner' = [runner EXCEPT ![r] = [step |-> step, todo |-> todo]]
      /\ runner'[r] = [step |-> step, todo |-> todo]
      /\ \A q \in Runners \ {r} : runner'[q] = runner[q]
  BY <1>1, <1>7 DEF Goto
<1>9. \A q \in Runners \ {r} : File(q)' = File(q)
  BY <1>8 DEF File
<1>10. TypeOK'
  <2>1. runner' \in [Runners -> [step: Steps, todo: Remainders]]
    BY <1>1, <1>7, <1>8 DEF Steps
  <2>2. \A q \in Runners : runner'[q].step \in Working => runner'[q].todo # {}
    BY <1>7, <1>8 DEF IInv, TypeOK, Working
  <2>. QED  BY <1>5, <2>1, <2>2 DEF TypeOK, Working
<1>11. NoneAhead'
  <2>1. ASSUME NEW q \in Runners \ {r}, runner[q].step \in Working
        PROVE  First(runner[q].todo) <= Len(schema') + 1
    <3>1. First(runner[q].todo) \in Places
      BY <2>1, AtAPlace DEF IInv
    <3>2. First(runner[q].todo) <= Len(schema) + 1
      BY <2>1 DEF IInv, NoneAhead
    <3>. QED  BY <1>1, <1>5, <3>1, <3>2 DEF Places
  <2>2. runner'[r].step \in Working => First(runner'[r].todo) <= Len(schema') + 1
    <3>1. i \in Nat /\ Len(schema') + 1 = i + 1
      BY <1>1, <1>2, <1>5
    <3>2. runner'[r].step = step /\ runner'[r].todo = todo
      BY <1>8
    <3>3. step \in Working => First(todo) = i + 1
      BY <1>4, <1>7 DEF Working
    <3>. HIDE DEF i
    <3>. QED  BY <3>1, <3>2, <3>3
  <2>. QED  BY <1>8, <2>1, <2>2 DEF NoneAhead
<1>12. Exclusive'
  BY <1>7, <1>8, <1>9 DEF IInv, Exclusive
<1>13. Unrecorded'
  <2>1. \A q \in Runners \ {r} : At(q, "commit") => File(q) # File(r)
    BY DEF IInv, Exclusive, At, Commit
  <2>. QED  BY <1>5, <1>7, <1>8, <1>9, <2>1 DEF IInv, Unrecorded, At
<1>14. DoneMeansUpToDate'
  <2>1. (\E q \in Runners \ {r} : At(q, "done")) => recorded' = FileSet
    BY <1>5 DEF IInv, DoneMeansUpToDate
  <2>. QED  BY <1>6, <1>7, <1>8, <2>1 DEF DoneMeansUpToDate, At
<1>. QED  BY <1>5, <1>10, <1>11, <1>12, <1>13, <1>14 DEF IInv

LEMMA StepKeeps ==
  ASSUME IInv, NEW r \in Runners, Bootstrap(r) \/ Step(r) \/ Crash(r)
  PROVE  IInv'
<1>1. /\ {} \in Remainders
      /\ runner[r].todo \in Remainders
      /\ runner[r].step \in Working => /\ runner[r].todo # {}
                                       /\ First(runner[r].todo) <= Len(schema) + 1
  BY NothingLeft DEF IInv, TypeOK, NoneAhead, Working
<1>2. ASSUME Fail(r), UNCHANGED <<schema, recorded>>
      PROVE  IInv'
  BY <1>1, <1>2, MovesKeep DEF Fail, Steps, Working
<1>3. CASE Bootstrap(r)
  BY <1>1, <1>3, MovesKeep DEF Bootstrap, Steps, Working
<1>4. CASE ReadVersions(r)
  <2>. DEFINE todo == Missing(recorded)
  <2>1. schema \in Seq(FileSet) /\ Len(schema) \in Nat /\ Len(schema) <= Len(Files)
    BY DEF IInv, TypeOK, Prefix
  <2>2. todo = (Len(schema) + 1)..Len(Files) /\ todo \in Remainders
    BY <2>1, MissingIsTheRest DEF IInv
  <2>3. CASE todo = {}
    <3>1. Len(schema) = Len(Files)
      BY <2>1, <2>2, <2>3, NothingLeft, FilesInOrder
    <3>2. recorded = FileSet
      BY <3>1, AllRecorded DEF IInv
    <3>3. Goto(r, "done", {})
      BY <1>4, <2>3 DEF ReadVersions, Continue
    <3>. QED  BY <1>1, <1>4, <3>2, <3>3, MovesKeep DEF ReadVersions, Steps, Working
  <2>4. CASE todo # {}
    <3>1. First(todo) <= Len(schema) + 1
      <4>1. Len(schema) + 1 \in Places
        BY <2>1, <2>2, <2>4, NothingLeft, FilesInOrder DEF Places
      <4>. QED  BY <2>1, <2>2, <4>1, FirstIsLeast
    <3>2. Goto(r, "sql", todo)
      BY <1>4, <2>4 DEF ReadVersions, Continue
    <3>3. UNCHANGED <<schema, recorded>>
      BY <1>4 DEF ReadVersions
    <3>. HIDE DEF todo
    <3>. QED  BY <2>2, <2>4, <3>1, <3>2, <3>3, MovesKeep DEF Steps, Working
  <2>. QED  BY <2>3, <2>4
<1>5. CASE RunSql(r)
  <2>1. CASE Fails(File(r)) /\ Fail(r)
    BY <1>2, <1>5, <2>1 DEF RunSql
  <2>2. CASE Goto(r, "record", runner[r].todo)
    <3>1. \A q \in Runners \ {r} :
            runner[q].step \in {"record", "commit"} => File(q) # Files[First(runner[r].todo)]
      BY <1>5 DEF RunSql, Waits, File
    <3>. QED
      BY <1>1, <1>5, <2>2, <3>1, MovesKeep DEF RunSql, At, Steps, Working
  <2>. QED  BY <1>5, <2>1, <2>2 DEF RunSql
<1>6. CASE Record(r)
  <2>1. CASE File(r) \in recorded /\ Fail(r)
    BY <1>2, <1>6, <2>1 DEF Record
  <2>2. CASE File(r) \notin recorded /\ Goto(r, "commit", runner[r].todo)
    <3>1. \A q \in Runners \ {r} :
            runner[q].step \in {"record", "commit"} => File(q) # Files[First(runner[r].todo)]
      BY <1>6 DEF Record, At, IInv, Exclusive, File
    <3>. QED
      BY <1>1, <1>6, <2>2, <3>1, MovesKeep DEF Record, At, Steps, Working, File
  <2>. QED  BY <1>6, <2>1, <2>2 DEF Record
<1>7. CASE Commit(r)
  BY <1>7, CommitKeeps
<1>8. CASE Crash(r)
  BY <1>2, <1>8 DEF Crash
<1>. QED  BY <1>3, <1>4, <1>5, <1>6, <1>7, <1>8 DEF Step

LEMMA Inductive == IInv /\ [Next]_vars => IInv'
<1>. SUFFICES ASSUME IInv, [Next]_vars
              PROVE  IInv'
  OBVIOUS
<1>1. CASE UNCHANGED vars
  BY <1>1 DEF vars, IInv, TypeOK, Prefix, NoneAhead, Exclusive, Unrecorded,
              DoneMeansUpToDate, At, File
<1>. QED  BY <1>1, StepKeeps DEF Next

LEMMA Initially == Init => IInv
<1>. SUFFICES ASSUME Init
              PROVE  IInv
  OBVIOUS
<1>1. {} \in Remainders
  BY NothingLeft
<1>2. runner = [r \in Runners |-> Idle] /\ schema = <<>> /\ recorded = {}
  BY DEF Init
<1>3. TypeOK
  BY <1>1, <1>2 DEF TypeOK, Idle, Steps
<1>4. Prefix
  BY <1>2, FilesInOrder DEF Prefix
<1>. QED
  BY <1>2, <1>3, <1>4 DEF IInv, NoneAhead, Exclusive, Unrecorded, DoneMeansUpToDate,
                         At, Idle, Working

LEMMA Invariance == Spec => []IInv
BY Initially, Inductive, PTL DEF Spec
-----------------------------------------------------------------------------
(* At every moment a runner has the last files of the directory before it, *)
(* and the tables hold files only.                                         *)
THEOREM MigrationTypes == Spec => []TypeOK
<1>1. IInv => TypeOK
  BY DEF IInv
<1>. QED  BY <1>1, Invariance, PTL

(* A run that exits with 0 leaves no file undone, whoever did it.          *)
THEOREM DoneIsUpToDate == Spec => []DoneMeansUpToDate
<1>1. IInv => DoneMeansUpToDate
  BY DEF IInv
<1>. QED  BY <1>1, Invariance, PTL

(* What schema_migrations says was applied is what was: the first files,   *)
(* in order, and nothing else.                                             *)
THEOREM RecordTellsTheSchema == Spec => []Prefix
<1>1. IInv => Prefix
  BY DEF IInv
<1>. QED  BY <1>1, Invariance, PTL

(* ADR 0006: racing, failing and restarted runners take the schema through *)
(* the files one at a time, each once, together with its record.           *)
THEOREM FilesOneAtATime == Spec => OneFileAtATime
<1>. DEFINE Advance ==
       LET next == Files[Len(schema) + 1] IN
         /\ Len(schema) < Len(Files)
         /\ schema' = Append(schema, next)
         /\ recorded' = recorded \cup {next}
<1>1. IInv /\ [Next]_vars => [Advance]_<<schema, recorded>>
  <2>1. ASSUME IInv, NEW r \in Runners, Commit(r)
        PROVE  Advance
    BY <2>1, CommitAdvances
  <2>2. ASSUME NEW r \in Runners, Bootstrap(r) \/ ReadVersions(r) \/ RunSql(r)
                                    \/ Record(r) \/ Crash(r)
        PROVE  UNCHANGED <<schema, recorded>>
    BY <2>2 DEF Bootstrap, ReadVersions, RunSql, Record, Crash
  <2>. HIDE DEF Advance
  <2>. QED  BY <2>1, <2>2 DEF Next, Step, vars
<1>. QED  BY <1>1, Invariance, PTL DEF Spec, OneFileAtATime
=============================================================================

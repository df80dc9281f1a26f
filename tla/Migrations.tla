----------------------------- MODULE Migrations -----------------------------
(***************************************************************************)
(* The migration runner, run by any number of processes at once with no    *)
(* lock between them.  A runner reads which files are recorded, then runs  *)
(* each missing one in a transaction of its own: the file's SQL, the       *)
(* record, COMMIT; on any error ROLLBACK and exit.                         *)
(*                                                                         *)
(* What a file does to the schema is abstracted to its having been done;   *)
(* doing it again fails, because the type, column or constraint is already *)
(* there or already gone, except for the files in Repeatable (0005, 0006). *)
(***************************************************************************)
EXTENDS Naturals, Sequences, SequencesExt

CONSTANTS Files,       \* the .sql files, in the order of their names
          Repeatable,  \* those whose SQL succeeds again
          Runners

ASSUME MigrationAssumption ==
  /\ Files \in Seq(ToSet(Files))
  /\ IsInjective(Files)
  /\ Repeatable \subseteq ToSet(Files)

VARIABLES schema,    \* the files whose SQL is committed, in that order
          recorded,  \* the versions in schema_migrations
          runner     \* each runner: where it is, and the places in Files of the
                     \* files it still has to run

vars == <<schema, recorded, runner>>

FileSet == ToSet(Files)
Places == 1..Len(Files)
Remainders == {i..Len(Files) : i \in 1..(Len(Files) + 1)}
Steps == {"idle", "read", "sql", "record", "commit", "done", "failed"}

TypeOK ==
  /\ schema \in Seq(FileSet)
  /\ recorded \subseteq FileSet
  /\ runner \in [Runners -> [step: Steps, todo: Remainders]]
  /\ \A r \in Runners :
       runner[r].step \in {"sql", "record", "commit"} => runner[r].todo # {}

Idle == [step |-> "idle", todo |-> {}]

Init ==
  /\ schema = <<>>
  /\ recorded = {}
  /\ runner = [r \in Runners |-> Idle]

Goto(r, step, todo) == runner' = [runner EXCEPT ![r] = [step |-> step, todo |-> todo]]
At(r, step) == runner[r].step = step

(* The loop goes through the sorted files; a fault leaves the sort out.    *)
Unsorted(todo) == CHOOSE i \in todo : \A j \in todo : i >= j
First(todo) == CHOOSE i \in todo : \A j \in todo : i <= j
File(r) == Files[First(runner[r].todo)]

(* main rejects: what was open is rolled back, the process exits with 1.   *)
Fail(r) == Goto(r, "failed", {})
-----------------------------------------------------------------------------
(* Connect and CREATE TABLE IF NOT EXISTS schema_migrations. *)
Bootstrap(r) ==
  /\ runner[r].step \in {"idle", "done", "failed"}
  /\ Goto(r, "read", {})
  /\ UNCHANGED <<schema, recorded>>

(* Files read as applied are skipped; a fault skips the first one always.  *)
SkipFirst(applied) == {i \in Places : i > 1 /\ Files[i] \notin applied}
Missing(applied) == {i \in Places : Files[i] \notin applied}

Continue(r, todo) == Goto(r, IF todo = {} THEN "done" ELSE "sql", todo)

ReadVersions(r) ==
  /\ At(r, "read")
  /\ Continue(r, Missing(recorded))
  /\ UNCHANGED <<schema, recorded>>

(* The file's SQL waits for another runner's open transaction on the same  *)
(* objects.                                                                *)
Waits(r) == \E q \in Runners \ {r} : /\ runner[q].step \in {"record", "commit"}
                                     /\ File(q) = File(r)
Fails(f) == f \in ToSet(schema) /\ f \notin Repeatable

(* A fault: no BEGIN, so that the SQL commits by itself. *)
RunSqlAtOnce(r) ==
  /\ At(r, "sql")
  /\ ~Waits(r)
  /\ \/ Fails(File(r)) /\ Fail(r) /\ UNCHANGED schema
     \/ /\ ~Fails(File(r))
        /\ schema' = Append(schema, File(r))
        /\ Goto(r, "record", runner[r].todo)
  /\ UNCHANGED recorded

RunSql(r) ==
  /\ At(r, "sql")
  /\ ~Waits(r)
  /\ \/ Fails(File(r)) /\ Fail(r)
     \/ ~Fails(File(r)) /\ Goto(r, "record", runner[r].todo)
  /\ UNCHANGED <<schema, recorded>>

(* INSERT INTO schema_migrations: version is the primary key.  A fault:    *)
(* the runner throws, but its open connection keeps the process alive.     *)
RecordOrHang(r) ==
  /\ At(r, "record")
  /\ File(r) \notin recorded
  /\ Goto(r, "commit", runner[r].todo)
  /\ UNCHANGED <<schema, recorded>>

Record(r) ==
  /\ At(r, "record")
  /\ \/ File(r) \in recorded /\ Fail(r)
     \/ File(r) \notin recorded /\ Goto(r, "commit", runner[r].todo)
  /\ UNCHANGED <<schema, recorded>>

(* The acknowledgement of a COMMIT may be lost. *)
Commit(r) ==
  /\ At(r, "commit")
  /\ schema' = Append(schema, File(r))
  /\ recorded' = recorded \cup {File(r)}
  /\ Continue(r, runner[r].todo \ {First(runner[r].todo)}) \/ Fail(r)

(* A statement fails for a reason of its own, or the process is killed.    *)
Crash(r) ==
  /\ runner[r].step \in {"read", "sql", "record", "commit"}
  /\ Fail(r)
  /\ UNCHANGED <<schema, recorded>>

Step(r) == ReadVersions(r) \/ RunSql(r) \/ Record(r) \/ Commit(r)

Next == \E r \in Runners : Bootstrap(r) \/ Step(r) \/ Crash(r)

Spec == Init /\ [][Next]_vars

(* A lock goes to the statement that has waited longest: an SQL that could *)
(* run again and again does.                                               *)
FairSpec == Spec /\ \A r \in Runners : WF_vars(Step(r)) /\ SF_vars(RunSql(r))
-----------------------------------------------------------------------------
(* ADR 0006: incremental, deterministic, each migration in a transaction.  *)
(* Whatever the runners do, the schema goes through the files in order,    *)
(* each once, and a file is recorded in the step that does it.             *)
OneFileAtATime ==
  [][LET next == Files[Len(schema) + 1] IN
       /\ Len(schema) < Len(Files)
       /\ schema' = Append(schema, next)
       /\ recorded' = recorded \cup {next}]_<<schema, recorded>>

(* The API container starts when the runner exits with 0: then every file  *)
(* has been applied, whoever applied it.                                   *)
DoneMeansUpToDate == (\E r \in Runners : At(r, "done")) => recorded = FileSet

(* No two runners wait for each other, and none is left hanging: a run     *)
(* ends, well or badly.                                                    *)
EveryRunEnds ==
  \A r \in Runners : At(r, "read") ~> runner[r].step \in {"done", "failed"}
=============================================================================

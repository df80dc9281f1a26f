---------------------------- MODULE MCMigrations ----------------------------
(* A small instance of Migrations: three files, the second repeatable.     *)
EXTENDS Migrations

CONSTANTS f1, f2, f3, r1, r2, r3

MCFiles == <<f1, f2, f3>>
MCRepeatable == {f2}
MCRunners == {r1, r2, r3}
=============================================================================

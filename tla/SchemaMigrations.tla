-------------------------- MODULE SchemaMigrations --------------------------
(***************************************************************************)
(* The migration runner (cmd/migrate): it executes the files that          *)
(* schema_migrations does not list, each followed by a statement that      *)
(* records it.  File 1 drops and creates the tables of the site, file 2    *)
(* those of the policies; later files delete policies, roles and who has   *)
(* which permission before they seed them.  A file is executed as a whole  *)
(* or not at all; the other statements take effect one by one, and their   *)
(* errors are dropped.                                                     *)
(***************************************************************************)
EXTENDS Naturals

CONSTANTS Runner,  \* processes that run the migrations
          LastFile, \* how many files there are
          MaxRuns   \* bound: how often the runner is started

ASSUME MigrationAssumption == LastFile \in Nat \ {0, 1} /\ MaxRuns \in Nat

VARIABLES recorded,    \* the files that schema_migrations lists
          schema,      \* history: the files whose effect the schema has
          kept,        \* what has been written and is kept
          lost,        \* history: what has been written and a file executed again dropped
          runner,      \* runner[r]: what it does, and at which file
          runs,        \* how often the runner was started
          mishap       \* history: "overlap": two ran at a time; "misread": a runner was
                       \* not told what is there; "unrecorded": a file took effect and
                       \* its record did not

migrationVars == <<recorded, schema, kept, lost, runner, runs, mishap>>

MigrationFile == 1 .. LastFile
\* What is written at the site: articles, users and the rest; policies; roles,
\* permissions and who has them.
Kind == {"site", "policies", "grants"}
Stopped == [at |-> "stopped", file |-> 1]

\* An empty database, or one whose files somebody executed by hand (Makefile).
MigrationInit ==
    /\ recorded = {} /\ kept = {} /\ lost = {}
    /\ schema \in {{}, MigrationFile}
    /\ runner = [r \in Runner |-> Stopped]
    /\ runs = 0
    /\ mishap = IF schema = {} THEN {} ELSE {"unrecorded"}

Migrating(r) == runner[r].at # "stopped"
Noted(what) == mishap' = mishap \cup {what}
Goes(r, at, file) == runner' = [runner EXCEPT ![r] = [at |-> at, file |-> file]]

\* --force forgets that the first file was executed.
StartRunner(r) ==
    /\ ~Migrating(r) /\ runs < MaxRuns
    /\ \E force \in BOOLEAN : recorded' = IF force THEN recorded \ {1} ELSE recorded
    /\ Goes(r, "started", 1)
    /\ runs' = runs + 1
    /\ IF \E q \in Runner : Migrating(q) THEN Noted("overlap") ELSE UNCHANGED mishap
    /\ UNCHANGED <<schema, kept, lost>>

\* MUTANT of RecordExisting: the tables are not looked for.
TrustTheRecords(r) ==
    /\ runner[r].at = "started"
    /\ Goes(r, "next", 1)
    /\ UNCHANGED <<recorded, schema, kept, lost, runs, mishap>>

\* A database that has the table of the categories has had the first file.  A
\* query that fails tells that it has not.
RecordExisting(r) ==
    /\ runner[r].at = "started"
    /\ \/ /\ recorded' = IF 1 \in schema THEN recorded \cup {1} ELSE recorded
          /\ UNCHANGED mishap
       \/ UNCHANGED recorded /\ Noted("misread")
    /\ Goes(r, "next", 1)
    /\ UNCHANGED <<schema, kept, lost, runs>>

\* Here, too, a query that fails tells that the file is not listed.
LookUp(r) ==
    LET f == runner[r].file
    IN  /\ runner[r].at = "next" /\ f <= LastFile
        /\ \/ /\ IF f \in recorded THEN Goes(r, "next", f + 1) ELSE Goes(r, "unlisted", f)
              /\ UNCHANGED mishap
           \/ Goes(r, "unlisted", f) /\ Noted("misread")
        /\ UNCHANGED <<recorded, schema, kept, lost, runs>>

\* The files that drop or empty the policies, that delete who has which
\* permission, and that create triggers.
PolicyFiles == {2, 5}
GrantFiles == {5, 6} \cup 8 .. 11
TriggerFiles == {3, 4}

\* File 1 takes with it what later files have changed.
DroppedBy(f) ==
    IF f = 1 THEN Kind
    ELSE {k \in Kind : (k = "policies" /\ f \in PolicyFiles) \/ (k = "grants" /\ f \in GrantFiles)}

\* A file that creates triggers fails where it has created them before; then the
\* run stops (StopRunner).
Execute(r) ==
    LET f == runner[r].file
    IN  /\ runner[r].at = "unlisted"
        /\ f \in TriggerFiles => f \notin schema
        /\ schema' = IF f = 1 THEN {1} ELSE schema \cup {f}
        /\ lost' = lost \cup (IF f \in schema THEN kept \cap DroppedBy(f) ELSE {})
        /\ kept' = kept \ DroppedBy(f)
        /\ Goes(r, "executed", f)
        /\ UNCHANGED <<recorded, runs, mishap>>

Record(r) ==
    /\ runner[r].at = "executed"
    /\ \/ recorded' = recorded \cup {runner[r].file} /\ UNCHANGED mishap
       \/ UNCHANGED recorded /\ Noted("unrecorded")
    /\ Goes(r, "next", runner[r].file + 1)
    /\ UNCHANGED <<schema, kept, lost, runs>>

Finish(r) ==
    /\ runner[r].at = "next" /\ runner[r].file > LastFile
    /\ Goes(r, "stopped", 1)
    /\ UNCHANGED <<recorded, schema, kept, lost, runs, mishap>>

\* A file fails, the thirty seconds are over, the connection or the process ends.
StopRunner(r) ==
    /\ Migrating(r)
    /\ Goes(r, "stopped", 1)
    /\ IF runner[r].at = "executed" THEN Noted("unrecorded") ELSE UNCHANGED mishap
    /\ UNCHANGED <<recorded, schema, kept, lost, runs>>

\* The site is used, also while migrations run: all that has its table is written.
Use ==
    LET written == {k \in Kind : (IF k = "site" THEN 1 ELSE 2) \in schema}
    IN  /\ ~(written \subseteq kept)
        /\ kept' = kept \cup written
        /\ UNCHANGED <<recorded, schema, lost, runner, runs, mishap>>

MigrationNext ==
    \/ \E r \in Runner : \/ StartRunner(r) \/ RecordExisting(r) \/ LookUp(r) \/ Execute(r)
                         \/ Record(r) \/ Finish(r) \/ StopRunner(r)
    \/ Use
MigrationSpec == MigrationInit /\ [][MigrationNext]_migrationVars

(***************************************************************************)
(* Properties                                                              *)
(***************************************************************************)

Disturbed == "overlap" \in mishap \/ "misread" \in mishap

\* Runs that end anywhere and --force never cost the site its articles, unless two
\* run at a time, and one drops what was written since the other was done, or the
\* database fails to tell a runner what is there.  Policies and grants are deleted
\* once, by the files that seed them, and again only when such a file was executed
\* and not recorded, or after one of the other mishaps.  Without an overlap and a
\* misread the schema has what is recorded, and its files in order.
MigrationsKeep ==
    /\ "site" \in lost => Disturbed
    /\ lost # {} => mishap # {}
    /\ Disturbed \/ (/\ recorded \subseteq schema
                     /\ \A f \in schema : 1 .. f \subseteq schema)
=============================================================================

------------------------------ MODULE Service ------------------------------
(***************************************************************************)
(* The life of the API process (cmd main in services/api/main.go) and of   *)
(* the schema it finds and makes in PostgreSQL.  Redis is optional at      *)
(* start and is left out; MinIO must answer before the service listens.    *)
(***************************************************************************)
EXTENDS Naturals

CONSTANT MaxFaults  \* bound on the failures and kills of one behaviour

ASSUME FaultsAssumption == MaxFaults \in Nat

VARIABLES
  phase,            \* where main is; "down" ended by itself, "stopped" told to
  schema,           \* "none", what RunMigrations makes, or what 001_init.sql makes
  faults            \* the faults so far

service == <<phase, schema, faults>>

Starting == {"connecting", "migrating", "opening"}
Phases == Starting \union {"down", "listening", "draining", "stopped"}

Fault == faults < MaxFaults /\ faults' = faults + 1

Enter(from, to) ==
  /\ phase \in from
  /\ phase' = to
  /\ UNCHANGED faults

\* docker-compose runs the container again, unless it was told to stop.
Restart == Enter({"down"}, "connecting") /\ UNCHANGED schema

\* The operator starts it.
Start == Enter({"stopped"}, "connecting") /\ UNCHANGED schema

NewPostgresDB == Enter({"connecting"}, "migrating") /\ UNCHANGED schema

\* Mutant: CREATE TABLE without IF NOT EXISTS.
CreateTables ==
  /\ schema = "none"
  /\ Enter({"migrating"}, "opening")
  /\ schema' = "program"

\* One implicit transaction of CREATE ... IF NOT EXISTS; it knows users and
\* messages, but neither the sessions table nor messages.session_id.
RunMigrations ==
  /\ Enter({"migrating"}, "opening")
  /\ schema' = IF schema = "none" THEN "program" ELSE schema

\* The file handler is made, which needs MinIO, and the port is bound.
Listen == Enter({"opening"}, "listening") /\ UNCHANGED schema

Proceed == Restart \/ NewPostgresDB \/ RunMigrations \/ Listen

\* main only asks for SIGTERM when it listens; before that the signal kills.
Signal ==
  /\ \/ Enter({"listening"}, "draining")
     \/ Enter(Starting, "stopped")
  /\ UNCHANGED schema

\* app.Shutdown has returned.
Exit == Enter({"draining"}, "stopped") /\ UNCHANGED schema

\* log.Fatalf at start, or a kill of the process at any time.
Fatal ==
  /\ phase \notin {"down", "stopped"}
  /\ phase' = "down"
  /\ Fault
  /\ UNCHANGED schema

ServiceInit ==
  /\ phase = "stopped"
  /\ schema \in {"none", "full"}
  /\ faults = 0

ServiceTypeOK ==
  /\ phase \in Phases
  /\ schema \in {"none", "program", "full"}
  /\ faults \in 0..MaxFaults
=============================================================================

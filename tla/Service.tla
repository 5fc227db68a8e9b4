------------------------------ MODULE Service ------------------------------
(***************************************************************************)
(* The service as a deployment: replicas that migrate the database, start, *)
(* serve requests, are shut down or killed, and are started again          *)
(* (docker-compose.yml, alembic/env.py, main.py); and the requests, as far *)
(* as they hold one of the pooled connections of their replica             *)
(* (dependencies.py).  What a refresh writes is the subject of             *)
(* IngestionWorkflow; here it is the row locks it holds from its DELETE    *)
(* until its transaction ends.                                             *)
(*                                                                         *)
(* replica[p]: exited -> inspect -> create -> start -> serving -> draining *)
(* -> exited, and create -> conflict.  pc[r]: idle -> connect -> query ->  *)
(* idle, and for a refresh query -> fetch -> write -> commit -> idle.      *)
(***************************************************************************)
EXTENDS ConnectionPool

CONSTANTS
    Refreshing,   \* the clients that POST /refresh; the others read
    Tables        \* how many tables the migration creates

ASSUME ServiceAssumption ==
    /\ Refreshing \in SUBSET Requests
    /\ Tables \in Nat \ {0}

VARIABLES
    replica,   \* what each process does
    schema,    \* the tables that are committed
    ddl,       \* the tables in the open transaction of each migration
    pc         \* the next step of each request

deployment == <<replica, schema, ddl>>
vars == <<poolVars, deployment, pc>>

InFlight(p) == {r \in Clients(p) : pc[r] # "idle"}

Init ==
    /\ PoolInit
    /\ replica = [p \in Replicas |-> "exited"]
    /\ schema \in {0, Tables}
    /\ ddl = [p \in Replicas |-> 0]
    /\ pc = [r \in Requests |-> "idle"]

-----------------------------------------------------------------------------
Become(p, state) == replica' = [replica EXCEPT ![p] = state]

(* The container is started, by hand: compose restarts nothing.            *)
Launch(p) ==
    /\ replica[p] \in {"exited", "conflict"}
    /\ Become(p, "inspect")
    /\ UNCHANGED <<poolVars, schema, ddl, pc>>

(* alembic upgrade head: reads the version of the schema ...               *)
Inspect(p) ==
    /\ replica[p] = "inspect"
    /\ reachable
    /\ Become(p, IF schema = Tables THEN "start" ELSE "create")
    /\ UNCHANGED <<poolVars, schema, ddl, pc>>

(* CREATE TABLE waits for another that creates the same table.             *)
Creating(p) ==
    /\ replica[p] = "create"
    /\ \A q \in Replicas \ {p} : ddl[q] = 0

(* Mutant: every statement is a transaction of its own.                    *)
CreateTable_Autocommits(p) ==
    /\ Creating(p)
    /\ schema = ddl[p]
    /\ ddl[p] < Tables
    /\ ddl' = [ddl EXCEPT ![p] = @ + 1]
    /\ schema' = schema + 1
    /\ UNCHANGED <<poolVars, replica, pc>>

(* ... and runs upgrade(), one table after the other in one transaction,   *)
(* which also stamps the version.                                          *)
CreateTable(p) ==
    /\ Creating(p)
    /\ schema = 0
    /\ ddl[p] < Tables
    /\ ddl' = [ddl EXCEPT ![p] = @ + 1]
    /\ UNCHANGED <<poolVars, replica, schema, pc>>

(* Mutant: the connection of the migration is never closed.                *)
CommitSchema_StaysOpen(p) ==
    /\ replica[p] = "create"
    /\ ddl[p] = Tables
    /\ schema' = Tables
    /\ Become(p, "start")
    /\ UNCHANGED <<poolVars, ddl, pc>>

(* The end of env.py: the transaction commits, its connection is closed.   *)
CommitSchema(p) ==
    /\ replica[p] = "create"
    /\ ddl[p] = Tables
    /\ schema' = Tables
    /\ ddl' = [ddl EXCEPT ![p] = 0]
    /\ Become(p, "start")
    /\ UNCHANGED <<poolVars, pc>>

(* The table exists: another replica was faster.  alembic fails, and && in *)
(* the command of the container keeps uvicorn from starting.               *)
MigrationConflict(p) ==
    /\ Creating(p)
    /\ ddl[p] = 0
    /\ schema # 0
    /\ Become(p, "conflict")
    /\ UNCHANGED <<poolVars, schema, ddl, pc>>

(* lifespan: SELECT 1 on a first connection, which stays in the pool.      *)
StartUp(p) ==
    /\ replica[p] = "start"
    /\ reachable
    /\ fresh' = [fresh EXCEPT ![p] = 1]
    /\ Become(p, "serving")
    /\ UNCHANGED <<reachable, lent, broken, stale, schema, ddl, pc>>

(* No database: alembic, or SELECT 1, fails and the process ends.          *)
StartFails(p) ==
    /\ replica[p] \in {"inspect", "start"}
    /\ ~reachable
    /\ Become(p, "exited")
    /\ UNCHANGED <<poolVars, schema, ddl, pc>>

(* uvicorn stops accepting requests and waits for those it has ...         *)
Stop(p) ==
    /\ replica[p] = "serving"
    /\ Become(p, "draining")
    /\ UNCHANGED <<poolVars, schema, ddl, pc>>

(* Mutant: it does not wait.                                               *)
Dispose_AtOnce(p) ==
    /\ replica[p] = "draining"
    /\ CloseAll(p)
    /\ Become(p, "exited")
    /\ UNCHANGED <<schema, ddl, pc>>

(* ... then lifespan disposes of the engine and closes the HTTP client.    *)
Dispose(p) ==
    /\ replica[p] = "draining"
    /\ InFlight(p) = {}
    /\ CloseAll(p)
    /\ Become(p, "exited")
    /\ UNCHANGED <<schema, ddl, pc>>

(* A crash, or SIGKILL when draining takes too long: PostgreSQL rolls back *)
(* what the process had open.                                              *)
Kill(p) ==
    /\ replica[p] \notin {"exited", "conflict"}
    /\ CloseAll(p)
    /\ Become(p, "exited")
    /\ ddl' = [ddl EXCEPT ![p] = 0]
    /\ pc' = [r \in Requests |-> IF Home[r] = p THEN "idle" ELSE pc[r]]
    /\ UNCHANGED schema

(* The connections of running migrations break as well.                    *)
DatabaseStops ==
    /\ Outage
    /\ replica' = [p \in Replicas |->
                      IF replica[p] = "create" THEN "exited" ELSE replica[p]]
    /\ ddl' = [p \in Replicas |-> 0]
    /\ UNCHANGED <<schema, pc>>

DatabaseStarts == Recovery /\ UNCHANGED <<deployment, pc>>

-----------------------------------------------------------------------------
Goto(r, step) == pc' = [pc EXCEPT ![r] = step]

(* Mutant: an exception leaves the session open.                           *)
End_LeavesOpen(r, failed) ==
    /\ Goto(r, "idle")
    /\ IF failed THEN UNCHANGED poolVars ELSE CheckIn(r, failed)
    /\ UNCHANGED deployment

(* The request is over, one way or the other: `async with factory() as     *)
(* session' in get_session closes its session.                             *)
End(r, failed) ==
    /\ Goto(r, "idle")
    /\ CheckIn(r, failed)
    /\ UNCHANGED deployment

Arrive(r) ==
    /\ pc[r] = "idle"
    /\ replica[Home[r]] = "serving"
    /\ Goto(r, "connect")
    /\ UNCHANGED <<poolVars, deployment>>

(* The first statement of the request.                                     *)
Connect(r) ==
    /\ pc[r] = "connect"
    /\ CheckOut(r)
    /\ Goto(r, "query")
    /\ UNCHANGED deployment

(* An exception of SQLAlchemy or asyncpg, which no handler knows: 500.     *)
ConnectFails(r) ==
    /\ pc[r] = "connect"
    /\ MayOpen(Home[r])
    /\ ~reachable
    /\ End(r, FALSE)

(* Mutant: pool_timeout=None.                                              *)
PoolTimeout_Never(r) == FALSE

(* It has waited for pool_timeout (30 seconds): 500.                       *)
PoolTimeout(r) ==
    /\ pc[r] = "connect"
    /\ Exhausted(Home[r])
    /\ End(r, FALSE)

(* No statement is ever executed: the API key is wrong.                    *)
Unauthorized(r) ==
    /\ pc[r] = "connect"
    /\ r \in Refreshing
    /\ End(r, FALSE)

Executes(r, step) == pc[r] = step /\ r \notin broken

(* The SELECTs of a read, whatever it answers, or SELECT 1 of /health; and *)
(* _check_cooldown that refuses a refresh.                                 *)
Query(r) ==
    /\ Executes(r, "query")
    /\ End(r, FALSE)

(* _check_cooldown lets the refresh through; its transaction stays open    *)
(* while it waits for Wikipedia and Wikidata.                              *)
PassCooldown(r) ==
    /\ Executes(r, "query")
    /\ r \in Refreshing
    /\ Goto(r, "fetch")
    /\ UNCHANGED <<poolVars, deployment>>

(* Mutant: every repository has a session of its own.                      *)
FetchData_NewSession(r) ==
    /\ pc[r] = "fetch"
    /\ Goto(r, "connect")
    /\ UNCHANGED <<poolVars, deployment>>

(* All repositories of a request share its session (Depends), so the next  *)
(* statement needs no other connection.                                    *)
FetchData(r) ==
    /\ pc[r] = "fetch"
    /\ Goto(r, "write")
    /\ UNCHANGED <<poolVars, deployment>>

(* The refreshes that have deleted and inserted rows.                      *)
Writing == {s \in Requests \ broken : pc[s] = "commit"}

WriteRows(r) ==
    /\ Executes(r, "write")
    /\ Writing = {}
    /\ Goto(r, "commit")
    /\ UNCHANGED <<poolVars, deployment>>

Commit(r) ==
    /\ Executes(r, "commit")
    /\ End(r, FALSE)

(* A statement finds its connection broken.                                *)
StatementFails(r) ==
    /\ pc[r] \in {"query", "write", "commit"}
    /\ r \in broken
    /\ End(r, TRUE)

(* Wikipedia or Wikidata fails, some other exception, or the task is       *)
(* cancelled.                                                              *)
Abort(r) ==
    /\ pc[r] \in {"query", "fetch", "write", "commit"}
    /\ End(r, FALSE)

-----------------------------------------------------------------------------
Run(p) ==
    \/ Inspect(p) \/ CreateTable(p) \/ CommitSchema(p) \/ MigrationConflict(p)
    \/ StartUp(p) \/ StartFails(p) \/ Dispose(p)

Serve(r) ==
    \/ Connect(r) \/ ConnectFails(r) \/ PoolTimeout(r) \/ Unauthorized(r)
    \/ Query(r) \/ PassCooldown(r) \/ FetchData(r) \/ WriteRows(r) \/ Commit(r)
    \/ StatementFails(r)

Next ==
    \/ \E p \in Replicas : Launch(p) \/ Run(p) \/ Stop(p) \/ Kill(p)
    \/ \E r \in Requests : Arrive(r) \/ Serve(r) \/ Abort(r)
    \/ DatabaseStops \/ DatabaseStarts

Spec == Init /\ [][Next]_vars

(* A process that runs goes on: asyncio runs every ready task, waiting for *)
(* a connection is bounded by pool_timeout, and the fetch by timeouts and  *)
(* retries (DataFetch).  Locks are granted in the order of waiting, so     *)
(* nobody waits for one that is free again and again.  Nothing forces      *)
(* anyone to start or stop a replica, to send a request, or the database   *)
(* to come back.                                                           *)
FairSpec ==
    /\ Spec
    /\ \A p \in Replicas : WF_vars(Run(p)) /\ SF_vars(CreateTable(p) \/ MigrationConflict(p))
    /\ \A r \in Requests : WF_vars(Serve(r)) /\ SF_vars(WriteRows(r))

-----------------------------------------------------------------------------
(* Type invariant.                                                         *)
TypeOK ==
    /\ PoolTypeOK
    /\ replica \in [Replicas -> {"exited", "inspect", "create", "conflict",
                                 "start", "serving", "draining"}]
    /\ schema \in 0 .. Tables
    /\ ddl \in [Replicas -> 0 .. Tables]
    /\ pc \in [Requests -> {"idle", "connect", "query", "fetch", "write", "commit"}]

(* A connection is held by a request in flight, whatever way requests      *)
(* ended before; requests are only in flight on a replica that runs, so    *)
(* its engine and its HTTP client are open; a replica that does not run    *)
(* holds no connection, and no replica ever has too many.                  *)
NoConnectionLeaked ==
    \A p \in Replicas :
        /\ lent \cap Clients(p) \subseteq InFlight(p)
        /\ InFlight(p) # {} => replica[p] \in {"serving", "draining"}
        /\ Idle(p) > 0 => replica[p] \in {"serving", "draining"}
        /\ Idle(p) <= PoolSize
        /\ Idle(p) + Cardinality(lent \cap Clients(p)) <= PoolSize + MaxOverflow

(* A request that waits for a connection holds none, and one that has      *)
(* begun never waits for the pool again: whoever waits for a connection    *)
(* waits for requests that can go on.                                      *)
NoHoldAndWait ==
    \A r \in Requests : pc[r] = "connect" => r \notin lent

(* Whatever replicas race, crash or lose the database while they migrate,  *)
(* the schema is complete or empty; it is complete wherever requests are   *)
(* served, and where a migration has failed against a faster one, so that  *)
(* starting that replica once more succeeds.                               *)
SchemaWhole ==
    /\ schema \in {0, Tables}
    /\ \A p \in Replicas :
           replica[p] \in {"conflict", "start", "serving", "draining"} => schema = Tables

(* Every request ends, though refreshes wait for each other's rows, hold   *)
(* connections all the while, and may lose the database at any point.      *)
RequestsEnd == \A r \in Requests : pc[r] # "idle" ~> pc[r] = "idle"

(* A replica that was started serves or gives up, also when it waits for   *)
(* another's migration; one that was stopped exits.                        *)
ReplicasSettle ==
    \A p \in Replicas :
        replica[p] \in {"inspect", "create", "start", "draining"}
            ~> replica[p] \in {"exited", "conflict", "serving"}

(* Once the database stays up, broken connections stop failing requests:   *)
(* nobody gets one from the pool any more.                                 *)
OutageHeals == <>[]reachable => <>[](broken = {})
=============================================================================

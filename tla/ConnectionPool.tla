--------------------------- MODULE ConnectionPool ---------------------------
(***************************************************************************)
(* The connections of every replica to PostgreSQL: create_async_engine in  *)
(* main.py makes a pool (SQLAlchemy's AsyncAdaptedQueuePool, which is not  *)
(* configured) of PoolSize connections that stay open and MaxOverflow that *)
(* are closed after use.  The session of a request takes one for its first *)
(* statement and gives it back when it ends.                               *)
(*                                                                         *)
(* A connection breaks with the database and nobody notices (there is no   *)
(* pool_pre_ping) until a statement fails on it; then the idle connections *)
(* of the pool that broke are dropped as well.                             *)
(***************************************************************************)
EXTENDS Naturals, FiniteSets

CONSTANTS
    Replicas,     \* processes of the service
    Requests,     \* clients, each with one request at a time
    Home,         \* the replica that serves a client
    PoolSize,     \* pool_size (5)
    MaxOverflow   \* max_overflow (10)

ASSUME PoolAssumption ==
    /\ IsFiniteSet(Requests)
    /\ Home \in [Requests -> Replicas]
    /\ PoolSize \in Nat \ {0}
    /\ MaxOverflow \in Nat

VARIABLES
    reachable,   \* the database accepts connections
    lent,        \* the requests whose session has a connection
    broken,      \* those of them whose connection broke
    fresh,       \* idle connections of each replica
    stale        \* idle connections that broke

poolVars == <<reachable, lent, broken, fresh, stale>>

PoolTypeOK ==
    /\ reachable \in BOOLEAN
    /\ lent \in SUBSET Requests
    /\ broken \in SUBSET lent
    /\ fresh \in [Replicas -> 0 .. PoolSize]
    /\ stale \in [Replicas -> 0 .. PoolSize]

PoolInit ==
    /\ reachable \in BOOLEAN
    /\ lent = {}
    /\ broken = {}
    /\ fresh = [p \in Replicas |-> 0]
    /\ stale = [p \in Replicas |-> 0]

Clients(p) == {r \in Requests : Home[r] = p}

Idle(p) == fresh[p] + stale[p]

(* Nothing is idle, and one more may be opened.                            *)
MayOpen(p) ==
    /\ Idle(p) = 0
    /\ Cardinality(lent \cap Clients(p)) < PoolSize + MaxOverflow

(* Everyone waits.                                                         *)
Exhausted(p) == Idle(p) = 0 /\ ~MayOpen(p)

(* An idle connection, untested, or else a new one.                        *)
CheckOut(r) ==
    LET p == Home[r]
    IN  /\ lent' = lent \cup {r}
        /\ \/ /\ fresh[p] > 0
              /\ fresh' = [fresh EXCEPT ![p] = @ - 1]
              /\ UNCHANGED <<broken, stale>>
           \/ /\ stale[p] > 0
              /\ stale' = [stale EXCEPT ![p] = @ - 1]
              /\ broken' = broken \cup {r}
              /\ UNCHANGED fresh
           \/ /\ MayOpen(p) /\ reachable
              /\ UNCHANGED <<broken, fresh, stale>>
        /\ UNCHANGED reachable

(* Mutant: a connection that failed goes back to the pool like any other.  *)
CheckIn_KeepsBroken(r, failed) ==
    LET p == Home[r]
        kept == IF r \in lent /\ Idle(p) < PoolSize THEN 1 ELSE 0
    IN  /\ lent' = lent \ {r}
        /\ broken' = broken \ {r}
        /\ fresh' = [fresh EXCEPT ![p] = IF r \in broken THEN @ ELSE @ + kept]
        /\ stale' = [stale EXCEPT ![p] = IF r \in broken THEN @ + kept ELSE @]
        /\ UNCHANGED reachable

(* Mutant: there are never enough.                                         *)
CheckIn_KeepsAll(r, failed) ==
    LET p == Home[r]
    IN  /\ lent' = lent \ {r}
        /\ broken' = broken \ {r}
        /\ fresh' = [fresh EXCEPT ![p] = IF r \in lent \ broken THEN @ + 1 ELSE @]
        /\ stale' = [stale EXCEPT ![p] = IF failed THEN 0 ELSE @]
        /\ UNCHANGED reachable

(* The session of r ends.  Its connection is rolled back and stays open,   *)
(* unless it turns out broken or there are enough; a failed statement also *)
(* gets rid of the idle connections that broke.                            *)
CheckIn(r, failed) ==
    LET p == Home[r]
        kept == r \in lent \ broken /\ Idle(p) < PoolSize
    IN  /\ lent' = lent \ {r}
        /\ broken' = broken \ {r}
        /\ fresh' = [fresh EXCEPT ![p] = IF kept THEN @ + 1 ELSE @]
        /\ stale' = [stale EXCEPT ![p] = IF failed THEN 0 ELSE @]
        /\ UNCHANGED reachable

(* The process is gone, or engine.dispose() has run.                       *)
CloseAll(p) ==
    /\ lent' = lent \ Clients(p)
    /\ broken' = broken \ Clients(p)
    /\ fresh' = [fresh EXCEPT ![p] = 0]
    /\ stale' = [stale EXCEPT ![p] = 0]
    /\ UNCHANGED reachable

(* PostgreSQL stops, or cannot be reached: every connection breaks.        *)
Outage ==
    /\ reachable
    /\ reachable' = FALSE
    /\ broken' = lent
    /\ fresh' = [p \in Replicas |-> 0]
    /\ stale' = [p \in Replicas |-> Idle(p)]
    /\ UNCHANGED lent

Recovery ==
    /\ ~reachable
    /\ reachable' = TRUE
    /\ UNCHANGED <<lent, broken, fresh, stale>>
=============================================================================

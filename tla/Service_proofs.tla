--------------------------- MODULE Service_proofs ---------------------------
(***************************************************************************)
(* What MCservice checks of connections and of the schema, for every       *)
(* number of replicas, clients and tables, and every size of the pool.     *)
(***************************************************************************)
EXTENDS Service, FiniteSetTheorems, TLAPS

-----------------------------------------------------------------------------
(* Counting connections.  The parts of NoConnectionLeaked, one by one:     *)
(* there are never too many, nothing else has one than requests in flight  *)
(* and the pools of replicas that run, and where requests are in flight    *)
(* the replica runs.                                                       *)
Lent(p) == Cardinality(lent \cap Clients(p))

Bounded ==
    \A p \in Replicas : Idle(p) <= PoolSize /\ Idle(p) + Lent(p) <= PoolSize + MaxOverflow

Running(p) == replica[p] \in {"serving", "draining"}

Owned ==
    /\ \A r \in Requests : r \in lent => pc[r] # "idle"
    /\ \A r \in Requests : pc[r] # "idle" => Running(Home[r])
    /\ \A p \in Replicas : Idle(p) > 0 => Running(p)

LEMMA LeakedParts ==
    ASSUME TypeOK
    PROVE  Bounded /\ Owned <=> NoConnectionLeaked
<1> USE PoolAssumption
<1>1. ASSUME Bounded, Owned PROVE NoConnectionLeaked
  BY <1>1 DEF TypeOK, Bounded, Owned, NoConnectionLeaked, Lent, Running, InFlight, Clients
<1>2. ASSUME NoConnectionLeaked PROVE Bounded
  BY <1>2 DEF NoConnectionLeaked, Bounded, Lent
<1>3. ASSUME NoConnectionLeaked PROVE Owned
  <2>1. ASSUME NEW r \in Requests PROVE r \in Clients(Home[r]) /\ Home[r] \in Replicas
    BY DEF Clients
  <2> QED BY <1>3, <2>1 DEF NoConnectionLeaked, Owned, Running, InFlight
<1> QED BY <1>1, <1>2, <1>3

LEMMA OneMore ==
    ASSUME NEW S, IsFiniteSet(S), NEW x
    PROVE  /\ Cardinality(S) \in Nat
           /\ Cardinality(S \cup {x}) \in Cardinality(S) .. Cardinality(S) + 1
           /\ Cardinality(S \ {x}) = IF x \in S THEN Cardinality(S) - 1 ELSE Cardinality(S)
<1>1. Cardinality(S) \in Nat
  BY FS_CardinalityType
<1>2. Cardinality(S \cup {x}) = IF x \in S THEN Cardinality(S) ELSE Cardinality(S) + 1
  BY FS_AddElement
<1>3. Cardinality(S \ {x}) = IF x \in S THEN Cardinality(S) - 1 ELSE Cardinality(S)
  BY FS_RemoveElement
<1> QED BY <1>1, <1>2, <1>3

LEMMA LentFinite ==
    ASSUME TypeOK, NEW p \in Replicas
    PROVE  /\ IsFiniteSet(lent \cap Clients(p))
           /\ Lent(p) \in Nat
  BY PoolAssumption, FS_Subset, FS_CardinalityType DEF TypeOK, PoolTypeOK, Lent

(* A connection is taken from the pool, or opened within the bounds.       *)
LEMMA CheckOutBounded ==
    ASSUME TypeOK, Bounded, NEW r \in Requests, CheckOut(r)
    PROVE  PoolTypeOK' /\ Bounded' /\ lent' = lent \cup {r}
<1> USE PoolAssumption
<1> DEFINE p == Home[r]
<1>1. p \in Replicas /\ lent' = lent \cup {r}
  BY DEF CheckOut
<1>2. PoolTypeOK'
  BY DEF TypeOK, PoolTypeOK, CheckOut
<1>3. ASSUME NEW q \in Replicas PROVE (Idle(q) <= PoolSize /\ Idle(q) + Lent(q) <= PoolSize + MaxOverflow)'
  <2>1. CASE q # p
    <3>1. lent' \cap Clients(q) = lent \cap Clients(q)
      BY <1>1, <2>1 DEF Clients
    <3>2. Idle(q)' = Idle(q)
      BY <2>1 DEF CheckOut, Idle, TypeOK, PoolTypeOK
    <3> QED BY <3>1, <3>2 DEF Bounded, Lent, Clients
  <2>2. CASE q = p
    <3>1. lent' \cap Clients(q) = (lent \cap Clients(q)) \cup {r}
      BY <1>1, <2>2 DEF Clients
    <3>2. IsFiniteSet(lent \cap Clients(q)) /\ Lent(q) \in Nat
      BY LentFinite
    <3>3. Lent(q)' \in Nat /\ Lent(q)' <= Lent(q) + 1
      <4> DEFINE S == lent \cap Clients(q)
      <4>1. Cardinality(S) \in Nat /\ Cardinality(S \cup {r}) \in Cardinality(S) .. Cardinality(S) + 1
        BY <3>2, OneMore
      <4>2. Lent(q)' = Cardinality(S \cup {r})
        BY <3>1 DEF Lent, Clients
      <4> QED BY <4>1, <4>2 DEF Lent
    <3>5. Idle(q) \in Nat
      BY DEF TypeOK, PoolTypeOK, Idle
    <3>4. \/ Idle(q) > 0 /\ Idle(q)' = Idle(q) - 1
          \/ Lent(q) < PoolSize + MaxOverflow /\ Idle(q) = 0 /\ Idle(q)' = 0
      BY <2>2, <1>1 DEF CheckOut, MayOpen, Lent, Idle, TypeOK, PoolTypeOK
    <3> QED BY <3>2, <3>3, <3>4, <3>5 DEF Bounded
  <2> QED BY <2>1, <2>2
<1> QED BY <1>1, <1>2, <1>3 DEF Bounded

(* A connection that comes back stays open only if it was lent and there   *)
(* is room.                                                                *)
LEMMA CheckInBounded ==
    ASSUME TypeOK, Bounded, NEW r \in Requests, NEW failed \in BOOLEAN, CheckIn(r, failed)
    PROVE  /\ PoolTypeOK' /\ Bounded' /\ lent' = lent \ {r}
           /\ \A q \in Replicas \ {Home[r]} : Idle(q)' = Idle(q)
<1> USE PoolAssumption
<1> DEFINE p == Home[r]
<1>1. p \in Replicas /\ lent' = lent \ {r}
  BY DEF CheckIn
<1>2. PoolTypeOK'
  BY DEF TypeOK, PoolTypeOK, CheckIn, Idle
<1>3. \A q \in Replicas \ {p} : Idle(q)' = Idle(q)
  BY DEF CheckIn, Idle, TypeOK, PoolTypeOK
<1>4. ASSUME NEW q \in Replicas PROVE (Idle(q) <= PoolSize /\ Idle(q) + Lent(q) <= PoolSize + MaxOverflow)'
  <2>1. CASE q # p
    <3>1. lent' \cap Clients(q) = lent \cap Clients(q)
      BY <1>1, <2>1 DEF Clients
    <3> QED BY <3>1, <1>3, <2>1 DEF Bounded, Lent, Clients
  <2>2. CASE q = p
    <3>1. lent' \cap Clients(q) = (lent \cap Clients(q)) \ {r}
      BY <1>1 DEF Clients
    <3>2. Lent(q)' = IF r \in lent THEN Lent(q) - 1 ELSE Lent(q)
      <4>1. r \in lent \cap Clients(q) <=> r \in lent
        BY <2>2 DEF Clients
      <4>2. IsFiniteSet(lent \cap Clients(q))
        BY LentFinite
      <4> DEFINE S == lent \cap Clients(q)
      <4>3. Cardinality(S \ {r}) = IF r \in S THEN Cardinality(S) - 1 ELSE Cardinality(S)
        BY <4>2, OneMore
      <4>4. Lent(q)' = Cardinality(S \ {r})
        BY <3>1 DEF Lent, Clients
      <4> QED BY <4>1, <4>3, <4>4 DEF Lent
    <3>3. Lent(q) \in Nat
      BY LentFinite
    <3>6. Idle(q) \in Nat
      BY DEF TypeOK, PoolTypeOK, Idle
    <3>4. Idle(q)' <= (IF r \in lent /\ Idle(q) < PoolSize THEN Idle(q) + 1 ELSE Idle(q))
      BY <2>2 DEF CheckIn, Idle, TypeOK, PoolTypeOK
    <3>5. Idle(q)' \in Nat
      BY <1>2 DEF Idle, PoolTypeOK
    <3> QED BY <3>2, <3>3, <3>4, <3>5, <3>6 DEF Bounded
  <2> QED BY <2>1, <2>2
<1> QED BY <1>1, <1>2, <1>3, <1>4 DEF Bounded

(* The connections of one replica are gone.                                *)
LEMMA CloseAllBounded ==
    ASSUME TypeOK, Bounded, NEW p \in Replicas, CloseAll(p)
    PROVE  /\ PoolTypeOK' /\ Bounded'
           /\ lent' = lent \ Clients(p) /\ Idle(p)' = 0
           /\ \A q \in Replicas \ {p} : Idle(q)' = Idle(q)
<1> USE PoolAssumption
<1>1. PoolTypeOK'
  BY DEF TypeOK, PoolTypeOK, CloseAll
<1>2. Idle(p)' = 0 /\ \A q \in Replicas \ {p} : Idle(q)' = Idle(q)
  BY DEF TypeOK, PoolTypeOK, CloseAll, Idle
<1>3. ASSUME NEW q \in Replicas PROVE (Idle(q) <= PoolSize /\ Idle(q) + Lent(q) <= PoolSize + MaxOverflow)'
  <2>1. CASE q # p
    <3>1. lent' \cap Clients(q) = lent \cap Clients(q)
      BY <2>1 DEF CloseAll, Clients
    <3> QED BY <3>1, <1>2, <2>1 DEF Bounded, Lent, Clients
  <2>2. CASE q = p
    <3>1. lent' \cap Clients(q) = {}
      BY <2>2 DEF CloseAll, Clients
    <3>2. Lent(q)' = 0
      BY <3>1, FS_EmptySet DEF Lent, Clients
    <3> QED BY <1>2, <2>2, <3>2
  <2> QED BY <2>1, <2>2
<1> QED BY <1>1, <1>2, <1>3 DEF Bounded, CloseAll

-----------------------------------------------------------------------------
(* Together the safety properties of MCservice are inductive.              *)
IInv == TypeOK /\ Bounded /\ Owned /\ NoHoldAndWait /\ SchemaWhole

LEMMA InitInvariant == Init => IInv
<1> SUFFICES ASSUME Init PROVE IInv
  OBVIOUS
<1> USE PoolAssumption, ServiceAssumption DEF Init, PoolInit
<1>1. TypeOK
  BY DEF TypeOK, PoolTypeOK
<1>2. Bounded
  <2>1. ASSUME NEW p \in Replicas PROVE Lent(p) = 0
    BY FS_EmptySet DEF Lent
  <2> QED BY <2>1 DEF Bounded, Idle
<1>3. Owned
  BY DEF Owned, Idle
<1>4. NoHoldAndWait /\ SchemaWhole
  BY DEF NoHoldAndWait, SchemaWhole
<1> QED BY <1>1, <1>2, <1>3, <1>4 DEF IInv

(* Steps that leave the pool and the requests alone, and let no replica    *)
(* leave the states in which it has some: what is left is the schema.      *)
LEMMA Unpooled ==
    ASSUME IInv, UNCHANGED <<poolVars, pc>>, NEW p \in Replicas,
           NEW state, Become(p, state),
           Running(p) => state \in {"serving", "draining"},
           schema' \in 0 .. Tables, ddl' \in [Replicas -> 0 .. Tables],
           state \in {"exited", "inspect", "create", "conflict", "start", "serving", "draining"},
           SchemaWhole'
    PROVE  IInv'
<1> USE PoolAssumption DEF IInv, Become, poolVars
<1>1. TypeOK'
  BY DEF TypeOK, PoolTypeOK
<1>2. Bounded'
  BY DEF Bounded, Lent, Idle, Clients
<1>3. ASSUME NEW q \in Replicas, Running(q) PROVE Running(q)'
  BY <1>3 DEF Running, TypeOK
<1>4. Owned'
  <2>1. \A r \in Requests : Home[r] \in Replicas
    OBVIOUS
  <2> QED BY <1>3, <2>1 DEF Owned, Idle
<1>5. NoHoldAndWait'
  BY DEF NoHoldAndWait
<1> QED BY <1>1, <1>2, <1>4, <1>5

LEMMA RunInvariant ==
    ASSUME IInv, NEW p \in Replicas, Launch(p) \/ Stop(p) \/ Inspect(p) \/ CreateTable(p)
               \/ CommitSchema(p) \/ MigrationConflict(p) \/ StartFails(p)
    PROVE  IInv'
<1> USE PoolAssumption, ServiceAssumption
<1>1. CASE Launch(p)
  <2>1. SchemaWhole' /\ schema' \in 0 .. Tables /\ ddl' \in [Replicas -> 0 .. Tables]
    BY <1>1 DEF Launch, Become, IInv, SchemaWhole, TypeOK
  <2> QED BY <1>1, <2>1, Unpooled DEF Launch, Running
<1>2. CASE Stop(p)
  <2>1. SchemaWhole' /\ schema' \in 0 .. Tables /\ ddl' \in [Replicas -> 0 .. Tables]
    BY <1>2 DEF Stop, Become, IInv, SchemaWhole, TypeOK
  <2> QED BY <1>2, <2>1, Unpooled DEF Stop, Running
<1>3. CASE Inspect(p)
  <2>1. SchemaWhole' /\ schema' \in 0 .. Tables /\ ddl' \in [Replicas -> 0 .. Tables]
    BY <1>3 DEF Inspect, Become, IInv, SchemaWhole, TypeOK
  <2> QED BY <1>3, <2>1, Unpooled DEF Inspect, Running
<1>4. CASE CreateTable(p)
  <2>1. schema' \in 0 .. Tables /\ ddl' \in [Replicas -> 0 .. Tables]
    BY <1>4 DEF CreateTable, IInv, TypeOK
  <2>2. SchemaWhole'
    BY <1>4 DEF CreateTable, IInv, SchemaWhole
  <2>3. Become(p, "create") /\ UNCHANGED <<poolVars, pc>> /\ ~Running(p)
    BY <1>4 DEF CreateTable, Creating, Become, Running, IInv, TypeOK
  <2> QED BY <2>1, <2>2, <2>3, Unpooled
<1>5. CASE CommitSchema(p)
  <2>1. SchemaWhole' /\ schema' \in 0 .. Tables /\ ddl' \in [Replicas -> 0 .. Tables]
    BY <1>5 DEF CommitSchema, Become, IInv, SchemaWhole, TypeOK
  <2> QED BY <1>5, <2>1, Unpooled DEF CommitSchema, Running
<1>6. CASE MigrationConflict(p)
  <2>1. SchemaWhole' /\ schema' \in 0 .. Tables /\ ddl' \in [Replicas -> 0 .. Tables]
    BY <1>6 DEF MigrationConflict, Become, IInv, SchemaWhole, TypeOK
  <2> QED BY <1>6, <2>1, Unpooled DEF MigrationConflict, Creating, Running
<1>7. CASE StartFails(p)
  <2>1. SchemaWhole' /\ schema' \in 0 .. Tables /\ ddl' \in [Replicas -> 0 .. Tables]
    BY <1>7 DEF StartFails, Become, IInv, SchemaWhole, TypeOK
  <2> QED BY <1>7, <2>1, Unpooled DEF StartFails, Running
<1> QED BY <1>1, <1>2, <1>3, <1>4, <1>5, <1>6, <1>7

(* A replica begins to serve with one connection of its own, since it had  *)
(* none before.                                                            *)
LEMMA StartUpInvariant ==
    ASSUME IInv, NEW p \in Replicas, StartUp(p)
    PROVE  IInv'
<1> USE PoolAssumption DEF StartUp, Become
<1>1. TypeOK'
  BY DEF IInv, TypeOK, PoolTypeOK
<1>2. Idle(p) = 0 /\ Lent(p) = 0
  <2>1. ~Running(p)
    BY DEF Running, IInv
  <2>2. lent \cap Clients(p) = {}
    BY <2>1 DEF IInv, Owned, Clients
  <2>3. Idle(p) = 0
    <3>1. Idle(p) \in Nat
      BY DEF Idle, IInv, TypeOK, PoolTypeOK
    <3>2. ~(Idle(p) > 0)
      BY <2>1 DEF IInv, Owned
    <3> QED BY <3>1, <3>2
  <2> QED BY <2>2, <2>3, FS_EmptySet DEF Lent
<1>3. Idle(p)' = 1
  BY <1>2 DEF Idle, IInv, TypeOK, PoolTypeOK
<1>4. \A q \in Replicas : Lent(q)' = Lent(q) /\ (q # p => Idle(q)' = Idle(q))
  BY DEF Lent, Clients, Idle, IInv, TypeOK, PoolTypeOK
<1>5. Bounded'
  BY <1>2, <1>3, <1>4 DEF IInv, Bounded
<1>6. \A q \in Replicas : (Running(q) => Running(q)') /\ Running(p)'
  BY DEF Running, IInv, TypeOK
<1>7. Owned'
  BY <1>4, <1>6 DEF IInv, Owned
<1>8. NoHoldAndWait' /\ SchemaWhole'
  BY DEF IInv, NoHoldAndWait, SchemaWhole, TypeOK
<1> QED BY <1>1, <1>5, <1>7, <1>8 DEF IInv

(* A replica that ends leaves nothing behind, and the others alone.        *)
LEMMA ExitInvariant ==
    ASSUME IInv, NEW p \in Replicas, CloseAll(p), Become(p, "exited"),
           UNCHANGED schema, ddl' \in [Replicas -> 0 .. Tables],
           pc' = [r \in Requests |-> IF Home[r] = p THEN "idle" ELSE pc[r]]
    PROVE  IInv'
<1> USE PoolAssumption DEF Become
<1>1. /\ PoolTypeOK' /\ Bounded'
      /\ lent' = lent \ Clients(p) /\ Idle(p)' = 0
      /\ \A q \in Replicas \ {p} : Idle(q)' = Idle(q)
  BY CloseAllBounded DEF IInv
<1>2. TypeOK'
  BY <1>1 DEF IInv, TypeOK
<1>3. \A q \in Replicas \ {p} : Running(q)' <=> Running(q)
  BY DEF Running, IInv, TypeOK
<1>4. Owned'
  <2>1. ASSUME NEW r \in Requests PROVE (r \in lent => pc[r] # "idle")'
    BY <1>1 DEF IInv, Owned, Clients
  <2>2. ASSUME NEW r \in Requests PROVE (pc[r] # "idle" => Running(Home[r]))'
    <3>1. pc'[r] # "idle" => Home[r] \in Replicas \ {p} /\ pc[r] # "idle"
      OBVIOUS
    <3> QED BY <3>1, <1>3 DEF IInv, Owned
  <2>3. ASSUME NEW q \in Replicas PROVE (Idle(q) > 0 => Running(q))'
    BY <1>1, <1>3 DEF IInv, Owned
  <2> QED BY <2>1, <2>2, <2>3 DEF Owned
<1>5. NoHoldAndWait'
  BY <1>1 DEF IInv, NoHoldAndWait
<1>6. SchemaWhole'
  BY DEF IInv, SchemaWhole, TypeOK
<1> QED BY <1>1, <1>2, <1>4, <1>5, <1>6 DEF IInv

LEMMA EndOfReplica ==
    ASSUME IInv, NEW p \in Replicas, Dispose(p) \/ Kill(p)
    PROVE  IInv'
<1>1. CASE Dispose(p)
  <2>1. pc' = [r \in Requests |-> IF Home[r] = p THEN "idle" ELSE pc[r]]
    BY <1>1 DEF Dispose, InFlight, Clients, IInv, TypeOK
  <2>2. ddl' \in [Replicas -> 0 .. Tables]
    BY <1>1 DEF Dispose, IInv, TypeOK
  <2> QED BY <1>1, <2>1, <2>2, ExitInvariant DEF Dispose
<1>2. CASE Kill(p)
  <2>1. ddl' \in [Replicas -> 0 .. Tables]
    BY <1>2, ServiceAssumption DEF Kill, IInv, TypeOK
  <2> QED BY <1>2, <2>1, ExitInvariant DEF Kill
<1> QED BY <1>1, <1>2

(* An outage breaks connections and returns none.                          *)
LEMMA OutageInvariant ==
    ASSUME IInv, DatabaseStops \/ DatabaseStarts
    PROVE  IInv'
<1> USE PoolAssumption, ServiceAssumption
<1>1. CASE DatabaseStops
  <2>1. \A p \in Replicas : Idle(p)' = Idle(p) /\ Lent(p)' = Lent(p)
    BY <1>1 DEF DatabaseStops, Outage, Idle, Lent, Clients, IInv, TypeOK, PoolTypeOK
  <2>2. \A p \in Replicas : Idle(p) \in 0 .. PoolSize
    BY DEF Idle, IInv, Bounded, TypeOK, PoolTypeOK
  <2>3. TypeOK'
    <3>1. PoolTypeOK'
      <4>1. /\ reachable' = FALSE /\ broken' = lent /\ lent' = lent
            /\ fresh' = [p \in Replicas |-> 0] /\ stale' = [p \in Replicas |-> Idle(p)]
        BY <1>1 DEF DatabaseStops, Outage
      <4>2. stale' \in [Replicas -> 0 .. PoolSize] /\ fresh' \in [Replicas -> 0 .. PoolSize]
        BY <4>1, <2>2
      <4>3. lent' \in SUBSET Requests /\ broken' \in SUBSET lent'
        BY <4>1 DEF IInv, TypeOK, PoolTypeOK
      <4> QED BY <4>1, <4>2, <4>3 DEF PoolTypeOK
    <3>2. replica' \in [Replicas -> {"exited", "inspect", "create", "conflict",
                                     "start", "serving", "draining"}]
      BY <1>1 DEF DatabaseStops, IInv, TypeOK
    <3>3. ddl' \in [Replicas -> 0 .. Tables]
      BY <1>1 DEF DatabaseStops
    <3> QED BY <1>1, <3>1, <3>2, <3>3 DEF DatabaseStops, IInv, TypeOK
  <2>4. Bounded'
    BY <2>1 DEF Bounded, IInv
  <2>5. \A p \in Replicas : Running(p)' <=> Running(p)
    BY <1>1 DEF DatabaseStops, Running
  <2>6. Owned'
    BY <1>1, <2>1, <2>5 DEF DatabaseStops, Outage, IInv, Owned
  <2>7. NoHoldAndWait' /\ SchemaWhole'
    BY <1>1 DEF DatabaseStops, Outage, IInv, NoHoldAndWait, SchemaWhole
  <2> QED BY <2>3, <2>4, <2>6, <2>7 DEF IInv
<1>2. CASE DatabaseStarts
  BY <1>2 DEF DatabaseStarts, Recovery, deployment, IInv, TypeOK, PoolTypeOK, Bounded, Lent,
              Clients, Idle, Owned, Running, NoHoldAndWait, SchemaWhole
<1> QED BY <1>1, <1>2

-----------------------------------------------------------------------------
(* Requests.                                                               *)
LEMMA EndInvariant ==
    ASSUME IInv, NEW r \in Requests, pc[r] # "idle", NEW failed \in BOOLEAN, End(r, failed)
    PROVE  IInv'
<1> USE PoolAssumption DEF End, Goto, deployment
<1>1. /\ PoolTypeOK' /\ Bounded' /\ lent' = lent \ {r}
      /\ \A q \in Replicas \ {Home[r]} : Idle(q)' = Idle(q)
  BY CheckInBounded DEF IInv
<1>2. TypeOK'
  BY <1>1 DEF IInv, TypeOK
<1>3. Owned'
  BY <1>1 DEF IInv, Owned, Running, TypeOK
<1>4. NoHoldAndWait' /\ SchemaWhole'
  BY <1>1 DEF IInv, NoHoldAndWait, SchemaWhole, TypeOK
<1> QED BY <1>1, <1>2, <1>3, <1>4 DEF IInv

(* A request goes on with what it has, or begins without anything.         *)
LEMMA GotoInvariant ==
    ASSUME IInv, NEW r \in Requests, Running(Home[r]), UNCHANGED <<poolVars, deployment>>,
           NEW step \in {"connect", "query", "fetch", "write", "commit"}, Goto(r, step),
           step = "connect" => r \notin lent
    PROVE  IInv'
  BY PoolAssumption DEF Goto, deployment, poolVars, IInv, TypeOK, PoolTypeOK, Bounded, Lent,
         Clients, Idle, Owned, Running, NoHoldAndWait, SchemaWhole

LEMMA ConnectInvariant ==
    ASSUME IInv, NEW r \in Requests, Connect(r)
    PROVE  IInv'
<1> USE PoolAssumption DEF Connect, Goto, deployment
<1>1. PoolTypeOK' /\ Bounded' /\ lent' = lent \cup {r}
  BY CheckOutBounded DEF IInv
<1>2. TypeOK'
  BY <1>1 DEF IInv, TypeOK
<1>3. Owned'
  <2>1. \A q \in Replicas : Idle(q)' <= Idle(q)
    BY DEF CheckOut, Idle, IInv, TypeOK, PoolTypeOK
  <2>2. \A q \in Replicas : Idle(q) \in Nat /\ Idle(q)' \in Nat
    BY <1>1 DEF Idle, IInv, TypeOK, PoolTypeOK
  <2> QED BY <1>1, <2>1, <2>2 DEF IInv, Owned, Running, TypeOK
<1>4. NoHoldAndWait' /\ SchemaWhole'
  BY <1>1 DEF IInv, NoHoldAndWait, SchemaWhole, TypeOK
<1> QED BY <1>1, <1>2, <1>3, <1>4 DEF IInv

LEMMA RequestInvariant ==
    ASSUME IInv, NEW r \in Requests, Arrive(r) \/ Serve(r) \/ Abort(r)
    PROVE  IInv'
<1> USE PoolAssumption
<1>1. pc[r] # "idle" => Running(Home[r])
  BY DEF IInv, Owned
<1>2. CASE Arrive(r)
  <2>1. r \notin lent
    BY <1>2 DEF Arrive, IInv, Owned
  <2> QED BY <1>2, <2>1, GotoInvariant DEF Arrive, Running
<1>3. CASE Connect(r)
  BY <1>3, ConnectInvariant
<1>4. CASE ConnectFails(r) \/ PoolTimeout(r) \/ Unauthorized(r) \/ Query(r) \/ Commit(r) \/ Abort(r)
  <2>1. pc[r] # "idle" /\ End(r, FALSE)
    BY <1>4 DEF ConnectFails, PoolTimeout, Unauthorized, Query, Commit, Abort, Executes
  <2> QED BY <2>1, EndInvariant
<1>5. CASE StatementFails(r)
  <2>1. pc[r] # "idle" /\ End(r, TRUE)
    BY <1>5 DEF StatementFails
  <2> QED BY <2>1, EndInvariant
<1>6. CASE PassCooldown(r)
  BY <1>1, <1>6, GotoInvariant DEF PassCooldown, Executes
<1>7. CASE FetchData(r)
  BY <1>1, <1>7, GotoInvariant DEF FetchData
<1>8. CASE WriteRows(r)
  BY <1>1, <1>8, GotoInvariant DEF WriteRows, Executes
<1> QED BY <1>2, <1>3, <1>4, <1>5, <1>6, <1>7, <1>8 DEF Serve

-----------------------------------------------------------------------------
(* Types, bounds, ownership, waiting and the schema, for ever.             *)
THEOREM Invariant == Spec => []IInv
<1>1. IInv /\ [Next]_vars => IInv'
  <2> SUFFICES ASSUME IInv, [Next]_vars PROVE IInv'
    OBVIOUS
  <2>1. ASSUME NEW p \in Replicas, Launch(p) \/ Run(p) \/ Stop(p) \/ Kill(p) PROVE IInv'
    BY <2>1, RunInvariant, StartUpInvariant, EndOfReplica DEF Run
  <2>2. ASSUME NEW r \in Requests, Arrive(r) \/ Serve(r) \/ Abort(r) PROVE IInv'
    BY <2>2, RequestInvariant
  <2>3. CASE DatabaseStops \/ DatabaseStarts
    BY <2>3, OutageInvariant
  <2>4. CASE UNCHANGED vars
    BY <2>4 DEF vars, poolVars, deployment, IInv, TypeOK, PoolTypeOK, Bounded, Lent, Clients,
                Idle, Owned, Running, NoHoldAndWait, SchemaWhole
  <2> QED BY <2>1, <2>2, <2>3, <2>4 DEF Next
<1> QED BY InitInvariant, <1>1, PTL DEF Spec

(* Pools, replicas, tables and requests stay what they are, also through   *)
(* outages.                                                                *)
THEOREM TypeCorrect == Spec => []TypeOK
<1>1. IInv => TypeOK
  BY DEF IInv
<1> QED BY <1>1, Invariant, PTL

(* Every connection is held by a request in flight or idle in the pool of  *)
(* a replica that runs, and there are never too many.                      *)
THEOREM ConnectionsReturned == Spec => []NoConnectionLeaked
<1>1. IInv => NoConnectionLeaked
  BY LeakedParts DEF IInv
<1> QED BY <1>1, Invariant, PTL

(* No request waits for a connection while it holds one.                   *)
THEOREM NobodyHoldsAndWaits == Spec => []NoHoldAndWait
<1>1. IInv => NoHoldAndWait
  BY DEF IInv
<1> QED BY <1>1, Invariant, PTL

(* No replica serves, or gives up on, a schema that is half made.          *)
THEOREM SchemaNeverHalfMade == Spec => []SchemaWhole
<1>1. IInv => SchemaWhole
  BY DEF IInv
<1> QED BY <1>1, Invariant, PTL

=============================================================================

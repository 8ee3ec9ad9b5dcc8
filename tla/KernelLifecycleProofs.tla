----------------------- MODULE KernelLifecycleProofs -----------------------
(***************************************************************************)
(* The pool of servers and the sessions over it, for any number of keys,   *)
(* clients, buffers and calls.  The pool: its counters are exact, and      *)
(* until killAll it implements SharedServer.  The sessions: whatever calls *)
(* overlap, they use the pool as it asks to be used; and with a user who   *)
(* waits for each call, no kernel and no reference to a server is lost.    *)
(***************************************************************************)
EXTENDS KernelLifecycle, FiniteSetTheorems, TLAPS

-----------------------------------------------------------------------------
(* The pool.                                                               *)
(* A handle stands in the registry under one key at most, and is up exactly *)
(* while it does: none is forgotten, and none is started twice for a key.   *)
Registered ==
    /\ \A k \in Keys : active[k] # NoHandle =>
          proc[active[k]] = "up" /\ refcount[active[k]] > 0
    /\ \A h \in Handles : proc[h] = "up" => \E k \in Keys : active[k] = h
    /\ \A j, k \in Keys : active[j] = active[k] /\ active[j] # NoHandle => j = k

(* What is awaited is not registered yet, and what is held is registered.   *)
Phases ==
    /\ \A k \in inflight : active[k] = NoHandle
    /\ \A k \in Keys : ~exited /\ active[k] = NoHandle => Holding(k) = {}

(* A client waits only for a spawn that is under way, and no spawn is under *)
(* way that nobody waits for.                                               *)
WaitersHaveSpawn == \A k \in Keys : k \in inflight <=> Waiting(k) # {}

PoolInv == PoolTypeOK /\ RefcountExact /\ Registered /\ Phases /\ WaitersHaveSpawn

USE DEF Waiting, Holding

-----------------------------------------------------------------------------
LEMMA FiniteStands ==
    ASSUME NEW k \in Keys
    PROVE  /\ IsFiniteSet(Holding(k)) /\ Cardinality(Holding(k)) \in Nat
           /\ IsFiniteSet(Waiting(k)) /\ Cardinality(Waiting(k)) \in Nat
           /\ Cardinality(Waiting(k)) = 0 <=> Waiting(k) = {}
BY ServerPoolAssumption, FS_Subset, FS_CardinalityType, FS_EmptySet
   DEF At

LEMMA InitPoolInv == PoolInit => PoolInv
<1> SUFFICES ASSUME PoolInit PROVE PoolInv OBVIOUS
<1>1. PICK k \in Keys : client = [c \in Clients |-> [pc |-> "idle", key |-> k]]
  BY DEF PoolInit
<1>2. \A j \in Keys : Holding(j) = {} /\ Waiting(j) = {}
  BY <1>1 DEF At
<1>3. PoolTypeOK
  BY <1>1 DEF PoolInit, PoolTypeOK
<1> QED BY <1>2, <1>3 DEF PoolInit, PoolInv, RefcountExact, Registered, Phases, WaitersHaveSpawn

-----------------------------------------------------------------------------
LEMMA AcquireActiveStep ==
    ASSUME PoolInv, NEW c \in Clients, NEW k \in Keys, AcquireActive(c, k)
    PROVE  PoolInv'
<1> USE DEF PoolInv
<1> DEFINE h == active[k]
<1>1. /\ client[c].pc = "idle" /\ h # NoHandle
      /\ refcount' = [refcount EXCEPT ![h] = @ + 1]
      /\ MoveTo({c}, k, "held") /\ UNCHANGED <<active, inflight, proc, exited>>
  BY DEF AcquireActive
<1>2. /\ refcount \in [Handles -> Nat] /\ h \in Handles
      /\ refcount'[h] = refcount[h] + 1
      /\ \A g \in Handles \ {h} : refcount'[g] = refcount[g]
  BY <1>1 DEF PoolTypeOK
<1>3. PoolTypeOK'
  BY <1>1, <1>2 DEF PoolTypeOK, MoveTo
<1>4. /\ c \notin Holding(k) /\ At(client', "held", k) = Holding(k) \cup {c}
      /\ \A j \in Keys \ {k} : At(client', "held", j) = Holding(j)
      /\ \A j \in Keys : At(client', "waiting", j) = Waiting(j)
  BY <1>1 DEF At, MoveTo, PoolTypeOK
<1>5. Cardinality(At(client', "held", k)) = Cardinality(Holding(k)) + 1
  BY <1>4, FiniteStands, FS_AddElement
<1>6. \A j \in Keys : active[j] = h => j = k
  BY <1>1 DEF Registered
<1>7. RefcountExact'
  BY <1>1, <1>2, <1>4, <1>5, <1>6, FiniteStands DEF RefcountExact, PoolTypeOK
<1>8. Registered'
  BY <1>1, <1>2 DEF Registered, PoolTypeOK
<1>9. Phases'
  BY <1>1, <1>4 DEF Phases
<1>10. WaitersHaveSpawn'
  BY <1>1, <1>4 DEF WaitersHaveSpawn
<1> QED BY <1>3, <1>7, <1>8, <1>9, <1>10

LEMMA AcquireWaits ==
    ASSUME PoolInv, NEW c \in Clients, NEW k \in Keys, client[c].pc = "idle",
           active[k] = NoHandle, inflight' = inflight \cup {k},
           MoveTo({c}, k, "waiting"), UNCHANGED <<active, refcount, proc, exited>>
    PROVE  PoolInv'
<1> USE DEF PoolInv
<1>1. PoolTypeOK'
  BY DEF PoolTypeOK, MoveTo
<1>2. /\ At(client', "waiting", k) = Waiting(k) \cup {c}
      /\ \A j \in Keys \ {k} : At(client', "waiting", j) = Waiting(j)
      /\ \A j \in Keys : At(client', "held", j) = Holding(j)
  BY DEF At, MoveTo, PoolTypeOK
<1>3. RefcountExact'
  BY <1>2 DEF RefcountExact
<1>4. Registered' /\ Phases' /\ WaitersHaveSpawn'
  BY <1>2 DEF Registered, Phases, WaitersHaveSpawn
<1> QED BY <1>1, <1>3, <1>4

LEMMA SpawnEndsStep ==
    ASSUME PoolInv, NEW k \in Keys, NEW h \in Handles, SpawnEnds(k, h)
    PROVE  PoolInv'
<1> USE DEF PoolInv
<1>1. /\ k \in inflight /\ proc[h] = "none" /\ MoveTo(Waiting(k), k, "held")
      /\ active' = [active EXCEPT ![k] = h] /\ inflight' = inflight \ {k}
      /\ refcount' = [refcount EXCEPT ![h] = Cardinality(Waiting(k))]
      /\ proc' = [proc EXCEPT ![h] = "up"] /\ exited' = exited
  BY DEF SpawnEnds
<1>2. /\ active[k] = NoHandle /\ h # NoHandle /\ Waiting(k) # {}
      /\ Waiting(k) \in SUBSET Clients
      /\ Cardinality(Waiting(k)) \in Nat /\ Cardinality(Waiting(k)) > 0
  <2>1. Waiting(k) # {} /\ active[k] = NoHandle /\ h # NoHandle
    BY <1>1, ServerPoolAssumption DEF Phases, WaitersHaveSpawn
  <2>2. Waiting(k) \in SUBSET Clients
    BY DEF At
  <2>3. Cardinality(Waiting(k)) \in Nat /\ Cardinality(Waiting(k)) # 0
    BY <2>1, FiniteStands
  <2> QED BY <2>1, <2>2, <2>3
<1>3. PoolTypeOK'
  BY <1>1, <1>2 DEF PoolTypeOK, MoveTo
<1>4. /\ \A j \in Keys : At(client', "waiting", j) = IF j = k THEN {} ELSE Waiting(j)
      /\ \A j \in Keys : At(client', "held", j) =
            IF j = k THEN Holding(k) \cup Waiting(k) ELSE Holding(j)
  BY <1>1 DEF At, MoveTo, PoolTypeOK
<1>5. /\ active'[k] = h /\ \A j \in Keys \ {k} : active'[j] = active[j]
      /\ refcount'[h] = Cardinality(Waiting(k)) /\ proc'[h] = "up"
      /\ \A g \in Handles \ {h} : refcount'[g] = refcount[g] /\ proc'[g] = proc[g]
  BY <1>1 DEF PoolTypeOK
<1>6. \A j \in Keys : active[j] # h
  BY <1>1, <1>2 DEF Registered
<1>7. RefcountExact'
  <2> SUFFICES ASSUME ~exited, NEW j \in Keys, active'[j] # NoHandle
               PROVE  /\ refcount'[active'[j]] = Cardinality(At(client', "held", j))
                      /\ At(client', "held", j) # {}
    BY <1>1 DEF RefcountExact
  <2>1. CASE j = k
    <3>1. At(client', "held", k) = Waiting(k)
      BY <1>2, <1>4 DEF Phases
    <3> QED BY <2>1, <3>1, <1>2, <1>5
  <2>2. CASE j # k
    <3>1. active'[j] = active[j] /\ active[j] \in Handles \ {h}
      BY <2>2, <1>5, <1>6 DEF PoolTypeOK
    <3> QED BY <2>2, <3>1, <1>4, <1>5 DEF RefcountExact
  <2> QED BY <2>1, <2>2
<1>8. Registered'
  <2>1. \A j \in Keys : active'[j] # NoHandle =>
          proc'[active'[j]] = "up" /\ refcount'[active'[j]] > 0
    BY <1>2, <1>5, <1>6 DEF Registered, PoolTypeOK
  <2>2. \A g \in Handles : proc'[g] = "up" => \E j \in Keys : active'[j] = g
    <3>1. \A g \in Handles : g # NoHandle
      BY ServerPoolAssumption
    <3>2. \A g \in Handles \ {h} : proc[g] = "up" =>
                                   \E j \in Keys \ {k} : active[j] = g
      BY <3>1, <1>2 DEF Registered
    <3> QED BY <3>2, <1>5
  <2>3. \A i, j \in Keys : active'[i] = active'[j] /\ active'[i] # NoHandle => i = j
    BY <1>5, <1>6 DEF Registered
  <2> QED BY <2>1, <2>2, <2>3 DEF Registered
<1>9. Phases'
  BY <1>1, <1>2, <1>4, <1>5 DEF Phases, PoolTypeOK
<1>10. WaitersHaveSpawn'
  BY <1>1, <1>4 DEF WaitersHaveSpawn
<1> QED BY <1>3, <1>7, <1>8, <1>9, <1>10

LEMMA SpawnFailsStep ==
    ASSUME PoolInv, NEW k \in Keys, SpawnFails(k)
    PROVE  PoolInv'
<1> USE DEF PoolInv
<1>1. /\ k \in inflight /\ MoveTo(Waiting(k), k, "out") /\ inflight' = inflight \ {k}
      /\ UNCHANGED <<active, refcount, proc, exited>>
  BY DEF SpawnFails
<1>2. Waiting(k) \in SUBSET Clients
  BY DEF At
<1>3. PoolTypeOK'
  BY <1>1, <1>2 DEF PoolTypeOK, MoveTo
<1>4. /\ \A j \in Keys : At(client', "waiting", j) = IF j = k THEN {} ELSE Waiting(j)
      /\ \A j \in Keys : At(client', "held", j) = Holding(j)
  BY <1>1 DEF At, MoveTo, PoolTypeOK
<1>5. RefcountExact'
  BY <1>1, <1>4 DEF RefcountExact
<1>6. Registered' /\ Phases' /\ WaitersHaveSpawn'
  BY <1>1, <1>4 DEF Registered, Phases, WaitersHaveSpawn
<1> QED BY <1>3, <1>5, <1>6

(* A release that finds no entry, which only happens after killAll; one     *)
(* that leaves other holders; and the last one.                             *)
LEMMA ReleaseStep ==
    ASSUME PoolInv, NEW c \in Clients, Release(c)
    PROVE  PoolInv'
<1> USE DEF PoolInv
<1> DEFINE k == client[c].key
           h == active[k]
<1>1. /\ client[c].pc = "held" /\ MoveTo({c}, k, "out")
      /\ UNCHANGED <<inflight, exited>>
  BY DEF Release, Released
<1>2. k \in Keys
  BY DEF PoolTypeOK
<1>3. /\ c \in Holding(k) /\ At(client', "held", k) = Holding(k) \ {c}
      /\ \A j \in Keys \ {k} : At(client', "held", j) = Holding(j)
      /\ \A j \in Keys : At(client', "waiting", j) = Waiting(j)
  BY <1>1 DEF At, MoveTo, PoolTypeOK
<1>4. client' \in [Clients -> [pc : {"idle", "waiting", "held", "out"}, key : Keys]]
  BY <1>1, <1>2 DEF MoveTo, PoolTypeOK
<1>5. CASE h = NoHandle
  <2>1. UNCHANGED <<active, refcount, proc>>
    BY <1>5 DEF Release, Released
  <2>2. PoolTypeOK'
    BY <1>1, <1>4, <2>1 DEF PoolTypeOK
  <2>3. RefcountExact'
    BY <1>1, <1>2, <1>3, <1>5, <2>1 DEF RefcountExact
  <2>4. Registered' /\ Phases' /\ WaitersHaveSpawn'
    BY <1>1, <1>3, <2>1 DEF Registered, Phases, WaitersHaveSpawn
  <2> QED BY <2>2, <2>3, <2>4
<1>6. CASE h # NoHandle
  <2>1. /\ h \in Handles /\ refcount[h] \in Nat /\ refcount[h] > 0
        /\ \A j \in Keys \ {k} : active[j] # h
    BY <1>2, <1>6 DEF Registered, PoolTypeOK
  <2>2. /\ refcount' = [refcount EXCEPT ![h] = @ - 1]
        /\ active' = IF refcount[h] <= 1 THEN [active EXCEPT ![k] = NoHandle] ELSE active
        /\ proc' = IF refcount[h] <= 1 THEN [proc EXCEPT ![h] = "killing"] ELSE proc
    BY <1>6 DEF Release, Released
  <2>3. /\ refcount'[h] = refcount[h] - 1
        /\ \A g \in Handles \ {h} : refcount'[g] = refcount[g]
        /\ \A j \in Keys \ {k} : active'[j] = active[j]
        /\ \A g \in Handles \ {h} : proc'[g] = proc[g]
    BY <1>2, <2>1, <2>2 DEF PoolTypeOK
  <2>4. PoolTypeOK'
    BY <1>1, <1>4, <2>1, <2>2 DEF PoolTypeOK
  <2>5. Cardinality(At(client', "held", k)) = Cardinality(Holding(k)) - 1
    BY <1>2, <1>3, FiniteStands, FS_RemoveElement
  <2>6. ~exited => refcount[h] = Cardinality(Holding(k))
    BY <1>2, <1>6 DEF RefcountExact
  <2>7. ~exited => /\ refcount[h] <= 1 => At(client', "held", k) = {}
                   /\ refcount[h] > 1 => At(client', "held", k) # {}
    <3>1. IsFiniteSet(At(client', "held", k))
      BY <1>2, <1>3, FiniteStands, FS_Subset
    <3>2. Cardinality(At(client', "held", k)) = 0 <=> At(client', "held", k) = {}
      BY <3>1, FS_EmptySet
    <3> QED BY <2>1, <2>5, <2>6, <3>2
  <2>8. RefcountExact'
    <3> SUFFICES ASSUME ~exited, NEW j \in Keys, active'[j] # NoHandle
                 PROVE  /\ refcount'[active'[j]] = Cardinality(At(client', "held", j))
                        /\ At(client', "held", j) # {}
      BY <1>1 DEF RefcountExact
    <3>1. CASE j = k
      <4>1. refcount[h] > 1 /\ active'[k] = h
        BY <1>2, <2>1, <2>2, <3>1 DEF PoolTypeOK
      <4> QED BY <3>1, <4>1, <2>3, <2>5, <2>6, <2>7
    <3>2. CASE j # k
      <4>1. active'[j] = active[j] /\ active[j] \in Handles \ {h}
        BY <3>2, <2>1, <2>3 DEF PoolTypeOK
      <4> QED BY <3>2, <4>1, <1>3, <2>3 DEF RefcountExact
    <3> QED BY <3>1, <3>2
  <2>9. Registered'
    <3>1. CASE refcount[h] <= 1
      <4>1. active'[k] = NoHandle /\ proc'[h] = "killing"
        BY <3>1, <1>2, <2>1, <2>2 DEF PoolTypeOK
      <4> QED BY <4>1, <2>1, <2>3 DEF Registered, PoolTypeOK
    <3>2. CASE ~(refcount[h] <= 1)
      <4>1. active' = active /\ proc' = proc /\ refcount'[h] > 0
        BY <3>2, <2>1, <2>2, <2>3
      <4> QED BY <4>1, <2>3 DEF Registered, PoolTypeOK
    <3> QED BY <3>1, <3>2
  <2>10. Phases'
    <3>1. \A j \in inflight' : active'[j] = NoHandle
      BY <1>1, <1>6, <2>3 DEF Phases, PoolTypeOK
    <3>2. ASSUME NEW j \in Keys, ~exited, active'[j] = NoHandle
          PROVE  At(client', "held", j) = {}
      <4>1. CASE j = k
        BY <4>1, <3>2, <1>6, <2>1, <2>2, <2>7
      <4>2. CASE j # k
        BY <4>2, <3>2, <1>3, <2>3 DEF Phases
      <4> QED BY <4>1, <4>2
    <3> QED BY <3>1, <3>2, <1>1 DEF Phases
  <2>11. WaitersHaveSpawn'
    BY <1>1, <1>3 DEF WaitersHaveSpawn
  <2> QED BY <2>4, <2>8, <2>9, <2>10, <2>11
<1> QED BY <1>5, <1>6

LEMMA KilledStep ==
    ASSUME PoolInv, NEW h \in Handles, Killed(h)
    PROVE  PoolInv'
<1> USE DEF PoolInv
<1>1. /\ proc[h] = "killing" /\ proc' = [proc EXCEPT ![h] = "dead"]
      /\ UNCHANGED <<active, inflight, refcount, client, exited>>
  BY DEF Killed
<1>2. PoolTypeOK' /\ RefcountExact' /\ Phases' /\ WaitersHaveSpawn'
  BY <1>1 DEF PoolTypeOK, RefcountExact, Phases, WaitersHaveSpawn
<1>3. Registered'
  BY <1>1 DEF Registered, PoolTypeOK
<1> QED BY <1>2, <1>3

LEMMA KillAllStep ==
    ASSUME PoolInv, KillAll
    PROVE  PoolInv'
<1> USE DEF PoolInv
<1>1. /\ exited' = TRUE /\ active' = [k \in Keys |-> NoHandle]
      /\ proc' = [h \in Handles |-> IF \E k \in Keys : active[k] = h
                                    THEN "killing" ELSE proc[h]]
      /\ UNCHANGED <<inflight, refcount, client>>
  BY DEF KillAll
<1>2. PoolTypeOK' /\ RefcountExact' /\ Phases' /\ WaitersHaveSpawn'
  BY <1>1 DEF PoolTypeOK, RefcountExact, Phases, WaitersHaveSpawn
<1>3. Registered'
  BY <1>1 DEF Registered, PoolTypeOK
<1> QED BY <1>2, <1>3

LEMMA PoolInvStep ==
    ASSUME PoolInv, [PoolNext]_poolVars
    PROVE  PoolInv'
<1>1. ASSUME NEW c \in Clients, NEW k \in Keys,
             AcquireActive(c, k) \/ AcquireJoin(c, k) \/ AcquireSpawn(c, k)
      PROVE  PoolInv'
  <2>1. CASE AcquireActive(c, k)
    BY <2>1, AcquireActiveStep
  <2>2. CASE AcquireJoin(c, k) \/ AcquireSpawn(c, k)
    BY <2>2, AcquireWaits DEF AcquireJoin, AcquireSpawn
  <2> QED BY <1>1, <2>1, <2>2
<1>2. CASE UNCHANGED poolVars
  BY <1>2 DEF PoolInv, PoolTypeOK, RefcountExact, Registered, Phases, WaitersHaveSpawn, poolVars
<1> QED BY <1>1, <1>2, SpawnEndsStep, SpawnFailsStep, ReleaseStep, KilledStep,
           KillAllStep DEF PoolNext

THEOREM PoolInvariance == PoolSpec => []PoolInv
<1>1. PoolInit => PoolInv
  BY InitPoolInv
<1>2. PoolInv /\ [PoolNext]_poolVars => PoolInv'
  BY PoolInvStep
<1> QED BY <1>1, <1>2, PTL DEF PoolSpec

(* The counters are exact until killAll: the last release, and no earlier   *)
(* one, kills the server.                                                   *)
THEOREM CountersExact == PoolSpec => []RefcountExact
<1>1. PoolInv => RefcountExact
  BY DEF PoolInv
<1> QED BY <1>1, PoolInvariance, PTL

(* Until killAll nobody holds a server that has been killed.                *)
THEOREM ServerUnderHolders == PoolSpec => []HoldersServed
<1>1. PoolInv => HoldersServed
  BY DEF PoolInv, Registered, Phases, HoldersServed
<1> QED BY <1>1, PoolInvariance, PTL

-----------------------------------------------------------------------------
(* The refinement.  H and U are what SharedServer sees of the pool.         *)
H == [k \in Keys |-> Holding(k)]
U == {k \in Keys : active[k] # NoHandle}

LEMMA StepRefines ==
    ASSUME PoolInv, ~exited', [PoolNext]_poolVars
    PROVE  Shared!Next \/ UNCHANGED <<H, U>>
<1> USE DEF PoolInv
<1>0. ~exited
  BY DEF PoolNext, poolVars, AcquireActive, AcquireJoin, AcquireSpawn, SpawnEnds, SpawnFails,
         Release, Released, Killed, KillAll
<1>1. ASSUME NEW c \in Clients, NEW k \in Keys, AcquireActive(c, k)
      PROVE  Shared!Take(k, {c})
  <2>1. /\ client[c].pc = "idle" /\ active[k] # NoHandle /\ active' = active
        /\ MoveTo({c}, k, "held")
    BY <1>1 DEF AcquireActive
  <2>2. /\ c \notin Holding(k)
        /\ \A j \in Keys : At(client', "held", j) =
              IF j = k THEN Holding(k) \cup {c} ELSE Holding(j)
    BY <2>1 DEF At, MoveTo, PoolTypeOK
  <2> QED BY <2>1, <2>2 DEF Shared!Take
<1>2. ASSUME NEW k \in Keys, NEW h \in Handles, SpawnEnds(k, h)
      PROVE  Shared!Take(k, Waiting(k)) /\ Waiting(k) \in SUBSET Clients
  <2>1. /\ k \in inflight /\ MoveTo(Waiting(k), k, "held")
        /\ active' = [active EXCEPT ![k] = h] /\ h # NoHandle
    BY <1>2, ServerPoolAssumption DEF SpawnEnds
  <2>2. Waiting(k) # {} /\ Waiting(k) \in SUBSET Clients
    BY <2>1 DEF WaitersHaveSpawn, At
  <2>3. /\ Waiting(k) \cap Holding(k) = {}
        /\ \A j \in Keys : At(client', "held", j) =
              IF j = k THEN Holding(k) \cup Waiting(k) ELSE Holding(j)
    BY <2>1 DEF At, MoveTo, PoolTypeOK
  <2>4. {j \in Keys : active'[j] # NoHandle} = U \cup {k}
    BY <2>1 DEF PoolTypeOK, U
  <2> QED BY <2>2, <2>3, <2>4 DEF Shared!Take, U
<1>3. ASSUME NEW c \in Clients, Release(c)
      PROVE  \E k \in Keys : Shared!Drop(k, c)
  <2> DEFINE k == client[c].key
             h == active[k]
  <2>1. client[c].pc = "held" /\ MoveTo({c}, k, "out") /\ k \in Keys
    BY <1>3 DEF Release, Released, PoolTypeOK
  <2>2. /\ c \in Holding(k)
        /\ \A j \in Keys : At(client', "held", j) =
              IF j = k THEN Holding(k) \ {c} ELSE Holding(j)
    BY <2>1 DEF At, MoveTo, PoolTypeOK
  <2>3. h # NoHandle /\ h \in Handles
    BY <1>0, <2>1, <2>2 DEF Phases, PoolTypeOK
  <2>4. active' = IF refcount[h] <= 1 THEN [active EXCEPT ![k] = NoHandle] ELSE active
    BY <1>3, <2>3 DEF Release, Released
  <2>5. refcount[h] = Cardinality(Holding(k)) /\ refcount[h] \in Nat
    BY <1>0, <2>1, <2>3 DEF RefcountExact, PoolTypeOK
  <2>6. IsFiniteSet(Holding(k))
    BY <2>1, FiniteStands
  <2>7. Cardinality(Holding(k) \ {c}) = Cardinality(Holding(k)) - 1
          /\ IsFiniteSet(Holding(k) \ {c})
    BY <2>2, <2>6, FS_RemoveElement
  <2>8. refcount[h] > 0
    BY <2>1, <2>3 DEF Registered
  <2>9. refcount[h] <= 1 <=> Holding(k) \ {c} = {}
    BY <2>5, <2>7, <2>8, FS_EmptySet
  <2>10. {j \in Keys : active'[j] # NoHandle} =
           IF Holding(k) \ {c} = {} THEN U \ {k} ELSE U
    BY <2>1, <2>4, <2>9 DEF PoolTypeOK, U
  <2> HIDE DEF k, h
  <2>11. Shared!Drop(k, c)
    BY <2>1, <2>2, <2>10 DEF Shared!Drop, U
  <2> QED BY <2>1, <2>11
<1>4. ASSUME NEW c \in Clients, NEW k \in Keys, AcquireJoin(c, k) \/ AcquireSpawn(c, k)
      PROVE  UNCHANGED <<H, U>>
  BY <1>4 DEF AcquireJoin, AcquireSpawn, MoveTo, At, PoolTypeOK, H, U
<1>5. ASSUME NEW k \in Keys, SpawnFails(k)
      PROVE  UNCHANGED <<H, U>>
  BY <1>5 DEF SpawnFails, MoveTo, At, PoolTypeOK, H, U
<1>6. ASSUME (\E h \in Handles : Killed(h)) \/ UNCHANGED poolVars
      PROVE  UNCHANGED <<H, U>>
  BY <1>6 DEF Killed, poolVars, H, U
<1>7. ~KillAll
  BY DEF KillAll
<1>8. ASSUME NEW c \in Clients, NEW k \in Keys, AcquireActive(c, k)
      PROVE  Shared!Next
  BY <1>1, <1>8 DEF Shared!Next
<1>9. ASSUME NEW k \in Keys, NEW h \in Handles, SpawnEnds(k, h)
      PROVE  Shared!Next
  <2>1. Shared!Take(k, Waiting(k)) /\ Waiting(k) \in SUBSET Clients
    BY <1>2, <1>9
  <2>2. \E S \in SUBSET Clients : Shared!Take(k, S)
    BY <2>1 DEF Shared!Take
  <2> QED BY <2>2 DEF Shared!Next
<1>10. ASSUME NEW c \in Clients, Release(c)
       PROVE  Shared!Next
  BY <1>3, <1>10 DEF Shared!Next
<1> QED BY <1>4, <1>5, <1>6, <1>7, <1>8, <1>9, <1>10 DEF PoolNext

(* Until Vim exits, the pool with its registry, its in-flight spawns and    *)
(* its counters behaves like a server that is up exactly while it is held.  *)
THEOREM PoolRefinesShared == PoolSpec => RefinesShared
<1>1. PoolInit => Shared!Init
  <2> SUFFICES ASSUME PoolInit PROVE Shared!Init OBVIOUS
  <2>1. \A k \in Keys : Holding(k) = {}
    BY DEF PoolInit, At
  <2> QED BY <2>1 DEF PoolInit, Shared!Init
<1>2. PoolInv /\ [PoolNext]_poolVars => [exited' \/ Shared!Next]_<<H, U>>
  BY StepRefines
<1> QED BY <1>1, <1>2, PoolInvariance, PTL DEF PoolSpec, RefinesShared, H, U
-----------------------------------------------------------------------------
(* The sessions.  First, what every overlap of calls leaves alone.         *)

(* A client is as far with the pool as start() and shutdown() have brought *)
(* it: it acquires once, and releases once what it acquired.               *)
Stages ==
    \A c \in Clients :
        /\ life[c] = "new" => client[c].pc = "idle"
        /\ life[c] = "start" => client[c].pc # "out"
        /\ life[c] \in {"session", "connected", "live", "closing"} =>
              client[c].pc = "held"
        /\ life[c] \in {"released", "gone"} => client[c].pc = "out"

(* A kernel goes with the Jupyter session of its client.                   *)
Kernels ==
    \A c \in Clients : kernel[c] # NoHandle =>
        life[c] \in {"session", "connected", "live", "closing"}

Starting(c) == life[c] \in {"start", "session", "connected"}

(* The user waits: a buffer has one call at a time, and none is left when  *)
(* Vim exits.                                                              *)
OneCall ==
    /\ \A t, u \in Calls :
          Running(t) /\ Running(u) /\ call[t].buf = call[u].buf => t = u
    /\ \A c, d \in Clients :
          Starting(c) /\ Starting(d) /\ buf[c] = buf[d] => c = d
    /\ \A c \in Clients, t \in Calls :
          Starting(c) /\ Running(t) => buf[c] # call[t].buf
    /\ exit.on => /\ \A c \in Clients : ~Starting(c)
                  /\ \A t \in Calls : ~Running(t)

(* A client is in the session of its own buffer, from its installation to  *)
(* the end of its shutdown and perhaps longer.                             *)
Slots ==
    /\ \A b \in Buffers, c \in Clients :
          Has(b, c) => /\ buf[c] = b
                       /\ life[c] \in {"live", "closing", "released", "gone"}
    /\ \A c \in Clients : life[c] = "live" => Has(buf[c], c)
    /\ \A c \in Clients : Starting(c) => Has(buf[c], NoClient)

(* What a call captured is what there still is, and its client is shut down *)
(* before the session drops it.                                            *)
Captured ==
    \A t \in Calls :
        /\ call[t].pc \in {"comms", "wait", "rest"} =>
              call[t].sess # NoSession /\ sess[call[t].buf] = call[t].sess
        /\ call[t].pc \in {"comms", "wait"} => call[t].sess.kr # NoClient
        /\ call[t].pc \in {"wait", "rest"} /\ call[t].sess.kr # NoClient =>
              life[call[t].sess.kr] # "live"
        /\ call[t].pc = "load" => sess[call[t].buf] = NoSession

(* A client of a session that is being shut down is awaited.               *)
Awaited ==
    \A c \in Clients : InSlot(c) /\ life[c] \in {"closing", "released"} =>
        \/ c \in exit.wait
        \/ \E t \in Calls : call[t].pc = "wait" /\ call[t].sess.kr = c

(* atexit gets to every client of a session before it kills the servers.   *)
Exiting ==
    /\ exit.on => \A c \in Clients : InSlot(c) =>
          c \in exit.todo \cup exit.wait \/ life[c] = "gone"
    /\ exited => exit.on /\ exit.todo = {} /\ exit.wait = {}
    /\ ~exit.on => exit.todo = {} /\ exit.wait = {}

Calm == OneCall /\ Slots /\ Captured /\ Awaited /\ Exiting

IInv == TypeOK /\ Stages /\ Kernels /\ Calm

-----------------------------------------------------------------------------
(* Types, with any overlap.                                                *)

SessionVars == <<sess, life, buf, kernel, call, exit>>

LEMMA SessionsClosed ==
    ASSUME NEW s \in Sessions, s # NoSession
    PROVE  /\ \A c \in Clients \cup {NoClient} : [s EXCEPT !.kr = c] \in Sessions
           /\ s.kr \in Clients \cup {NoClient} /\ s.by \in Calls
BY DEF Sessions

LEMMA InstalledType ==
    ASSUME TypeOK, NEW b \in Buffers, NEW c \in Clients \cup {NoClient},
           sess[b] # NoSession
    PROVE  [sess EXCEPT ![b].kr = c] \in [Buffers -> Sessions]
<1>1. sess[b] \in Sessions /\ [sess[b] EXCEPT !.kr = c] \in Sessions
  BY SessionsClosed DEF TypeOK
<1> QED BY <1>1 DEF TypeOK

LEMMA TypeInit == Init => TypeOK
<1> SUFFICES ASSUME Init PROVE TypeOK
  OBVIOUS
<1>1. PoolTypeOK
  BY InitPoolInv DEF Init, PoolInv
<1> QED BY <1>1 DEF Init, TypeOK, NewCall, Sessions, Kinds

LEMMA TypeStep ==
    ASSUME TypeOK, PoolTypeOK', [Next]_vars
    PROVE  TypeOK'
<1> USE DEF TypeOK
<1>1. ASSUME NEW b \in Buffers, NEW c \in Clients, StartKernel(c, b)
      PROVE  TypeOK'
  BY <1>1 DEF StartKernel
<1>2. ASSUME NEW b \in Buffers, NEW t \in Calls,
             ShutdownKernel(t, b) \/ Cleanup(t, b) \/ Open(t, b)
      PROVE  TypeOK'
  <2>1. PICK kind \in Kinds, pc \in {"comms", "rest", "load"} : Begin(t, kind, b, pc)
    BY <1>2 DEF ShutdownKernel, Cleanup, Open, Kinds
  <2> QED BY <2>1 DEF Begin
<1>3. ASSUME NEW c \in Clients, NEW k \in Keys, Acquire(c, k)
      PROVE  TypeOK'
  BY <1>3 DEF Acquire
<1>4. ASSUME NEW c \in Clients, SessionCreated(c)
      PROVE  TypeOK'
  <2>1. active[client[c].key] \in Handles \cup {NoHandle}
    BY DEF PoolTypeOK
  <2> QED BY <1>4, <2>1 DEF SessionCreated
<1>5. ASSUME NEW c \in Clients,
             SessionRefused(c) \/ HandshakeFails(c) \/ Connected(c) \/ InstallFails(c)
                \/ Deleted(c)
      PROVE  TypeOK'
  BY <1>5 DEF SessionRefused, HandshakeFails, Connected, InstallFails, Deleted
<1>15. ASSUME NEW c \in Clients, ShutdownEnds(c)
       PROVE  TypeOK'
  BY <1>15 DEF ShutdownEnds
<1>16. ASSUME NEW c \in Clients, ExitShutsDown(c)
       PROVE  TypeOK'
  <2>1. PICK on \in BOOLEAN, todo \in SUBSET Clients, wait \in SUBSET Clients :
           exit = [on |-> on, todo |-> todo, wait |-> wait]
    OBVIOUS
  <2>2. exit' \in [on : BOOLEAN, todo : SUBSET Clients, wait : SUBSET Clients]
    <3>1. CASE life[c] = "live"
      <4>1. exit' = [exit EXCEPT !.todo = @ \ {c}, !.wait = @ \cup {c}]
        BY <1>16, <3>1 DEF ExitShutsDown
      <4>2. exit' = [on |-> on, todo |-> todo \ {c}, wait |-> wait \cup {c}]
        BY <2>1, <4>1
      <4> QED BY <4>2
    <3>2. CASE life[c] # "live"
      BY <1>16, <2>1, <3>2 DEF ExitShutsDown
    <3> QED BY <3>1, <3>2
  <2>3. life' \in [Clients -> {"new", "start", "session", "connected", "live",
                              "closing", "released", "gone"}]
    BY <1>16 DEF ExitShutsDown
  <2> QED BY <1>16, <2>2, <2>3 DEF ExitShutsDown
<1>6. ASSUME NEW c \in Clients, Install(c)
      PROVE  TypeOK'
  BY <1>6, InstalledType DEF Install
<1>7. ASSUME NEW t \in Calls, ShutdownClient(t)
      PROVE  TypeOK'
  BY <1>7 DEF ShutdownClient, Goto
<1>8. ASSUME NEW t \in Calls, ShutdownReturns(t) \/ LoadFails(t)
      PROVE  TypeOK'
  BY <1>8 DEF ShutdownReturns, LoadFails, Goto
<1>9. ASSUME NEW t \in Calls, DropRuntime(t)
      PROVE  TypeOK'
  BY <1>9, InstalledType DEF DropRuntime, Goto
<1>10. ASSUME NEW t \in Calls, RemoveSession(t) \/ AddSession(t)
       PROVE  TypeOK'
  <2>1. NoSession \in Sessions /\ [by |-> t, kr |-> NoClient] \in Sessions
    BY DEF Sessions
  <2> QED BY <1>10, <2>1, SMTT(30) DEF RemoveSession, AddSession, Goto
<1>11. ASSUME NEW k \in Keys, SpawnRefused(k)
       PROVE  TypeOK'
  BY <1>11 DEF SpawnRefused
<1>12. CASE \/ \E k \in Keys, h \in Handles : Spawned(k, h)
            \/ \E h \in Handles : ProcessEnds(h)
            \/ ExitKillsAll
  BY <1>12 DEF Spawned, ProcessEnds, ExitKillsAll
<1>13. CASE ExitBegins
  BY <1>13 DEF ExitBegins
<1>14. CASE UNCHANGED vars
  BY <1>14 DEF vars
<1> QED BY <1>1, <1>2, <1>3, <1>4, <1>5, <1>6, <1>7, <1>8, <1>9, <1>10, <1>11, <1>12,
           <1>13, <1>14, <1>15, <1>16 DEF Next, ClientStep, OwnStep, ServerAnswers,
            CallStep, ServerStep

-----------------------------------------------------------------------------
(* Stages, with any overlap.                                               *)

(* A client that releases is out, and the others stand where they stood.   *)
LEMMA Releases ==
    ASSUME TypeOK, NEW c \in Clients, Released(c)
    PROVE  /\ client'[c].pc = "out"
           /\ \A d \in Clients : d # c => client'[d] = client[d]
BY DEF Released, MoveTo

LEMMA StagesStep ==
    ASSUME TypeOK, Stages, [Next]_vars
    PROVE  Stages'
<1> USE DEF TypeOK, Stages
<1>1. ASSUME NEW b \in Buffers, NEW c \in Clients, StartKernel(c, b)
      PROVE  Stages'
  BY <1>1 DEF StartKernel, poolVars
<1>2. ASSUME NEW b \in Buffers, NEW t \in Calls,
             ShutdownKernel(t, b) \/ Cleanup(t, b) \/ Open(t, b)
      PROVE  Stages'
  BY <1>2 DEF ShutdownKernel, Cleanup, Open, Begin, poolVars
<1>3. ASSUME NEW c \in Clients, NEW k \in Keys, Acquire(c, k)
      PROVE  Stages'
  <2>1. /\ life[c] = "start" /\ life' = life
        /\ MoveTo({c}, k, "held") \/ MoveTo({c}, k, "waiting")
    BY <1>3 DEF Acquire, AcquireActive, AcquireJoin, AcquireSpawn
  <2>2. /\ client'[c].pc \in {"held", "waiting"}
        /\ \A d \in Clients : d # c => client'[d] = client[d]
    BY <2>1 DEF MoveTo
  <2> QED BY <2>1, <2>2, SMTT(30)
<1>4. ASSUME NEW c \in Clients,
             SessionCreated(c) \/ Connected(c) \/ Install(c) \/ InstallFails(c)
                \/ ShutdownEnds(c) \/ ExitShutsDown(c)
      PROVE  Stages'
  BY <1>4 DEF SessionCreated, Connected, Install, InstallFails, ShutdownEnds,
              ExitShutsDown, poolVars
<1>5. ASSUME NEW c \in Clients, SessionRefused(c) \/ HandshakeFails(c) \/ Deleted(c)
      PROVE  Stages'
  <2>1. /\ Released(c)
        /\ life' = [life EXCEPT ![c] = "gone"] \/ life' = [life EXCEPT ![c] = "released"]
    BY <1>5 DEF SessionRefused, HandshakeFails, Deleted
  <2>2. /\ client'[c].pc = "out"
        /\ \A d \in Clients : d # c => client'[d] = client[d]
    BY <2>1, Releases
  <2> QED BY <2>1, <2>2
<1>6. ASSUME NEW t \in Calls, CallStep(t)
      PROVE  Stages'
  BY <1>6 DEF CallStep, ShutdownClient, ShutdownReturns, DropRuntime, RemoveSession,
              AddSession, LoadFails, poolVars
<1>7. ASSUME NEW k \in Keys, SpawnRefused(k)
      PROVE  Stages'
  <2>1. \A c \in Clients : IF c \in Waiting(k)
                           THEN life'[c] = "gone" /\ client'[c].pc = "out"
                           ELSE life'[c] = life[c] /\ client'[c] = client[c]
    BY <1>7 DEF SpawnRefused, SpawnFails, MoveTo
  <2> QED BY <2>1
<1>8. ASSUME NEW k \in Keys, NEW h \in Handles, Spawned(k, h)
      PROVE  Stages'
  <2>1. \A c \in Clients : IF c \in Waiting(k) THEN client'[c].pc = "held"
                           ELSE client'[c] = client[c]
    BY <1>8 DEF Spawned, SpawnEnds, MoveTo
  <2>2. life' = life /\ \A c \in Clients : c \in Waiting(k) => client[c].pc = "waiting"
    BY <1>8 DEF Spawned, At
  <2>3. \A c \in Clients : c \in Waiting(k) => life[c] = "start"
    BY <2>2
  <2> QED BY <2>1, <2>2, <2>3
<1>9. CASE \/ \E h \in Handles : ProcessEnds(h)
           \/ ExitBegins \/ ExitKillsAll \/ UNCHANGED vars
  BY <1>9 DEF ProcessEnds, Killed, ExitBegins, ExitKillsAll, KillAll, vars, poolVars
<1> QED BY <1>1, <1>2, <1>3, <1>4, <1>5, <1>6, <1>7, <1>8, <1>9
           DEF Next, ClientStep, OwnStep, ServerAnswers, ServerStep

-----------------------------------------------------------------------------
(* The sessions as clients of the pool.                                    *)

(* Every step of the sessions is a step of the pool or leaves it alone: who *)
(* comes to a release is at a stage where it holds.                        *)
LEMMA PoolStep ==
    ASSUME Stages, [Next]_vars
    PROVE  [PoolNext]_poolVars
<1>1. ASSUME NEW c \in Clients, NEW k \in Keys, Acquire(c, k)
      PROVE  PoolNext
  BY <1>1 DEF Acquire, PoolNext
<1>2. ASSUME NEW c \in Clients, SessionRefused(c) \/ HandshakeFails(c) \/ Deleted(c)
      PROVE  PoolNext
  <2>1. client[c].pc = "held" /\ Released(c)
    BY <1>2 DEF SessionRefused, HandshakeFails, Deleted, Stages
  <2> QED BY <2>1 DEF Release, PoolNext
<1>3. ASSUME ServerStep
      PROVE  PoolNext
  BY <1>3 DEF ServerStep, SpawnRefused, Spawned, ProcessEnds, PoolNext
<1>4. ASSUME ExitKillsAll
      PROVE  PoolNext
  BY <1>4 DEF ExitKillsAll, PoolNext
<1>5. ASSUME NEW c \in Clients, ClientStep(c)
      PROVE  PoolNext \/ UNCHANGED poolVars
  BY <1>1, <1>2, <1>5 DEF ClientStep, OwnStep, ServerAnswers,
            SessionCreated, Connected, Install, InstallFails,
                          ShutdownEnds, ExitShutsDown
<1>6. ASSUME NEW t \in Calls, CallStep(t)
      PROVE  UNCHANGED poolVars
  BY <1>6 DEF CallStep, ShutdownClient, ShutdownReturns, DropRuntime, RemoveSession,
              AddSession, LoadFails
<1>7. ASSUME NEW b \in Buffers, NEW c \in Clients, StartKernel(c, b)
      PROVE  UNCHANGED poolVars
  BY <1>7 DEF StartKernel
<1>8. ASSUME NEW b \in Buffers, NEW t \in Calls,
             ShutdownKernel(t, b) \/ Cleanup(t, b) \/ Open(t, b)
      PROVE  UNCHANGED poolVars
  BY <1>8 DEF ShutdownKernel, Cleanup, Open, Begin
<1>9. ASSUME ExitBegins \/ UNCHANGED vars
      PROVE  UNCHANGED poolVars
  BY <1>9 DEF ExitBegins, vars, poolVars
<1> QED BY <1>3, <1>4, <1>5, <1>6, <1>7, <1>8, <1>9 DEF Next

(* The stages and what the pool counts, kept together by every step.       *)
Usage == PoolInv /\ TypeOK /\ Stages

LEMMA UsageHolds == Spec => []Usage
<1>1. Init => Usage
  <2> SUFFICES ASSUME Init PROVE Usage
    OBVIOUS
  <2>1. Stages
    BY DEF Init, PoolInit, Stages
  <2> QED BY <2>1, TypeInit, InitPoolInv DEF Init, Usage
<1>2. Usage /\ [Next]_vars => Usage'
  <2> SUFFICES ASSUME Usage, [Next]_vars PROVE Usage'
    OBVIOUS
  <2>1. PoolInv'
    BY PoolStep, PoolInvStep DEF Usage
  <2>2. TypeOK'
    BY <2>1, TypeStep DEF Usage, PoolInv
  <2> QED BY <2>1, <2>2, StagesStep DEF Usage
<1> QED BY <1>1, <1>2, PTL DEF Spec

(* Whatever calls overlap and whatever fails, each client acquires once and *)
(* releases only what it holds (server-client.ts, start and shutdown): the *)
(* release of the code asks nothing, so this rests on the stages, of which *)
(* a second shutdown, an exit that overlaps a close, or a failed start may *)
(* not repeat one.                                                         *)
THEOREM SessionsUsePool == Spec => RefinesPool
<1>1. Init => PoolInit
  BY DEF Init
<1>2. Usage /\ [Next]_vars => [PoolNext]_poolVars
  BY PoolStep DEF Usage
<1> QED BY <1>1, <1>2, UsageHolds, PTL DEF Spec, PoolSpec, RefinesPool

LEMMA PoolHolds == Spec => []PoolInv
BY SessionsUsePool, PoolInvariance DEF RefinesPool

(* So the pool's own theorems hold of it under the sessions: the server of *)
(* a buffer dies with its last client, and with no other.                  *)
THEOREM ServersCounted == Spec => [](RefcountExact /\ HoldersServed)
BY SessionsUsePool, CountersExact, ServerUnderHolders, PTL DEF RefinesPool

-----------------------------------------------------------------------------
(* Kernels, with any overlap.                                              *)

(* Only a client that has sent its session's DELETE, or whose POST was     *)
(* refused, forgets its kernel; one whose handshake fails forgets it, too  *)
(* early.                                                                  *)
LEMMA KernelsStep ==
    ASSUME "handshake" \notin Faults, TypeOK, Stages, Kernels, [Next]_vars
    PROVE  Kernels'
<1> USE DEF TypeOK, Kernels
<1>1. ASSUME NEW b \in Buffers, NEW c \in Clients, StartKernel(c, b)
      PROVE  Kernels'
  BY <1>1 DEF StartKernel
<1>2. ASSUME NEW c \in Clients, SessionCreated(c)
      PROVE  Kernels'
  <2>1. /\ life' = [life EXCEPT ![c] = "session"]
        /\ \A d \in Clients : d # c => kernel'[d] = kernel[d]
    BY <1>2 DEF SessionCreated
  <2> QED BY <2>1
<1>3. ASSUME NEW c \in Clients,
             SessionRefused(c) \/ Connected(c) \/ Install(c) \/ InstallFails(c)
                \/ Deleted(c) \/ ShutdownEnds(c) \/ ExitShutsDown(c)
      PROVE  Kernels'
  BY <1>3 DEF SessionRefused, Connected, Install, InstallFails, Deleted, ShutdownEnds,
              ExitShutsDown
<1>4. ASSUME NEW t \in Calls, CallStep(t)
      PROVE  Kernels'
  BY <1>4 DEF CallStep, ShutdownClient, ShutdownReturns, DropRuntime, RemoveSession,
              AddSession, LoadFails
<1>5. ASSUME NEW k \in Keys, SpawnRefused(k)
      PROVE  Kernels'
  <2>1. \A c \in Clients : c \in Waiting(k) => client[c].pc = "waiting"
    BY DEF At
  <2>2. \A c \in Clients : c \in Waiting(k) => kernel[c] = NoHandle
    BY <2>1 DEF Stages
  <2> QED BY <1>5, <2>2 DEF SpawnRefused
<1>6. ASSUME NEW c \in Clients, HandshakeFails(c)
      PROVE  FALSE
  BY <1>6 DEF HandshakeFails
<1>7. CASE UNCHANGED <<life, kernel>>
  BY <1>7
<1>8. ASSUME \/ \E b \in Buffers, t \in Calls :
                  ShutdownKernel(t, b) \/ Cleanup(t, b) \/ Open(t, b)
             \/ \E c \in Clients, k \in Keys : Acquire(c, k)
             \/ \E k \in Keys, h \in Handles : Spawned(k, h)
             \/ \E h \in Handles : ProcessEnds(h)
             \/ ExitBegins \/ ExitKillsAll \/ UNCHANGED vars
      PROVE  UNCHANGED <<life, kernel>>
  BY <1>8 DEF ShutdownKernel, Cleanup, Open, Begin, Acquire, Spawned, ProcessEnds,
              ExitBegins, ExitKillsAll, vars
<1> QED BY <1>1, <1>2, <1>3, <1>4, <1>5, <1>6, <1>7, <1>8
           DEF Next, ClientStep, OwnStep, ServerAnswers, ServerStep

-----------------------------------------------------------------------------
(* A user who waits for each call to end.                                  *)

LEMMA Waits ==
    ASSUME Overlap = {}, TypeOK, NEW b \in Buffers, NEW kind, MayCall(kind, b)
    PROVE  /\ \A c \in Clients : buf[c] = b => ~Starting(c)
           /\ \A t \in Calls : call[t].buf = b => ~Running(t)
           /\ ~exit.on
<1>1. Busy(b) = {}
  BY DEF MayCall
<1> QED BY <1>1 DEF Busy, Starting

(* What changes nothing of the sessions keeps the invariant.               *)
LEMMA CalmStutter ==
    ASSUME Calm, UNCHANGED SessionVars, exited' = exited
    PROVE  Calm'
BY DEF Calm, SessionVars, OneCall, Running, Starting, Slots, Has, Captured, Awaited, InSlot,
       Exiting

(* No call and no start begins.                                            *)
LEMMA OneCallKept ==
    ASSUME OneCall, buf' = buf, exit'.on = exit.on,
           \A t \in Calls : call'[t].buf = call[t].buf /\ (Running(t)' => Running(t)),
           \A c \in Clients : Starting(c)' => Starting(c)
    PROVE  OneCall'
BY DEF OneCall

LEMMA StartKernelCalm ==
    ASSUME Overlap = {}, TypeOK, Calm, NEW b \in Buffers, NEW c \in Clients,
           StartKernel(c, b)
    PROVE  Calm'
<1> USE DEF TypeOK
<1>1. /\ life[c] = "new" /\ Has(b, NoClient)
      /\ life' = [life EXCEPT ![c] = "start"] /\ buf' = [buf EXCEPT ![c] = b]
      /\ UNCHANGED <<sess, call, exit, exited>>
  BY DEF StartKernel, poolVars
<1>2. /\ \A d \in Clients : buf[d] = b => ~Starting(d)
      /\ \A t \in Calls : call[t].buf = b => ~Running(t)
      /\ ~exit.on
  BY Waits DEF StartKernel
<1>3. OneCall'
  BY <1>1, <1>2 DEF Calm, OneCall, Starting, Running
<1>4. Slots'
  BY <1>1 DEF Calm, Slots, Has, Starting
<1>5. Captured'
  BY <1>1 DEF Calm, Captured
<1>6. Awaited' /\ Exiting'
  BY <1>1 DEF Calm, Awaited, Exiting, InSlot, Has
<1> QED BY <1>3, <1>4, <1>5, <1>6 DEF Calm

LEMMA BeginCalm ==
    ASSUME Overlap = {}, TypeOK, Calm, NEW b \in Buffers, NEW t \in Calls,
           ShutdownKernel(t, b) \/ Cleanup(t, b) \/ Open(t, b)
    PROVE  Calm'
<1> USE DEF TypeOK
<1>1. PICK kind \in Kinds, pc \in {"comms", "rest", "load"} :
        /\ Begin(t, kind, b, pc)
        /\ pc = "comms" => sess[b] # NoSession /\ sess[b].kr # NoClient
        /\ pc = "rest" => sess[b] # NoSession /\ sess[b].kr = NoClient
        /\ pc = "load" => sess[b] = NoSession
  BY DEF ShutdownKernel, Cleanup, Open, Kinds, Has
<1>2. /\ call[t].pc = "new" /\ MayCall(kind, b)
      /\ call' = [call EXCEPT ![t] = [kind |-> kind, pc |-> pc, buf |-> b, sess |-> sess[b]]]
      /\ UNCHANGED <<sess, life, buf, exit, exited>>
  BY <1>1 DEF Begin, poolVars
<1>3. /\ call'[t].pc = pc /\ call'[t].buf = b /\ call'[t].sess = sess[b]
      /\ \A u \in Calls : u # t => call'[u] = call[u]
  BY <1>2
<1>4. /\ \A c \in Clients : buf[c] = b => ~Starting(c)
      /\ \A u \in Calls : call[u].buf = b => ~Running(u)
      /\ ~exit.on
  BY <1>2, Waits
<1>5. OneCall'
  BY <1>2, <1>3, <1>4 DEF Calm, OneCall, Starting, Running
<1>6. Slots'
  BY <1>2 DEF Calm, Slots, Has, Starting
<1>7. Captured'
  BY <1>1, <1>2, <1>3 DEF Calm, Captured
<1>8. Awaited' /\ Exiting'
  BY <1>2, <1>3 DEF Calm, Awaited, Exiting, InSlot, Has
<1> QED BY <1>5, <1>6, <1>7, <1>8 DEF Calm

(* A start that goes on, or fails before there is a runtime to install.    *)
LEMMA StartingCalm ==
    ASSUME TypeOK, Stages, Calm, UNCHANGED <<sess, buf, call, exit, exited>>,
           life' \in [Clients -> {"new", "start", "session", "connected", "live",
                                  "closing", "released", "gone"}],
           \A c \in Clients : life'[c] # life[c] =>
                 Starting(c) /\ life'[c] \in {"session", "connected", "closing", "gone"}
    PROVE  Calm'
<1> USE DEF TypeOK
<1>1. \A c \in Clients : Starting(c)' => Starting(c)
  BY DEF Starting
<1>2. \A c \in Clients : life[c] = "live" <=> life'[c] = "live"
  BY DEF Starting
<1>3. \A b \in Buffers, c \in Clients : Has(b, c) => ~Starting(c)
  BY DEF Calm, Slots, Starting
<1>4. OneCall'
  BY <1>1 DEF Calm, OneCall, Running
<1>5. Slots'
  BY <1>1, <1>2, <1>3 DEF Calm, Slots, Has
<1>6. Captured'
  <2>1. ASSUME NEW t \in Calls, call[t].pc \in {"wait", "rest"}, call[t].sess.kr # NoClient
        PROVE  life'[call[t].sess.kr] # "live"
    <3>1. call[t].sess \in Sessions /\ call[t].sess # NoSession
      BY <2>1 DEF Calm, Captured
    <3>2. call[t].sess.kr \in Clients
      BY <2>1, <3>1, SessionsClosed
    <3> QED BY <1>2, <2>1, <3>2 DEF Calm, Captured
  <2> QED BY <2>1 DEF Calm, Captured
<1>7. Awaited' /\ Exiting'
  BY <1>3 DEF Calm, Awaited, Exiting, InSlot, Has
<1> QED BY <1>4, <1>5, <1>6, <1>7 DEF Calm

LEMMA InstallCalm ==
    ASSUME TypeOK, Calm, NEW c \in Clients, Install(c)
    PROVE  Calm'
<1> USE DEF TypeOK
<1> DEFINE b == buf[c]
<1>1. /\ life[c] = "connected" /\ life' = [life EXCEPT ![c] = "live"]
      /\ UNCHANGED <<buf, call, exit, exited>>
  BY DEF Install, poolVars
<1>2. Has(b, NoClient) /\ b \in Buffers /\ Starting(c)
  BY <1>1 DEF Calm, Slots, Starting
<1>3. /\ sess' = [sess EXCEPT ![b].kr = c] /\ sess[b] \in Sessions /\ sess[b] # NoSession
  BY <1>2 DEF Install, Has
<1>4. /\ sess'[b] # NoSession /\ sess'[b].kr = c
      /\ \A d \in Buffers : d # b => sess'[d] = sess[d]
  <2>1. PICK t \in Calls, d \in Clients \cup {NoClient} : sess[b] = [by |-> t, kr |-> d]
    BY <1>3 DEF Sessions
  <2>2. sess'[b] = [by |-> t, kr |-> c]
    BY <1>2, <1>3, <2>1
  <2> QED BY <1>3, <2>2, LifecycleAssumption
<1>5. /\ \A t \in Calls : call[t].buf = b => ~Running(t)
      /\ \A d \in Clients : d # c /\ buf[d] = b => ~Starting(d)
      /\ ~exit.on
  BY <1>2 DEF Calm, OneCall
<1>6. OneCall'
  BY <1>1 DEF Calm, OneCall, Starting, Running
<1>7. Slots'
  <2>1. ASSUME NEW d \in Clients, d # c
        PROVE  /\ life'[d] = life[d] /\ buf[d] = b => ~Starting(d) /\ life[d] # "live"
               /\ \A e \in Buffers : Has(e, d)' => Has(e, d) /\ e # b
    BY <1>1, <1>2, <1>4, <1>5, <2>1, LifecycleAssumption DEF Has, Calm, Slots
  <2>2. \A e \in Buffers : Has(e, c)' => e = b
    BY <1>1, <1>4 DEF Has, Calm, Slots
  <2> QED BY <1>1, <1>4, <2>1, <2>2 DEF Calm, Slots, Has, Starting
<1>8. Captured'
  <2>1. \A t \in Calls : Running(t) => call[t].buf # b /\ sess'[call[t].buf] = sess[call[t].buf]
    BY <1>4, <1>5
  <2>2. \A t \in Calls : call[t].pc \in {"comms", "wait", "rest"} =>
            Has(call[t].buf, call[t].sess.kr)
    BY DEF Calm, Captured, Has
  <2>3. \A t \in Calls : call[t].pc \in {"comms", "wait", "rest"} => call[t].sess.kr # c
    BY <1>1, <2>2 DEF Calm, Slots
  <2> QED BY <1>1, <2>1, <2>3 DEF Calm, Captured, Running
<1>9. Awaited' /\ Exiting'
  BY <1>1, <1>4, <1>5, SMTT(30) DEF Calm, Awaited, Exiting, InSlot, Has
<1> QED BY <1>6, <1>7, <1>8, <1>9 DEF Calm

(* shutdown() of a client that no session has, or that someone awaits, ends *)
(* its two steps.                                                          *)
LEMMA DeletedCalm ==
    ASSUME TypeOK, Calm, NEW c \in Clients, Deleted(c) \/ ShutdownEnds(c)
    PROVE  Calm'
<1> USE DEF TypeOK
<1>1. /\ \/ life[c] = "closing" /\ life' = [life EXCEPT ![c] = "released"]
            /\ exit' = exit
         \/ life[c] = "released" /\ life' = [life EXCEPT ![c] = "gone"]
            /\ exit' = [exit EXCEPT !.wait = @ \ {c}]
      /\ UNCHANGED <<sess, buf, call, exited>>
  BY DEF Deleted, ShutdownEnds, Released, poolVars
<1>2. /\ exit'.on = exit.on /\ exit'.todo = exit.todo
      /\ \/ exit'.wait = exit.wait
         \/ life'[c] = "gone" /\ exit'.wait = exit.wait \ {c}
  <2>1. PICK on \in BOOLEAN, todo \in SUBSET Clients, wait \in SUBSET Clients :
           exit = [on |-> on, todo |-> todo, wait |-> wait]
    OBVIOUS
  <2>2. CASE exit' = exit
    BY <2>2
  <2>3. CASE life'[c] = "gone" /\ exit' = [exit EXCEPT !.wait = @ \ {c}]
    <3>1. exit' = [on |-> on, todo |-> todo, wait |-> wait \ {c}]
      BY <2>1, <2>3
    <3> QED BY <2>1, <2>3, <3>1
  <2> QED BY <1>1, <2>2, <2>3
<1>3. \A d \in Clients : Starting(d)' = Starting(d) /\ (life'[d] = "live") = (life[d] = "live")
  BY <1>1 DEF Starting
<1>4. OneCall'
  BY <1>1, <1>2, <1>3 DEF Calm, OneCall, Running
<1>5. Slots'
  BY <1>1, <1>3 DEF Calm, Slots, Has
<1>6. Captured'
  <2>1. ASSUME NEW t \in Calls, call[t].pc \in {"wait", "rest"}, call[t].sess.kr # NoClient
        PROVE  life'[call[t].sess.kr] # "live"
    <3>1. call[t].sess \in Sessions /\ call[t].sess # NoSession
      BY <2>1 DEF Calm, Captured
    <3>2. call[t].sess.kr \in Clients
      BY <2>1, <3>1, SessionsClosed
    <3> QED BY <1>3, <2>1, <3>2 DEF Calm, Captured
  <2> QED BY <1>1, <2>1 DEF Calm, Captured
<1>7. Awaited' /\ Exiting'
  BY <1>1, <1>2 DEF Calm, Awaited, Exiting, InSlot, Has
<1> QED BY <1>4, <1>5, <1>6, <1>7 DEF Calm

LEMMA ShutdownClientCalm ==
    ASSUME TypeOK, Calm, NEW t \in Calls, ShutdownClient(t)
    PROVE  Calm'
<1> USE DEF TypeOK
<1>0. PICK c : c = call[t].sess.kr
  OBVIOUS
<1>1. /\ call[t].pc = "comms" /\ UNCHANGED <<sess, buf, exit, exited>>
      /\ \/ /\ life[c] = "live" /\ life' = [life EXCEPT ![c] = "closing"]
            /\ call' = [call EXCEPT ![t].pc = "wait"]
         \/ /\ life[c] # "live" /\ life' = life
            /\ call' = [call EXCEPT ![t].pc = "rest"]
  BY <1>0 DEF ShutdownClient, Goto, poolVars
<1>2. /\ sess[call[t].buf] = call[t].sess /\ call[t].sess \in Sessions
      /\ call[t].sess # NoSession /\ c # NoClient
  BY <1>0, <1>1 DEF Calm, Captured
<1>3. c \in Clients /\ Has(call[t].buf, c)
  BY <1>0, <1>2, SessionsClosed DEF Has
<1>4. /\ \/ call'[t].pc = "wait" /\ life'[c] = "closing"
         \/ call'[t].pc = "rest" /\ life[c] # "live"
      /\ call'[t].buf = call[t].buf /\ call'[t].sess = call[t].sess
      /\ \A u \in Calls : u # t => call'[u] = call[u]
      /\ \A d \in Clients : d # c => life'[d] = life[d]
      /\ \/ life'[c] = life[c]
         \/ life[c] = "live" /\ life'[c] = "closing" /\ call'[t].pc = "wait"
  <2>1. CASE life[c] = "live"
    BY <1>1, <1>3, <2>1
  <2>2. CASE life[c] # "live"
    BY <1>1, <1>3, <2>2
  <2> QED BY <2>1, <2>2
<1>5. \A u \in Calls : Running(u)' = Running(u)
  BY <1>1, <1>4 DEF Running
<1>6. \A d \in Clients : Starting(d)' = Starting(d) /\ (life'[d] = "live" => life[d] = "live")
  BY <1>4 DEF Starting
<1>7. Running(t) /\ ~exit.on
  BY <1>1 DEF Running, Calm, OneCall
<1>8. OneCall'
  <2>1. \A u \in Calls : call'[u].buf = call[u].buf
    BY <1>4
  <2> QED BY <1>1, <1>5, <1>6, <2>1, OneCallKept DEF Calm
<1>9. Slots'
  BY <1>1, <1>3, <1>4, <1>6 DEF Calm, Slots, Has
<1>10. Captured'
  <2>1. ASSUME NEW u \in Calls, u # t, call[u].pc \in {"wait", "rest"},
               call[u].sess.kr # NoClient
        PROVE  life'[call[u].sess.kr] # "live"
    <3>1. call[u].sess \in Sessions /\ call[u].sess # NoSession
      BY <2>1 DEF Calm, Captured
    <3>2. call[u].sess.kr \in Clients
      BY <2>1, <3>1, SessionsClosed
    <3> QED BY <1>6, <2>1, <3>2 DEF Calm, Captured
  <2>2. call'[t].pc \in {"wait", "rest"} /\ call[t].sess.kr = c /\ life'[c] # "live"
    BY <1>0, <1>4, <1>6
  <2> QED BY <1>1, <1>2, <1>4, <2>1, <2>2 DEF Calm, Captured
<1>11. Awaited'
  BY <1>0, <1>1, <1>4 DEF Calm, Awaited, InSlot, Has
<1>12. Exiting'
  BY <1>1, <1>7 DEF Calm, Exiting
<1> QED BY <1>8, <1>9, <1>10, <1>11, <1>12 DEF Calm

LEMMA ShutdownReturnsCalm ==
    ASSUME TypeOK, Calm, NEW t \in Calls, ShutdownReturns(t)
    PROVE  Calm'
<1> USE DEF TypeOK
<1>1. /\ call[t].pc = "wait" /\ life[call[t].sess.kr] = "gone"
      /\ call' = [call EXCEPT ![t].pc = "rest"]
      /\ UNCHANGED <<sess, life, buf, exit, exited>>
  BY DEF ShutdownReturns, Goto, poolVars
<1>2. /\ call'[t].pc = "rest" /\ call'[t].buf = call[t].buf /\ call'[t].sess = call[t].sess
      /\ \A u \in Calls : u # t => call'[u] = call[u]
  BY <1>1
<1>3. OneCall'
  BY <1>1, <1>2 DEF Calm, OneCall, Running, Starting
<1>4. Slots' /\ Exiting'
  BY <1>1 DEF Calm, Slots, Has, Starting, InSlot, Exiting
<1>5. Captured'
  BY <1>1, <1>2 DEF Calm, Captured
<1>6. Awaited'
  BY <1>1, <1>2 DEF Calm, Awaited, InSlot, Has
<1> QED BY <1>3, <1>4, <1>5, <1>6 DEF Calm

(* The end of a call, which alone touches its buffer.                      *)
LEMMA CallEndsCalm ==
    ASSUME TypeOK, Calm, NEW t \in Calls,
           DropRuntime(t) \/ RemoveSession(t) \/ AddSession(t) \/ LoadFails(t)
    PROVE  Calm'
<1> USE DEF TypeOK
<1>0. PICK b \in Buffers : b = call[t].buf
  OBVIOUS
<1>1. /\ call[t].pc \in {"rest", "load"}
      /\ \/ call' = [call EXCEPT ![t].pc = "done"]
         \/ RemoveSession(t) /\ call' = [call EXCEPT ![t].pc = "load"]
      /\ UNCHANGED <<life, buf, exit, exited>>
  <2>1. CASE DropRuntime(t)
    BY <2>1 DEF DropRuntime, Goto, poolVars
  <2>2. CASE RemoveSession(t)
    BY <2>2 DEF RemoveSession, Goto, poolVars
  <2>3. CASE AddSession(t) \/ LoadFails(t)
    BY <2>3 DEF AddSession, LoadFails, Goto, poolVars
  <2> QED BY <2>1, <2>2, <2>3
<1>2. /\ call'[t].pc \in {"load", "done"} /\ call'[t].buf = b
      /\ call'[t].pc = "load" => sess'[b] = NoSession
      /\ \A u \in Calls : u # t => call'[u] = call[u]
  BY <1>0, <1>1 DEF RemoveSession
<1>3. Running(t) /\ ~exit.on
  BY <1>1 DEF Running, Calm, OneCall
<1>4. /\ \A d \in Buffers : d # b => sess'[d] = sess[d]
      /\ \A c \in Clients : Has(b, c)' => Has(b, c) /\ sess' = sess
  <2>1. CASE DropRuntime(t) /\ sess[b] # NoSession
    <3>1. /\ sess' = [sess EXCEPT ![b].kr = NoClient] /\ sess[b] \in Sessions
      BY <1>0, <2>1 DEF DropRuntime
    <3>2. PICK u \in Calls, d \in Clients \cup {NoClient} : sess[b] = [by |-> u, kr |-> d]
      BY <2>1, <3>1 DEF Sessions
    <3>3. sess'[b] = [by |-> u, kr |-> NoClient] /\ \A e \in Buffers : e # b => sess'[e] = sess[e]
      BY <3>1, <3>2
    <3> QED BY <3>3, LifecycleAssumption DEF Has
  <2>2. CASE DropRuntime(t) /\ sess[b] = NoSession
    BY <1>0, <2>2 DEF DropRuntime, Has
  <2>3. CASE RemoveSession(t)
    BY <1>0, <2>3 DEF RemoveSession, Has
  <2>4. CASE AddSession(t)
    <3>1. sess' = [sess EXCEPT ![b] = [by |-> t, kr |-> NoClient]]
      BY <1>0, <2>4 DEF AddSession
    <3>2. sess'[b] = [by |-> t, kr |-> NoClient] /\ \A e \in Buffers : e # b => sess'[e] = sess[e]
      BY <3>1
    <3> QED BY <3>2, LifecycleAssumption DEF Has
  <2>5. CASE LoadFails(t)
    BY <1>0, <2>5 DEF LoadFails, Has
  <2> QED BY <2>1, <2>2, <2>3, <2>4, <2>5
<1>5. ASSUME NEW c \in Clients, buf[c] = b
      PROVE  ~Starting(c) /\ life[c] # "live"
  <2>1. ~Starting(c)
    BY <1>0, <1>3, <1>5 DEF Calm, OneCall
  <2>2. ASSUME life[c] = "live"
        PROVE  FALSE
    <3>1. sess[b] # NoSession /\ sess[b].kr = c
      BY <1>5, <2>2 DEF Calm, Slots, Has
    <3>2. call[t].pc = "rest" /\ call[t].sess = sess[b]
      BY <1>0, <1>1, <3>1 DEF Calm, Captured
    <3> QED BY <2>2, <3>1, <3>2, LifecycleAssumption DEF Calm, Captured
  <2> QED BY <2>1, <2>2
<1>7. OneCall'
  <2>1. \A u \in Calls : call'[u].buf = call[u].buf /\ (Running(u)' => Running(u))
    BY <1>0, <1>2, <1>3 DEF Running
  <2>2. \A c \in Clients : Starting(c)' => Starting(c)
    BY <1>1 DEF Starting
  <2> QED BY <1>1, <2>1, <2>2, OneCallKept DEF Calm
<1>8. \A e \in Buffers, c \in Clients : Has(e, c)' => Has(e, c)
  BY <1>4 DEF Has
<1>9. Slots'
  <2>1. \A c \in Clients : life[c] = "live" \/ Starting(c) =>
           buf[c] # b /\ sess'[buf[c]] = sess[buf[c]]
    BY <1>4, <1>5
  <2> QED BY <1>1, <1>8, <2>1 DEF Calm, Slots, Has, Starting
<1>10. Captured'
  <2>1. \A u \in Calls : Running(u) /\ u # t => call[u].buf # b /\ sess'[call[u].buf] = sess[call[u].buf]
    BY <1>3, <1>4, <1>0 DEF Calm, OneCall
  <2> QED BY <1>1, <1>2, <2>1 DEF Calm, Captured, Running
<1>11. Awaited'
  BY <1>1, <1>2, <1>8, SMTT(30) DEF Calm, Awaited, InSlot
<1>12. Exiting'
  BY <1>1, <1>3 DEF Calm, Exiting
<1> QED BY <1>7, <1>9, <1>10, <1>11, <1>12 DEF Calm

LEMMA ExitBeginsCalm ==
    ASSUME Overlap = {}, TypeOK, Calm, ExitBegins
    PROVE  Calm'
<1> USE DEF TypeOK
<1>1. /\ ~exit.on /\ exit' = [on |-> TRUE, todo |-> {c \in Clients : InSlot(c)}, wait |-> {}]
      /\ UNCHANGED <<sess, life, buf, call, exited>>
  BY DEF ExitBegins, poolVars
<1>2. /\ \A c \in Clients : ~Starting(c)
      /\ \A t \in Calls : ~Running(t)
  BY Waits DEF ExitBegins
<1>3. OneCall' /\ Slots' /\ Captured'
  BY <1>1, <1>2 DEF Calm, OneCall, Running, Starting, Slots, Has, Captured
<1>4. Awaited' /\ Exiting'
  BY <1>1 DEF Calm, Awaited, Exiting, InSlot, Has
<1> QED BY <1>3, <1>4 DEF Calm

LEMMA ExitShutsDownCalm ==
    ASSUME TypeOK, Calm, NEW c \in Clients, ExitShutsDown(c)
    PROVE  Calm'
<1> USE DEF TypeOK
<1>1. /\ c \in exit.todo /\ exit.on
      /\ \/ /\ life[c] = "live" /\ life' = [life EXCEPT ![c] = "closing"]
            /\ exit' = [exit EXCEPT !.todo = @ \ {c}, !.wait = @ \cup {c}]
         \/ life[c] # "live" /\ life' = life /\ exit' = [exit EXCEPT !.todo = @ \ {c}]
      /\ UNCHANGED <<sess, buf, call, exited>>
  BY DEF ExitShutsDown, Calm, Exiting, poolVars
<1>2. /\ exit'.on = exit.on /\ exit'.todo = exit.todo \ {c}
      /\ \/ life'[c] = "closing" /\ exit'.wait = exit.wait \cup {c}
         \/ life[c] # "live" /\ life' = life /\ exit'.wait = exit.wait
  BY <1>1
<1>3. /\ \A d \in Clients : ~Starting(d)
      /\ \A t \in Calls : ~Running(t)
  BY <1>1 DEF Calm, OneCall
<1>4. OneCall' /\ Slots'
  BY <1>1, <1>2, <1>3 DEF Calm, OneCall, Running, Starting, Slots, Has
<1>5. Captured'
  BY <1>1, <1>3 DEF Calm, Captured, Running
<1>6. Awaited'
  BY <1>1, <1>2 DEF Calm, Awaited, InSlot, Has
<1>7. Exiting'
  <2>1. InSlot(c) => c \in exit'.wait \/ life'[c] = "gone"
    BY <1>2, <1>3 DEF Calm, Awaited, Slots, InSlot, Running
  <2> QED BY <1>1, <1>2, <2>1 DEF Calm, Exiting, InSlot, Has
<1> QED BY <1>4, <1>5, <1>6, <1>7 DEF Calm

LEMMA ExitKillsAllCalm ==
    ASSUME Calm, ExitKillsAll
    PROVE  Calm'
BY DEF ExitKillsAll, KillAll, Calm, OneCall, Running, Starting, Slots, Has, Captured, Awaited,
       InSlot, Exiting

LEMMA CalmInit == Init => Calm
<1> SUFFICES ASSUME Init PROVE Calm
  OBVIOUS
<1>1. /\ \A b \in Buffers : sess[b] = NoSession
      /\ \A c \in Clients : life[c] = "new"
      /\ \A t \in Calls : call[t].pc = "new"
      /\ exit.on = FALSE /\ exit.todo = {} /\ exit.wait = {} /\ exited = FALSE
  BY DEF Init, NewCall, PoolInit
<1> QED BY <1>1 DEF Calm, OneCall, Running, Starting, Slots, Has, Captured, Awaited,
                    InSlot, Exiting

LEMMA CalmStep ==
    ASSUME Overlap = {}, "handshake" \notin Faults, TypeOK, TypeOK', Stages, Calm, [Next]_vars
    PROVE  Calm'
<1>1. ASSUME NEW c \in Clients, NEW k \in Keys, Acquire(c, k)
      PROVE  Calm'
  BY <1>1, CalmStutter DEF Acquire, AcquireActive, AcquireJoin, AcquireSpawn, SessionVars
<1>2. ASSUME \/ \E c \in Clients : SessionCreated(c)
             \/ \E k \in Keys, h \in Handles : Spawned(k, h)
             \/ \E h \in Handles : ProcessEnds(h)
             \/ UNCHANGED vars
      PROVE  UNCHANGED <<sess, buf, call, exit, exited>>
  BY <1>2 DEF SessionCreated, Spawned, SpawnEnds, ProcessEnds, Killed, vars, poolVars
<1>3. ASSUME \/ \E k \in Keys, h \in Handles : Spawned(k, h)
             \/ \E h \in Handles : ProcessEnds(h)
             \/ UNCHANGED vars
      PROVE  Calm'
  BY <1>2, <1>3, CalmStutter DEF Spawned, ProcessEnds, vars, SessionVars
<1>4. ASSUME NEW c \in Clients,
             SessionCreated(c) \/ SessionRefused(c) \/ Connected(c) \/ InstallFails(c)
      PROVE  Calm'
  <2>1. /\ UNCHANGED <<sess, buf, call, exit, exited>>
        /\ \A d \in Clients : life'[d] # life[d] =>
              Starting(d) /\ life'[d] \in {"session", "connected", "closing", "gone"}
    BY <1>4 DEF SessionCreated, SessionRefused, Released, Connected, InstallFails, Starting,
                poolVars, TypeOK
  <2> QED BY <2>1, StartingCalm DEF TypeOK
<1>5. ASSUME NEW k \in Keys, SpawnRefused(k)
      PROVE  Calm'
  <2>1. \A c \in Clients : c \in Waiting(k) => life[c] = "start"
    BY DEF At, Stages, TypeOK
  <2>2. /\ UNCHANGED <<sess, buf, call, exit, exited>>
        /\ \A d \in Clients : life'[d] # life[d] =>
              Starting(d) /\ life'[d] \in {"session", "connected", "closing", "gone"}
    BY <1>5, <2>1 DEF SpawnRefused, SpawnFails, Starting
  <2> QED BY <2>2, StartingCalm DEF TypeOK
<1>6. ASSUME NEW c \in Clients
      PROVE  ~HandshakeFails(c)
  BY DEF HandshakeFails
<1> QED BY <1>1, <1>3, <1>4, <1>5, <1>6, StartKernelCalm, BeginCalm, InstallCalm, DeletedCalm,
           ShutdownClientCalm, ShutdownReturnsCalm, CallEndsCalm, ExitBeginsCalm,
           ExitShutsDownCalm, ExitKillsAllCalm DEF Next, ClientStep, OwnStep, ServerAnswers,
            CallStep, ServerStep

(* What the inductive invariant says of the properties.                    *)
LEMMA CalmLeaksNothing ==
    ASSUME TypeOK, Stages, Kernels, Calm
    PROVE  NothingLeaks
<1> USE DEF TypeOK
<1>1. \A c \in Clients : life[c] = "live" => InSlot(c)
  BY DEF Calm, Slots, InSlot
<1>2. NoOrphanKernel
  BY <1>1 DEF NoOrphanKernel, Alive, Kernels
<1>3. ASSUME NEW c \in Clients, client[c].pc = "held"
      PROVE  life[c] \in {"start", "session", "connected", "closing"} \/ InSlot(c)
  BY <1>1, <1>3 DEF Stages
<1>4. ASSUME NEW b \in Buffers
      PROVE  Cardinality({c \in Clients : buf[c] = b /\ life[c] = "live"}) <= 1
  <2> DEFINE L == {c \in Clients : buf[c] = b /\ life[c] = "live"}
  <2>1. \A c, d \in L : c = d
    BY DEF Calm, Slots, Has
  <2>2. L = {} \/ \E c \in L : L = {c}
    BY <2>1
  <2> HIDE DEF L
  <2>3. Cardinality(L) \in {0, 1}
    BY <2>2, FS_EmptySet, FS_Singleton
  <2> QED BY <2>3 DEF L
<1>5. ASSUME exited, NEW c \in Clients, InSlot(c)
      PROVE  life[c] = "gone"
  BY <1>5 DEF Calm, Exiting
<1> QED BY <1>2, <1>3, <1>4, <1>5 DEF NothingLeaks

LEMMA Invariance ==
    ASSUME Overlap = {}, "handshake" \notin Faults
    PROVE  Spec => []IInv
<1>1. Init => IInv
  <2> SUFFICES ASSUME Init PROVE IInv
    OBVIOUS
  <2>1. Stages /\ Kernels
    BY DEF Init, PoolInit, Stages, Kernels
  <2> QED BY <2>1, TypeInit, CalmInit DEF IInv
<1>2. IInv /\ PoolInv' /\ [Next]_vars => IInv'
  BY TypeStep, StagesStep, KernelsStep, CalmStep DEF IInv, PoolInv
<1> QED BY <1>1, <1>2, PoolHolds, PTL DEF Spec

(* A user who waits for every call to end, and starts no kernel beside     *)
(* another, loses none: whichever POST of a session or installation fails, *)
(* every kernel and every reference to a server can be reached from a      *)
(* session, a buffer has one kernel, and atexit has closed them all before *)
(* it kills their servers (dispatcher/kernel.ts, notebook.ts, main.ts).    *)
(* That no handshake fails is needed: its failure leaves the Jupyter       *)
(* session behind (server-client.ts:202).                                  *)
THEOREM CarefulUserLosesNothing ==
    ASSUME Overlap = {}, "handshake" \notin Faults
    PROVE  Spec => []NothingLeaks
<1>1. IInv => NothingLeaks
  BY CalmLeaksNothing DEF IInv
<1> QED BY <1>1, Invariance, PTL

(* The session that teardownSession removes by its buffer number is the    *)
(* one it captured several awaits earlier (dispatcher/notebook.ts:102), as *)
(* long as the user waits for every call to end.                           *)
THEOREM TeardownRemovesItsOwn ==
    ASSUME Overlap = {}, "handshake" \notin Faults
    PROVE  Spec => OwnSessionRemoved
<1>1. ASSUME IInv, [Next]_vars, NEW b \in Buffers, NEW t \in Calls,
             sess[b] # NoSession, sess'[b] = NoSession, call[t].pc # call'[t].pc
      PROVE  sess[b].by = call[t].sess.by
  <2>1. TypeOK /\ Captured
    BY <1>1 DEF IInv, Calm
  <2>3. ASSUME NEW u \in Calls, CallStep(u)
        PROVE  sess[b].by = call[t].sess.by
    <3>1. u = t
      BY <1>1, <2>1, <2>3 DEF CallStep, ShutdownClient, ShutdownReturns, DropRuntime,
                              RemoveSession, AddSession, LoadFails, Goto, TypeOK
    <3>2. CASE RemoveSession(t)
      <4>1. call[t].buf = b
        BY <1>1, <2>1, <3>2 DEF RemoveSession, TypeOK
      <4> QED BY <2>1, <3>2, <4>1 DEF RemoveSession, Captured
    <3>3. CASE DropRuntime(t) \/ AddSession(t)
      <4>1. call[t].buf \in Buffers /\ sess \in [Buffers -> Sessions]
        BY <2>1 DEF TypeOK
      <4>2. CASE AddSession(t)
        BY <1>1, <4>1, <4>2, LifecycleAssumption DEF AddSession
      <4>3. CASE DropRuntime(t)
        <5>1. PICK v \in Calls, d \in Clients \cup {NoClient} : sess[b] = [by |-> v, kr |-> d]
          BY <1>1, <4>1 DEF Sessions
        <5>2. sess'[b] = sess[b] \/ sess'[b] = [by |-> v, kr |-> NoClient]
          BY <4>1, <4>3, <5>1 DEF DropRuntime
        <5> QED BY <1>1, <5>2, LifecycleAssumption
      <4> QED BY <3>3, <4>2, <4>3
    <3>4. CASE ShutdownClient(t) \/ ShutdownReturns(t) \/ LoadFails(t)
      BY <1>1, <3>4 DEF ShutdownClient, ShutdownReturns, LoadFails
    <3> QED BY <2>3, <3>1, <3>2, <3>3, <3>4 DEF CallStep
  <2>4. ASSUME UNCHANGED call
        PROVE  FALSE
    BY <1>1, <2>4
  <2>5. ASSUME \/ \E c \in Clients : ClientStep(c)
               \/ ServerStep \/ ExitBegins \/ ExitKillsAll \/ UNCHANGED vars
               \/ \E d \in Buffers, c \in Clients : StartKernel(c, d)
        PROVE  UNCHANGED call
    BY <2>5 DEF ClientStep, OwnStep, ServerAnswers, Acquire,
            SessionCreated, SessionRefused, HandshakeFails, Connected,
                Install, InstallFails, Deleted, ShutdownEnds, ExitShutsDown, ServerStep,
                SpawnRefused, Spawned, ProcessEnds, ExitBegins, ExitKillsAll, StartKernel, vars
  <2>6. ASSUME \E d \in Buffers, u \in Calls :
                  ShutdownKernel(u, d) \/ Cleanup(u, d) \/ Open(u, d)
        PROVE  UNCHANGED sess
    BY <2>6 DEF ShutdownKernel, Cleanup, Open, Begin
  <2> QED BY <1>1, <2>3, <2>4, <2>5, <2>6 DEF Next
<1>2. IInv /\ [Next]_vars =>
        [\A b \in Buffers, t \in Calls :
            sess[b] # NoSession /\ sess'[b] = NoSession /\ call[t].pc # call'[t].pc
               => sess[b].by = call[t].sess.by]_vars
  BY <1>1
<1> QED BY <1>2, Invariance, PTL DEF Spec, OwnSessionRemoved
=============================================================================

----------------------------- MODULE ServerPool -----------------------------
(***************************************************************************)
(* The registry of shared Jupyter servers (kernel/server-pool.ts) and the  *)
(* clients that acquire and release them (kernel/server-client.ts).        *)
(*                                                                         *)
(* A client is one KernelServerClient: it acquires the server of one key   *)
(* in start(), and releases it once, when start() fails or in shutdown().  *)
(* A handle is an object: a release finds it by key, in whatever state the *)
(* registry is then.  When a spawn ends, the continuations of all clients  *)
(* that awaited it run before the next event, so they are one step.  For   *)
(* the key of a remote server a handle has no process: "up" then stands    *)
(* for attached, and killing it does nothing.                              *)
(*                                                                         *)
(* A definition whose name starts with Bug is a plausible mistake in the   *)
(* definition that follows it; no specification uses it.                   *)
(***************************************************************************)
EXTENDS Naturals, FiniteSets

CONSTANTS
    Keys,           \* server keys, one per jupyter executable or server URL
    Clients,        \* kernel clients
    Handles,        \* handles that may be made, one per spawn
    NoHandle,       \* the registry has no entry for the key
    Exits           \* TRUE if atexit may run

ASSUME ServerPoolAssumption ==
    /\ NoHandle \notin Handles
    /\ IsFiniteSet(Clients)
    /\ Exits \in BOOLEAN

VARIABLES
    active,     \* ServerPool.active: per key, a handle or NoHandle
    inflight,   \* ServerPool.inflight: the keys being spawned
    refcount,   \* per handle, its refcount
    proc,       \* per handle, its server: "none", "up", "killing", "dead"
    client,     \* per client, where it stands and the key it asked for
    exited      \* killAll() has run

poolVars == <<active, inflight, refcount, proc, client, exited>>

At(cl, pc, k) == {c \in Clients : cl[c].pc = pc /\ cl[c].key = k}
Waiting(k) == At(client, "waiting", k)
Holding(k) == At(client, "held", k)

MoveTo(S, k, pc) ==
    client' = [c \in Clients |-> IF c \in S THEN [pc |-> pc, key |-> k]
                                 ELSE client[c]]

PoolInit ==
    /\ active = [k \in Keys |-> NoHandle]
    /\ inflight = {}
    /\ refcount = [h \in Handles |-> 0]
    /\ proc = [h \in Handles |-> "none"]
    /\ \E k \in Keys : client = [c \in Clients |-> [pc |-> "idle", key |-> k]]
    /\ exited = FALSE

-----------------------------------------------------------------------------
(* acquire(): the entry is active, or a spawn is under way, or neither.     *)

AcquireActive(c, k) ==
    /\ client[c].pc = "idle" /\ active[k] # NoHandle
    /\ refcount' = [refcount EXCEPT ![active[k]] = @ + 1]
    /\ MoveTo({c}, k, "held")
    /\ UNCHANGED <<active, inflight, proc, exited>>

AcquireJoin(c, k) ==
    /\ client[c].pc = "idle" /\ active[k] = NoHandle /\ k \in inflight
    /\ MoveTo({c}, k, "waiting")
    /\ UNCHANGED <<active, inflight, refcount, proc, exited>>

AcquireSpawn(c, k) ==
    /\ client[c].pc = "idle" /\ active[k] = NoHandle /\ k \notin inflight
    /\ inflight' = inflight \cup {k}
    /\ MoveTo({c}, k, "waiting")
    /\ UNCHANGED <<active, refcount, proc, exited>>

(* spawnFn resolved: the entry is stored with refcount 1 and every client   *)
(* that joined adds one.                                                    *)
BugJoinersUncounted(k, h) ==
    /\ k \in inflight /\ proc[h] = "none"
    /\ active' = [active EXCEPT ![k] = h]
    /\ inflight' = inflight \ {k}
    /\ refcount' = [refcount EXCEPT ![h] = 1]
    /\ proc' = [proc EXCEPT ![h] = "up"]
    /\ MoveTo(Waiting(k), k, "held")
    /\ UNCHANGED exited

BugFirstOnly(k, h) ==
    /\ k \in inflight /\ proc[h] = "none"
    /\ active' = [active EXCEPT ![k] = h]
    /\ inflight' = inflight \ {k}
    /\ refcount' = [refcount EXCEPT ![h] = 1]
    /\ proc' = [proc EXCEPT ![h] = "up"]
    /\ \E c \in Waiting(k) : MoveTo({c}, k, "held")
    /\ UNCHANGED exited

SpawnEnds(k, h) ==
    /\ k \in inflight /\ proc[h] = "none"
    /\ active' = [active EXCEPT ![k] = h]
    /\ inflight' = inflight \ {k}
    /\ refcount' = [refcount EXCEPT ![h] = Cardinality(Waiting(k))]
    /\ proc' = [proc EXCEPT ![h] = "up"]
    /\ MoveTo(Waiting(k), k, "held")
    /\ UNCHANGED exited

(* spawnFn rejected: start() of every client that waited fails with it.     *)
SpawnFails(k) ==
    /\ k \in inflight
    /\ inflight' = inflight \ {k}
    /\ MoveTo(Waiting(k), k, "out")
    /\ UNCHANGED <<active, refcount, proc, exited>>

(* pool.release(key): it finds the handle by the key of the client, whoever *)
(* calls it.                                                                *)
BugReleaseForgetsEntry(c) ==
    LET k == client[c].key
        h == active[k]
    IN /\ MoveTo({c}, k, "out")
       /\ IF h = NoHandle
          THEN UNCHANGED <<refcount, proc>>
          ELSE /\ refcount' = [refcount EXCEPT ![h] = @ - 1]
               /\ proc' = IF refcount[h] <= 1
                          THEN [proc EXCEPT ![h] = "killing"] ELSE proc
       /\ UNCHANGED <<active, inflight, exited>>

Released(c) ==
    LET k == client[c].key
        h == active[k]
        last == refcount[h] <= 1
    IN /\ MoveTo({c}, k, "out")
       /\ IF h = NoHandle
          THEN UNCHANGED <<active, refcount, proc>>
          ELSE /\ refcount' = [refcount EXCEPT ![h] = @ - 1]
               /\ active' = IF last THEN [active EXCEPT ![k] = NoHandle] ELSE active
               /\ proc' = IF last THEN [proc EXCEPT ![h] = "killing"] ELSE proc
       /\ UNCHANGED <<inflight, exited>>

(* What the pool asks of its clients: each releases once what it acquired.  *)
Release(c) == client[c].pc = "held" /\ Released(c)

(* The subprocess has ended.                                                *)
Killed(h) ==
    /\ proc[h] = "killing"
    /\ proc' = [proc EXCEPT ![h] = "dead"]
    /\ UNCHANGED <<active, inflight, refcount, client, exited>>

(* killAll(), from atexit: only what is active.                             *)
KillAll ==
    /\ Exits /\ ~exited
    /\ exited' = TRUE
    /\ proc' = [h \in Handles |-> IF \E k \in Keys : active[k] = h
                                  THEN "killing" ELSE proc[h]]
    /\ active' = [k \in Keys |-> NoHandle]
    /\ UNCHANGED <<inflight, refcount, client>>

PoolNext ==
    \/ \E c \in Clients, k \in Keys :
          AcquireActive(c, k) \/ AcquireJoin(c, k) \/ AcquireSpawn(c, k)
    \/ \E k \in Keys, h \in Handles : SpawnEnds(k, h)
    \/ \E k \in Keys : SpawnFails(k)
    \/ \E c \in Clients : Release(c)
    \/ \E h \in Handles : Killed(h)
    \/ KillAll

PoolSpec == PoolInit /\ [][PoolNext]_poolVars

(* It is assumed that a spawn ends, as it does unless a Jupyter listens and *)
(* never answers (ServerProcess).  A killed process dies (SIGTERM, then     *)
(* SIGKILL).  Nothing obliges a client to come or to leave.                 *)
PoolFairSpec ==
    /\ PoolSpec
    /\ \A k \in Keys : WF_poolVars(SpawnFails(k) \/ \E h \in Handles : SpawnEnds(k, h))
    /\ \A h \in Handles : WF_poolVars(Killed(h))

-----------------------------------------------------------------------------
(* The registry and the counters keep their types; in particular no count   *)
(* falls below zero.                                                        *)
PoolTypeOK ==
    /\ active \in [Keys -> Handles \cup {NoHandle}]
    /\ inflight \in SUBSET Keys
    /\ refcount \in [Handles -> Nat]
    /\ proc \in [Handles -> {"none", "up", "killing", "dead"}]
    /\ client \in [Clients -> [pc : {"idle", "waiting", "held", "out"}, key : Keys]]
    /\ exited \in BOOLEAN

(* Until killAll, the count of a registered server is the number of clients *)
(* that hold it, whatever acquires were in flight together.                 *)
RefcountExact ==
    ~exited => \A k \in Keys : active[k] # NoHandle =>
                  /\ refcount[active[k]] = Cardinality(Holding(k))
                  /\ Holding(k) # {}

(* Until killAll, nobody holds a server that has been killed under them.    *)
HoldersServed ==
    ~exited => \A k \in Keys : Holding(k) # {} =>
                  active[k] # NoHandle /\ proc[active[k]] = "up"

(* Until killAll, the pool implements shared servers.                       *)
Shared == INSTANCE SharedServer WITH
    holders <- [k \in Keys |-> Holding(k)],
    up <- {k \in Keys : active[k] # NoHandle}

RefinesShared ==
    /\ Shared!Init
    /\ [][exited' \/ Shared!Next]_<<[k \in Keys |-> Holding(k)],
                                    {k \in Keys : active[k] # NoHandle}>>

(* Every acquire is answered; and when the last client has left and none    *)
(* comes, every process dies.                                               *)
Deserted == \A c \in Clients : client[c].pc \in {"idle", "out"}
EveryoneServed ==
    /\ \A c \in Clients : client[c].pc = "waiting" ~> client[c].pc # "waiting"
    /\ Deserted ~> ~Deserted \/ \A h \in Handles : proc[h] \in {"none", "dead"}
=============================================================================

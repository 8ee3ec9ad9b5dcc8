-------------------------- MODULE KernelLifecycle --------------------------
(***************************************************************************)
(* Notebook sessions, the kernels started for them, and the calls that     *)
(* start, stop and replace them: startKernel, shutdownKernel and atexit    *)
(* (dispatcher/kernel.ts), open and cleanup (dispatcher/notebook.ts), over *)
(* KernelServerClient (kernel/server-client.ts) and the ServerPool.        *)
(*                                                                         *)
(* Each startKernel call makes one client; the other calls are named by    *)
(* Calls.  Steps of the event loop between two awaits are one action.  A   *)
(* call may begin while another runs on the same buffer only if the pair   *)
(* of their kinds is in Overlap: the empty set is a user who waits for     *)
(* every call to end, and who starts no kernel where one is running (the   *)
(* kind "kernel").  The pool is that of ServerPool.                        *)
(*                                                                         *)
(* A definition whose name starts with Bug is a plausible mistake in the   *)
(* definition that follows it; no specification uses it.                   *)
(***************************************************************************)
EXTENDS ServerPool

CONSTANTS
    Buffers,        \* viewer buffers
    Calls,          \* calls of shutdownKernel, cleanup and open
    NoSession,      \* SessionStore has no session for the buffer
    NoClient,       \* the session has no kernelRuntime
    Overlap,        \* pairs <<running, new>> of kinds that may overlap
    Faults          \* which of "session", "handshake", "install" may fail

Kinds == {"kernel", "start", "shutdown", "cleanup", "open", "exit"}

ASSUME LifecycleAssumption ==
    /\ NoClient \notin Clients
    /\ \A t \in Calls, c \in Clients \cup {NoClient} :
          NoSession # [by |-> t, kr |-> c]
    /\ Overlap \subseteq Kinds \X Kinds

VARIABLES
    sess,       \* per buffer its session: the open() that added it, its client
    life,       \* per client, how far start() and shutdown() are
    buf,        \* per client, the buffer of its startKernel call
    kernel,     \* per client, the server its Jupyter session lives on
    call,       \* per call: kind, buffer, progress and the session it captured
    exit        \* atexit(): clients it still has to close, and those it awaits

vars == <<active, inflight, refcount, proc, client, exited,
          sess, life, buf, kernel, call, exit>>

NewCall(b) == [kind |-> "open", pc |-> "new", buf |-> b, sess |-> NoSession]

Init ==
    /\ PoolInit
    /\ sess = [b \in Buffers |-> NoSession]
    /\ life = [c \in Clients |-> "new"]
    /\ \E b \in Buffers : /\ buf = [c \in Clients |-> b]
                         /\ call = [t \in Calls |-> NewCall(b)]
    /\ kernel = [c \in Clients |-> NoHandle]
    /\ exit = [on |-> FALSE, todo |-> {}, wait |-> {}]

Running(t) == call[t].pc \notin {"new", "done"}

(* The kinds of the calls under way on a buffer.                            *)
Busy(b) ==
    {"start" : c \in {d \in Clients : buf[d] = b /\ life[d] \in {"start", "session", "connected"}}}
    \cup {call[t].kind : t \in {u \in Calls : Running(u) /\ call[u].buf = b}}
    \cup (IF exit.on THEN {"exit"} ELSE {})

MayCall(kind, b) == \A other \in Busy(b) : <<other, kind>> \in Overlap

Has(b, c) == sess[b] # NoSession /\ sess[b].kr = c
InSlot(c) == \E b \in Buffers : Has(b, c)

-----------------------------------------------------------------------------
(* startKernel: the client's start(), then the installation of the runtime. *)

StartKernel(c, b) ==
    /\ life[c] = "new" /\ sess[b] # NoSession /\ MayCall("start", b)
    /\ Has(b, NoClient) \/ <<"kernel", "start">> \in Overlap
    /\ life' = [life EXCEPT ![c] = "start"]
    /\ buf' = [buf EXCEPT ![c] = b]
    /\ UNCHANGED <<poolVars, sess, kernel, call, exit>>

Acquire(c, k) ==
    /\ life[c] = "start"
    /\ AcquireActive(c, k) \/ AcquireJoin(c, k) \/ AcquireSpawn(c, k)
    /\ UNCHANGED <<sess, life, buf, kernel, call, exit>>

Spawned(k, h) ==
    /\ SpawnEnds(k, h)
    /\ UNCHANGED <<sess, life, buf, kernel, call, exit>>

SpawnRefused(k) ==
    /\ SpawnFails(k)
    /\ life' = [c \in Clients |-> IF c \in Waiting(k) THEN "gone" ELSE life[c]]
    /\ UNCHANGED <<sess, buf, kernel, call, exit>>

ProcessEnds(h) ==
    /\ Killed(h)
    /\ UNCHANGED <<sess, life, buf, kernel, call, exit>>

(* POST /api/sessions: the kernel now runs on the server.                   *)
SessionCreated(c) ==
    /\ life[c] = "start" /\ client[c].pc = "held"
    /\ life' = [life EXCEPT ![c] = "session"]
    /\ kernel' = [kernel EXCEPT ![c] = active[client[c].key]]
    /\ UNCHANGED <<poolVars, sess, buf, call, exit>>

BugRefusedHolds(c) ==
    /\ "session" \in Faults
    /\ life[c] = "start" /\ client[c].pc = "held"
    /\ life' = [life EXCEPT ![c] = "gone"]
    /\ UNCHANGED <<poolVars, sess, buf, kernel, call, exit>>

SessionRefused(c) ==
    /\ "session" \in Faults
    /\ life[c] = "start" /\ client[c].pc = "held"
    /\ Released(c)
    /\ life' = [life EXCEPT ![c] = "gone"]
    /\ UNCHANGED <<sess, buf, kernel, call, exit>>

(* The WebSocket does not open, or kernel_info is not answered: the server  *)
(* is released, and the Jupyter session is not deleted.                     *)
HandshakeFails(c) ==
    /\ "handshake" \in Faults
    /\ life[c] = "session" /\ Released(c)
    /\ life' = [life EXCEPT ![c] = "gone"]
    /\ UNCHANGED <<sess, buf, kernel, call, exit>>

Connected(c) ==
    /\ life[c] = "session"
    /\ life' = [life EXCEPT ![c] = "connected"]
    /\ UNCHANGED <<poolVars, sess, buf, kernel, call, exit>>

(* sessionStore.update does nothing when the session is gone.               *)
Install(c) ==
    /\ life[c] = "connected"
    /\ life' = [life EXCEPT ![c] = "live"]
    /\ sess' = IF sess[buf[c]] = NoSession THEN sess
               ELSE [sess EXCEPT ![buf[c]].kr = c]
    /\ UNCHANGED <<poolVars, buf, kernel, call, exit>>

(* An error after start(): the runtime is closed and shut down.             *)
InstallFails(c) ==
    /\ "install" \in Faults
    /\ life[c] = "connected"
    /\ life' = [life EXCEPT ![c] = "closing"]
    /\ UNCHANGED <<poolVars, sess, buf, kernel, call, exit>>

-----------------------------------------------------------------------------
(* client.shutdown(): a second call returns at once.                        *)

(* DELETE /api/sessions, answered or not; then the server is released.      *)
Deleted(c) ==
    /\ life[c] = "closing" /\ Released(c)
    /\ life' = [life EXCEPT ![c] = "released"]
    /\ kernel' = [kernel EXCEPT ![c] = NoHandle]
    /\ UNCHANGED <<sess, buf, call, exit>>

(* shutdown() returns: the server it may have killed has ended.             *)
BugExitUntold(c) ==
    /\ life[c] = "released"
    /\ life' = [life EXCEPT ![c] = "gone"]
    /\ UNCHANGED <<poolVars, sess, buf, kernel, call, exit>>

ShutdownEnds(c) ==
    /\ life[c] = "released"
    /\ life' = [life EXCEPT ![c] = "gone"]
    /\ exit' = [exit EXCEPT !.wait = @ \ {c}]
    /\ UNCHANGED <<poolVars, sess, buf, kernel, call>>

-----------------------------------------------------------------------------
(* shutdownKernel, cleanup and open.  The last two begin with               *)
(* teardownSession, which captures the session before its first await.      *)

Begin(t, kind, b, pc) ==
    /\ call[t].pc = "new" /\ MayCall(kind, b)
    /\ call' = [call EXCEPT ![t] = [kind |-> kind, pc |-> pc, buf |-> b,
                                    sess |-> sess[b]]]
    /\ UNCHANGED <<poolVars, sess, life, buf, kernel, exit>>

ShutdownKernel(t, b) ==
    /\ sess[b] # NoSession /\ ~Has(b, NoClient)
    /\ Begin(t, "shutdown", b, "comms")

Cleanup(t, b) ==
    /\ sess[b] # NoSession
    /\ Begin(t, "cleanup", b, IF Has(b, NoClient) THEN "rest" ELSE "comms")

Open(t, b) ==
    Begin(t, "open", b, IF sess[b] = NoSession THEN "load"
                        ELSE IF Has(b, NoClient) THEN "rest" ELSE "comms")

Goto(t, pc) == call' = [call EXCEPT ![t].pc = pc]

(* The comms are closed (and the scheduler disposed of, in shutdownKernel): *)
(* the call shuts the client it captured down.                              *)
BugShutdownAgain(t) ==
    LET c == call[t].sess.kr
    IN /\ call[t].pc = "comms"
       /\ life' = [life EXCEPT ![c] = "closing"] /\ Goto(t, "wait")
       /\ UNCHANGED <<poolVars, sess, buf, kernel, exit>>

ShutdownClient(t) ==
    LET c == call[t].sess.kr
    IN /\ call[t].pc = "comms"
       /\ IF life[c] = "live"
          THEN life' = [life EXCEPT ![c] = "closing"] /\ Goto(t, "wait")
          ELSE UNCHANGED life /\ Goto(t, "rest")
       /\ UNCHANGED <<poolVars, sess, buf, kernel, exit>>

ShutdownReturns(t) ==
    /\ call[t].pc = "wait" /\ life[call[t].sess.kr] = "gone"
    /\ Goto(t, "rest")
    /\ UNCHANGED <<poolVars, sess, life, buf, kernel, exit>>

(* shutdownKernel ends: whatever runtime the session has now is dropped.    *)
DropRuntime(t) ==
    LET b == call[t].buf
    IN /\ call[t].pc = "rest" /\ call[t].kind = "shutdown"
       /\ sess' = IF sess[b] = NoSession THEN sess ELSE [sess EXCEPT ![b].kr = NoClient]
       /\ Goto(t, "done")
       /\ UNCHANGED <<poolVars, life, buf, kernel, exit>>

(* teardownSession ends: whatever session the buffer has now is removed.    *)
RemoveSession(t) ==
    LET b == call[t].buf
    IN /\ call[t].pc = "rest" /\ call[t].kind \in {"cleanup", "open"}
       /\ sess' = [sess EXCEPT ![b] = NoSession]
       /\ Goto(t, IF call[t].kind = "open" THEN "load" ELSE "done")
       /\ UNCHANGED <<poolVars, life, buf, kernel, exit>>

(* open() has read and parsed the file.                                     *)
AddSession(t) ==
    /\ call[t].pc = "load"
    /\ sess' = [sess EXCEPT ![call[t].buf] = [by |-> t, kr |-> NoClient]]
    /\ Goto(t, "done")
    /\ UNCHANGED <<poolVars, life, buf, kernel, exit>>

LoadFails(t) ==
    /\ call[t].pc = "load"
    /\ Goto(t, "done")
    /\ UNCHANGED <<poolVars, sess, life, buf, kernel, exit>>

-----------------------------------------------------------------------------
(* atexit: every installed client in parallel, then the pool.               *)

ExitBegins ==
    /\ Exits /\ ~exit.on /\ \A b \in Buffers : MayCall("exit", b)
    /\ exit' = [on |-> TRUE, todo |-> {c \in Clients : InSlot(c)}, wait |-> {}]
    /\ UNCHANGED <<poolVars, sess, life, buf, kernel, call>>

ExitShutsDown(c) ==
    /\ c \in exit.todo
    /\ IF life[c] = "live"
       THEN /\ life' = [life EXCEPT ![c] = "closing"]
            /\ exit' = [exit EXCEPT !.todo = @ \ {c}, !.wait = @ \cup {c}]
       ELSE /\ exit' = [exit EXCEPT !.todo = @ \ {c}]
            /\ UNCHANGED life
    /\ UNCHANGED <<poolVars, sess, buf, kernel, call>>

ExitKillsAll ==
    /\ exit.on /\ exit.todo = {} /\ exit.wait = {}
    /\ KillAll
    /\ UNCHANGED <<sess, life, buf, kernel, call, exit>>

-----------------------------------------------------------------------------
OwnStep(c) ==
    \/ \E k \in Keys : Acquire(c, k)
    \/ Install(c) \/ InstallFails(c) \/ ShutdownEnds(c) \/ ExitShutsDown(c)

ServerAnswers(c) ==
    \/ SessionCreated(c) \/ SessionRefused(c)
    \/ Connected(c) \/ HandshakeFails(c) \/ Deleted(c)

ClientStep(c) == OwnStep(c) \/ ServerAnswers(c)

CallStep(t) ==
    \/ ShutdownClient(t) \/ ShutdownReturns(t) \/ DropRuntime(t)
    \/ RemoveSession(t) \/ AddSession(t) \/ LoadFails(t)

ServerStep ==
    \/ \E k \in Keys : SpawnRefused(k) \/ \E h \in Handles : Spawned(k, h)
    \/ \E h \in Handles : ProcessEnds(h)

Next ==
    \/ \E b \in Buffers :
          \/ \E c \in Clients : StartKernel(c, b)
          \/ \E t \in Calls : ShutdownKernel(t, b) \/ Cleanup(t, b) \/ Open(t, b)
    \/ \E c \in Clients : ClientStep(c)
    \/ \E t \in Calls : CallStep(t)
    \/ ServerStep
    \/ ExitBegins \/ ExitKillsAll

Spec == Init /\ [][Next]_vars

(* Europa's own steps are taken, and a killed process dies.  What waits for *)
(* an answer of a server has no fairness: POST and DELETE /api/sessions and *)
(* the opening of the WebSocket have no timeout (session-api.ts:67,         *)
(* server-client.ts:347, ws-handshake.ts), and a spawn none against a       *)
(* Jupyter that listens and never answers.  Nothing obliges the user to     *)
(* call.                                                                    *)
FairSpec ==
    /\ Spec
    /\ \A c \in Clients : WF_vars(OwnStep(c))
    /\ \A t \in Calls : WF_vars(CallStep(t))
    /\ \A h \in Handles : WF_vars(ProcessEnds(h))
    /\ WF_vars(ExitKillsAll)

-----------------------------------------------------------------------------
(* Every field keeps its type; a session is captured as it was added.       *)
Sessions == [by : Calls, kr : Clients \cup {NoClient}] \cup {NoSession}

TypeOK ==
    /\ PoolTypeOK
    /\ sess \in [Buffers -> Sessions]
    /\ life \in [Clients -> {"new", "start", "session", "connected", "live",
                            "closing", "released", "gone"}]
    /\ buf \in [Clients -> Buffers]
    /\ kernel \in [Clients -> Handles \cup {NoHandle}]
    /\ call \in [Calls -> [kind : Kinds, buf : Buffers, sess : Sessions,
                    pc : {"new", "comms", "wait", "rest", "load", "done"}]]
    /\ exit \in [on : BOOLEAN, todo : SUBSET Clients, wait : SUBSET Clients]

(* Whatever calls overlap and whatever fails, a client releases its server  *)
(* only while it holds it: start(), whose catch blocks release, shutdown(), *)
(* which several calls and atexit may reach, and a start that fails after   *)
(* another call has closed its runtime between them release once            *)
(* (server-client.ts, start, shutdown); a release finds the handle by key,  *)
(* so that one too many would take it from another client.                  *)
RefinesPool == PoolSpec

Alive(c) == kernel[c] # NoHandle /\ proc[kernel[c]] = "up"

(* A kernel that runs can be reached: it is being started, it is being      *)
(* closed, or it is the kernel of a session, which a command can stop.      *)
NoOrphanKernel ==
    \A c \in Clients : Alive(c) =>
        life[c] \in {"session", "connected", "closing"} \/ InSlot(c)

(* So is whoever holds a server, and no reference pins it for ever; a       *)
(* buffer has one kernel ("1 buffer = 1 kernel", session/state.ts:98); and  *)
(* when atexit has run, the kernels of the sessions have been shut down,    *)
(* not only killed with a server that is ours to kill (main.ts).            *)
NothingLeaks ==
    /\ NoOrphanKernel
    /\ \A c \in Clients : client[c].pc = "held" =>
          life[c] \in {"start", "session", "connected", "closing"} \/ InSlot(c)
    /\ \A b \in Buffers :
          Cardinality({c \in Clients : buf[c] = b /\ life[c] = "live"}) <= 1
    /\ exited => \A c \in Clients : InSlot(c) => life[c] = "gone"

(* A call removes only the session it captured, whatever it awaited since   *)
(* (dispatcher/notebook.ts:102).                                            *)
OwnSessionRemoved ==
    [][\A b \in Buffers, t \in Calls :
          sess[b] # NoSession /\ sess'[b] = NoSession /\ call[t].pc # call'[t].pc
              => sess[b].by = call[t].sess.by]_vars

(* A request of the client's that has no timeout has not been answered.     *)
Unanswered(c) ==
    \/ life[c] = "start" /\ client[c].pc \in {"waiting", "held"}
    \/ life[c] \in {"session", "closing"}

(* A startKernel call, a call that closes a session, and atexit end, or it  *)
(* is the server that keeps them: what they wait for is a request that is   *)
(* not answered, and nothing of Europa's own, whatever other calls have     *)
(* closed or replaced under them (dispatcher/kernel.ts, notebook.ts,        *)
(* main.ts).                                                                *)
EveryCallEnds ==
    /\ \A c \in Clients :
          []<>(life[c] \in {"new", "live", "gone"} \/ Unanswered(c))
    /\ \A t \in Calls :
          []<>(~Running(t) \/ (call[t].pc = "wait" /\ Unanswered(call[t].sess.kr)))
    /\ []<>(exit.on => exited \/ \E c \in exit.wait : Unanswered(c))
=============================================================================

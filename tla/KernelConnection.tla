------------------------- MODULE KernelConnection -------------------------
(***************************************************************************)
(* The WebSocket of one connected client: its loss and the reconnect loop  *)
(* (kernel/ws-reconnect.ts), the socket a restart opens in its place       *)
(* (kernel/restart.ts), and shutdown (kernel/server-client.ts).            *)
(*                                                                         *)
(* A socket is known in three places: KernelRuntime.socket, the client's   *)
(* wsSocket, and the two listeners attached to the socket itself.  An      *)
(* AbortController is known in two: KernelRuntime.abort and the client's   *)
(* _abort; it is named here by its generation.  Steps between two awaits   *)
(* are one action, and so are the promise continuations an abort runs.     *)
(*                                                                         *)
(* A definition whose name starts with Bug is a plausible mistake in the   *)
(* definition that follows it; no specification uses it.                   *)
(***************************************************************************)
EXTENDS Naturals, FiniteSets

CONSTANTS
    Sockets,        \* WebSockets that may be made
    NoSocket,       \* null
    Loops,          \* reconnect loops that may run at once
    Restarters,     \* restart() calls that may run at once
    MaxRetries,     \* wsReconnectMaxRetries
    MaxRestarts,    \* bound: restart() calls ever made
    MaxLosses,      \* bound: sockets lost without a close of ours
    Races           \* what the environment may do, see RaceNames

(* "lossAgain":         a socket obtained by a reconnection may be lost     *)
(* "lossInRestart":     a socket may be lost while a restart runs           *)
(* "restartAgain":      restarts may overlap                                *)
(* "restartInLoop":     a restart may begin while a reconnect loop runs     *)
(* "shutdownUnlinked":  the client may be shut down while a restart waits   *)
(*                      for its POST or its socket, or a reconnect loop     *)
(*                      runs on the controller that a failed one left: the  *)
(*                      client's own controller does not reach these        *)
RaceNames == {"lossAgain", "lossInRestart", "restartInLoop", "restartAgain",
              "shutdownUnlinked"}

ASSUME ConnectionAssumption ==
    /\ NoSocket \notin Sockets
    /\ Races \subseteq RaceNames
    /\ MaxRetries \in Nat /\ MaxRestarts \in Nat /\ MaxLosses \in Nat
    /\ IsFiniteSet(Loops)

VARIABLES
    sk,         \* per socket: "none", "connecting", "open" or "closed"
    listening,  \* sockets with a message listener attached
    watch,      \* per socket, how many close listeners start a reconnect loop
    conn,       \* the fields of the client and of its KernelRuntime
    aborted,    \* generations of AbortControllers that were aborted
    linked,     \* generations whose abort is propagated to info.state
    loop,       \* the reconnect loops
    rs,         \* the restart() calls
    losses      \* sockets lost so far

vars == <<sk, listening, watch, conn, aborted, linked, loop, rs, losses>>

IdleLoop == [pc |-> "off", gen |-> 0, attempt |-> 0, sock |-> NoSocket]
IdleRestart == [pc |-> "off", sock |-> NoSocket, gen |-> 0]

(* start() has returned: the first socket is open, listened to and watched. *)
Init ==
    \E s \in Sockets :
        /\ sk = [x \in Sockets |-> IF x = s THEN "open" ELSE "none"]
        /\ listening = {s}
        /\ watch = [x \in Sockets |-> IF x = s THEN 1 ELSE 0]
        /\ conn = [socket |-> s, wsSocket |-> s, handler |-> s,
                   abort |-> 0, _abort |-> 0, wsRuntime |-> TRUE,
                   state |-> "idle", retry |-> 0]
        /\ aborted = {} /\ linked = {0}
        /\ loop = [l \in Loops |-> IdleLoop]
        /\ rs = [r \in Restarters |-> IdleRestart]
        /\ losses = 0

Looping == \E l \in Loops : loop[l].pc # "off"
Restarting == \E r \in Restarters : rs[r].pc # "off"

-----------------------------------------------------------------------------
(* abort() of generation g.  A loop that sleeps gives up; one that connects *)
(* closes its socket first.  A restart that awaits its handshake, or its    *)
(* socket, closes the socket and throws.                                    *)

Asleep(g) == {l \in Loops : loop[l].gen = g /\ loop[l].pc = "delay"}
Doomed(g) == {l \in Loops : loop[l].gen = g /\ loop[l].pc = "connect"}
DoomedRestarts(g) == {r \in Restarters : rs[r].gen = g /\ rs[r].pc \in {"open", "info"}}

AbortedSockets(g) ==
    {loop[l].sock : l \in Doomed(g)} \cup {rs[r].sock : r \in DoomedRestarts(g)}

AbortedLoops(g) ==
    [l \in Loops |-> IF l \in Doomed(g) THEN [loop[l] EXCEPT !.pc = "closing"]
                     ELSE IF l \in Asleep(g) THEN IdleLoop
                     ELSE loop[l]]

AbortedRestarts(g) ==
    [r \in Restarters |-> IF r \in DoomedRestarts(g) THEN IdleRestart ELSE rs[r]]

CloseAll(S) == sk' = [s \in Sockets |-> IF s \in S THEN "closed" ELSE sk[s]]

Down(c) == [c EXCEPT !.state = "disconnected", !.retry = 0]

-----------------------------------------------------------------------------
(* An open socket closes with a code other than 1000: every close listener  *)
(* that finds the runtime flushes, and then starts a loop.                  *)
Lose(s) ==
    /\ sk[s] = "open" /\ losses < MaxLosses
    /\ watch[s] > 1 => "lossAgain" \in Races
    /\ Restarting => "lossInRestart" \in Races
    /\ losses' = losses + 1
    /\ sk' = [sk EXCEPT ![s] = "closed"]
    /\ IF conn.wsRuntime
       THEN \E L \in SUBSET {l \in Loops : loop[l].pc = "off"} :
               /\ Cardinality(L) = watch[s]
               /\ loop' = [l \in Loops |-> IF l \in L THEN [IdleLoop EXCEPT !.pc = "flush"]
                                           ELSE loop[l]]
       ELSE UNCHANGED loop
    /\ UNCHANGED <<listening, watch, conn, aborted, linked, rs>>

(* The flush is done: runReconnectLoop, up to its first sleep.              *)
LoopBegins(l) ==
    /\ loop[l].pc = "flush"
    /\ IF conn.abort \in aborted \/ ~conn.wsRuntime
       THEN loop' = [loop EXCEPT ![l] = IdleLoop] /\ UNCHANGED conn
       ELSE IF MaxRetries = 0
       THEN /\ loop' = [loop EXCEPT ![l] = IdleLoop]
            /\ conn' = [conn EXCEPT !.state = "disconnected"]
       ELSE /\ loop' = [loop EXCEPT ![l] = [IdleLoop EXCEPT !.pc = "delay", !.attempt = 1,
                                                            !.gen = conn.abort]]
            /\ conn' = [conn EXCEPT !.state = "reconnecting", !.retry = 1]
    /\ UNCHANGED <<sk, listening, watch, aborted, linked, rs, losses>>


AttemptFailed(l) ==
    IF loop[l].attempt < MaxRetries
    THEN /\ loop' = [loop EXCEPT ![l].pc = "delay", ![l].attempt = @ + 1, ![l].sock = NoSocket]
         /\ conn' = [conn EXCEPT !.retry = loop[l].attempt + 1]
    ELSE /\ loop' = [loop EXCEPT ![l] = IdleLoop]
         /\ conn' = Down(conn)

(* The sleep is over.  After a shutdown there is no URL to connect to.      *)
LoopConnects(l, s) ==
    /\ loop[l].pc = "delay" /\ sk[s] = "none"
    /\ IF conn.wsRuntime
       THEN /\ sk' = [sk EXCEPT ![s] = "connecting"]
            /\ loop' = [loop EXCEPT ![l].pc = "connect", ![l].sock = s]
            /\ UNCHANGED conn
       ELSE AttemptFailed(l) /\ UNCHANGED sk
    /\ UNCHANGED <<listening, watch, aborted, linked, rs, losses>>

LoopFails(l) ==
    /\ loop[l].pc = "connect"
    /\ CloseAll({loop[l].sock})
    /\ AttemptFailed(l)
    /\ UNCHANGED <<listening, watch, aborted, linked, rs, losses>>

(* connectWS resolved: the new socket replaces the old one everywhere.  Two *)
(* reconnect listeners are attached to it, the second by onSocketSwap.      *)
Unheard(s) == IF conn.handler = s THEN listening \ {s} ELSE listening

BugSwapOnlyRuntime(l) ==
    LET s == loop[l].sock
    IN /\ loop[l].pc = "connect"
       /\ sk' = [sk EXCEPT ![s] = "open"]
       /\ listening' = Unheard(conn.wsSocket) \cup {s}
       /\ watch' = [watch EXCEPT ![s] = 2]
       /\ conn' = [conn EXCEPT !.socket = s, !.handler = s, !.state = "idle", !.retry = 0]
       /\ loop' = [loop EXCEPT ![l] = IdleLoop]
       /\ UNCHANGED <<aborted, linked, rs, losses>>

LoopSucceeds(l) ==
    LET s == loop[l].sock
    IN /\ loop[l].pc = "connect"
       /\ sk' = [sk EXCEPT ![s] = "open"]
       /\ listening' = Unheard(conn.wsSocket) \cup {s}
       /\ watch' = [watch EXCEPT ![s] = 2]
       /\ conn' = [conn EXCEPT !.socket = s, !.wsSocket = s, !.handler = s,
                               !.state = "idle", !.retry = 0]
       /\ loop' = [loop EXCEPT ![l] = IdleLoop]
       /\ UNCHANGED <<aborted, linked, rs, losses>>

(* The socket an abort closed has closed: the loop breaks.                  *)
LoopBreaks(l) ==
    /\ loop[l].pc = "closing"
    /\ loop' = [loop EXCEPT ![l] = IdleLoop]
    /\ conn' = Down(conn)
    /\ UNCHANGED <<sk, listening, watch, aborted, linked, rs, losses>>

-----------------------------------------------------------------------------
(* restart(): abort, then the POST.                                         *)
RestartBegins(r) ==
    LET g == conn.abort
    IN /\ rs[r].pc = "off" /\ conn.wsRuntime /\ g < MaxRestarts
       /\ Looping => "restartInLoop" \in Races
       /\ Restarting => "restartAgain" \in Races
       /\ aborted' = aborted \cup {g}
       /\ conn' = [(IF g \in linked \/ Asleep(g) # {} THEN Down(conn) ELSE conn)
                       EXCEPT !.abort = g + 1]
       /\ CloseAll(AbortedSockets(g))
       /\ loop' = AbortedLoops(g)
       /\ rs' = [AbortedRestarts(g) EXCEPT ![r] = [IdleRestart EXCEPT !.pc = "rest"]]
       /\ UNCHANGED <<listening, watch, linked, losses>>

(* A 5xx: the old socket is taken to be still open.                         *)
RestartRefused(r) ==
    /\ rs[r].pc = "rest"
    /\ rs' = [rs EXCEPT ![r] = IdleRestart]
    /\ conn' = [conn EXCEPT !.state = "idle"]
    /\ UNCHANGED <<sk, listening, watch, aborted, linked, loop, losses>>

(* fetch throws: its timeout, or the server is gone.  info.state stays      *)
(* "disconnected" although the socket is open.                              *)
RestartThrows(r) ==
    /\ rs[r].pc = "rest"
    /\ rs' = [rs EXCEPT ![r] = IdleRestart]
    /\ UNCHANGED <<sk, listening, watch, conn, aborted, linked, loop, losses>>

(* A 200: the socket is closed with code 1000 and another one opened.       *)
RestartAccepted(r, s) ==
    /\ rs[r].pc = "rest" /\ sk[s] = "none"
    /\ IF conn.abort \in aborted
       THEN /\ CloseAll({conn.socket})
            /\ rs' = [rs EXCEPT ![r] = IdleRestart]
       ELSE /\ sk' = [sk EXCEPT ![conn.socket] = "closed", ![s] = "connecting"]
            /\ rs' = [rs EXCEPT ![r] = [pc |-> "open", sock |-> s, gen |-> conn.abort]]
    /\ UNCHANGED <<listening, watch, conn, aborted, linked, loop, losses>>

RestartOpenFails(r) ==
    /\ rs[r].pc = "open"
    /\ CloseAll({rs[r].sock})
    /\ rs' = [rs EXCEPT ![r] = IdleRestart]
    /\ UNCHANGED <<listening, watch, conn, aborted, linked, loop, losses>>

(* The new socket is installed.  After a shutdown wsRuntime is null and     *)
(* onSocketReopen throws at its second line.                                *)
RestartOpened(r) ==
    LET s == rs[r].sock
    IN /\ rs[r].pc = "open"
       /\ sk' = [sk EXCEPT ![s] = "open"]
       /\ IF conn.wsRuntime
          THEN /\ conn' = [conn EXCEPT !.socket = s, !.wsSocket = s, !.handler = s,
                                       !._abort = conn.abort]
               /\ linked' = linked \cup {conn.abort}
               /\ listening' = listening \cup {s}
               /\ watch' = [watch EXCEPT ![s] = 1]
               /\ rs' = [rs EXCEPT ![r].pc = "info"]
          ELSE /\ conn' = [conn EXCEPT !.socket = s, !.wsSocket = s]
               /\ rs' = [rs EXCEPT ![r] = IdleRestart]
               /\ UNCHANGED <<listening, watch, linked>>
       /\ UNCHANGED <<aborted, loop, losses>>

(* kernel_info is answered on the socket the restart opened, or is not.     *)
BugStaysDown(r) ==
    /\ rs[r].pc = "info" /\ sk[rs[r].sock] = "open" /\ rs[r].sock \in listening
    /\ rs' = [rs EXCEPT ![r] = IdleRestart]
    /\ UNCHANGED <<sk, listening, watch, conn, aborted, linked, loop, losses>>

RestartDone(r) ==
    /\ rs[r].pc = "info" /\ sk[rs[r].sock] = "open" /\ rs[r].sock \in listening
    /\ rs' = [rs EXCEPT ![r] = IdleRestart]
    /\ conn' = [conn EXCEPT !.state = "idle"]
    /\ UNCHANGED <<sk, listening, watch, aborted, linked, loop, losses>>

RestartUnanswered(r) ==
    /\ rs[r].pc = "info"
    /\ CloseAll({rs[r].sock})
    /\ rs' = [rs EXCEPT ![r] = IdleRestart]
    /\ UNCHANGED <<listening, watch, conn, aborted, linked, loop, losses>>

-----------------------------------------------------------------------------
(* shutdown(): the runtime is forgotten before the abort, which therefore   *)
(* no longer changes info.state; the client's own controller is aborted.    *)
Shutdown ==
    LET g == conn._abort
    IN /\ conn.wsRuntime
       /\ (Looping \/ Restarting) /\ g # conn.abort => "shutdownUnlinked" \in Races
       /\ aborted' = aborted \cup {g}
       /\ CloseAll(AbortedSockets(g) \cup {conn.wsSocket})
       /\ listening' = Unheard(conn.wsSocket)
       /\ conn' = [(IF Asleep(g) # {} THEN Down(conn) ELSE conn)
                      EXCEPT !.wsRuntime = FALSE, !.wsSocket = NoSocket,
                             !.handler = IF listening' = listening THEN @ ELSE NoSocket]
       /\ loop' = AbortedLoops(g)
       /\ rs' = AbortedRestarts(g)
       /\ UNCHANGED <<watch, linked, losses>>

-----------------------------------------------------------------------------
LoopStep(l) ==
    \/ LoopBegins(l) \/ LoopFails(l) \/ LoopSucceeds(l) \/ LoopBreaks(l)
    \/ \E s \in Sockets : LoopConnects(l, s)

RestartStep(r) ==
    \/ RestartRefused(r) \/ RestartThrows(r) \/ RestartOpenFails(r)
    \/ RestartOpened(r) \/ RestartDone(r) \/ RestartUnanswered(r)
    \/ \E s \in Sockets : RestartAccepted(r, s)

Next ==
    \/ \E s \in Sockets : Lose(s)
    \/ \E l \in Loops : LoopStep(l)
    \/ \E r \in Restarters : RestartBegins(r) \/ RestartStep(r)
    \/ Shutdown

Spec == Init /\ [][Next]_vars

(* A sleep, a loop's connection attempt, a POST and a kernel_info all end,  *)
(* by their timeouts if nothing else.  The socket that a restart opens has  *)
(* none (restart.ts, _openWS).                                              *)
FairSpec ==
    /\ Spec
    /\ \A l \in Loops : WF_vars(LoopStep(l))
    /\ \A r \in Restarters : WF_vars(rs[r].pc # "open" /\ RestartStep(r))

-----------------------------------------------------------------------------
TypeOK ==
    /\ sk \in [Sockets -> {"none", "connecting", "open", "closed"}]
    /\ listening \in SUBSET Sockets
    /\ watch \in [Sockets -> Nat]
    /\ conn \in [socket : Sockets, wsSocket : Sockets \cup {NoSocket},
                 handler : Sockets \cup {NoSocket}, abort : Nat, _abort : Nat,
                 wsRuntime : BOOLEAN, state : {"idle", "reconnecting", "disconnected"},
                 retry : Nat]
    /\ aborted \in SUBSET Nat /\ linked \in SUBSET Nat
    /\ loop \in [Loops -> [pc : {"off", "flush", "delay", "connect", "closing"},
                           gen : Nat, attempt : Nat, sock : Sockets \cup {NoSocket}]]
    /\ rs \in [Restarters -> [pc : {"off", "rest", "open", "info"},
                              sock : Sockets \cup {NoSocket}, gen : Nat]]
    /\ losses \in Nat

(* Whatever swaps the socket, the runtime, the client and the listeners     *)
(* agree on which one is current: what the kernel says on it is heard, and  *)
(* its loss is noticed.                                                     *)
CurrentIsHeard ==
    conn.wsRuntime =>
        /\ conn.wsSocket = conn.socket /\ conn.handler = conn.socket
        /\ conn.socket \in listening
        /\ watch[conn.socket] > 0

(* No socket is left open that the client does not use or is not opening.   *)
NoStraySocket ==
    \A s \in Sockets : sk[s] = "open" => conn.wsRuntime /\ s = conn.socket

(* A restart links the controller it made to info.state only when its       *)
(* socket is open (server-client.ts:426).  A restart that ends before leaves *)
(* one that is linked to nothing, and the next restart, which aborts that   *)
(* one, changes no state: the controller in use and the one before are both *)
(* linked when neither has happened.                                        *)
Linked == conn.abort \in linked
BothLinked == Linked /\ (conn.abort = 0 \/ conn.abort - 1 \in linked)

(* What is said of the connection is true: no socket is open beside it; the *)
(* interrupt guard reads `reconnect` (dispatcher/exec/interrupt.ts:47),     *)
(* which is set exactly while the state is "reconnecting"; once nobody      *)
(* works on the socket, an open one is not reported lost, and a kernel is   *)
(* "idle" only on an open one.  Restarts that ended before their socket was *)
(* open are excepted: one that was refused says "idle" whatever its socket  *)
(* is (restart.ts:156), one that got no answer leaves "disconnected" on an  *)
(* open socket, and after either the next one leaves the state as it was.   *)
StateTruthful ==
    /\ NoStraySocket
    /\ conn.state = "reconnecting" <=> conn.retry > 0
    /\ conn.wsRuntime /\ ~Looping /\ ~Restarting =>
          /\ Linked /\ sk[conn.socket] = "open" => conn.state = "idle"
          /\ BothLinked /\ conn.state = "idle" => sk[conn.socket] = "open"

(* "The dispatcher's catch leaves runtime.info.state as "disconnected""     *)
(* (restart.ts:186) when the handshake of a restart fails.  It does not     *)
(* when the restart before it was refused: see ConnectionRefused.cfg.       *)
FailedHandshakeIsDown ==
    [][\A r \in Restarters :
          rs[r].pc = "info" /\ rs'[r].pc = "off" /\ conn'.wsRuntime =>
             sk'[conn'.socket] = "open" \/ conn'.state = "disconnected"]_vars

=============================================================================

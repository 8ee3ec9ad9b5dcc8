---------------------- MODULE KernelConnectionProofs ----------------------
(***************************************************************************)
(* Whatever is lost, refused, restarted or shut down, and in whatever      *)
(* order (every value of Races): the state keeps its type, and the socket  *)
(* that the runtime names is the one the client listens to and watches.    *)
(***************************************************************************)
EXTENDS KernelConnection, FiniteSetTheorems, TLAPS

LoopType == [pc : {"off", "flush", "delay", "connect", "closing"},
             gen : Nat, attempt : Nat, sock : Sockets \cup {NoSocket}]
RestartType == [pc : {"off", "rest", "open", "info"},
                sock : Sockets \cup {NoSocket}, gen : Nat]
ConnType == [socket : Sockets, wsSocket : Sockets \cup {NoSocket},
             handler : Sockets \cup {NoSocket}, abort : Nat, _abort : Nat,
             wsRuntime : BOOLEAN, state : {"idle", "reconnecting", "disconnected"},
             retry : Nat]

(* A connection attempt has its socket.                                     *)
LoopHasSocket(x) == x.pc = "connect" => x.sock \in Sockets
RestartHasSocket(x) == x.pc \in {"open", "info"} => x.sock \in Sockets

Attempts ==
    /\ \A l \in Loops : LoopHasSocket(loop[l])
    /\ \A r \in Restarters : RestartHasSocket(rs[r])

Heard(c, L, w) ==
    c.wsRuntime => /\ c.wsSocket = c.socket
                   /\ c.handler = c.socket
                   /\ c.socket \in L
                   /\ w[c.socket] > 0

IInv == TypeOK /\ Attempts /\ Heard(conn, listening, watch)

(* What an abort leaves of a loop or of a restart is still one.             *)
LEMMA AbortTyped ==
    ASSUME TypeOK, Attempts, NEW g
    PROVE  /\ AbortedLoops(g) \in [Loops -> LoopType]
           /\ \A l \in Loops : LoopHasSocket(AbortedLoops(g)[l])
           /\ AbortedRestarts(g) \in [Restarters -> RestartType]
           /\ \A r \in Restarters : RestartHasSocket(AbortedRestarts(g)[r])
<1>1. IdleLoop \in LoopType /\ LoopHasSocket(IdleLoop)
  BY DEF IdleLoop, LoopType, LoopHasSocket
<1>2. IdleRestart \in RestartType /\ RestartHasSocket(IdleRestart)
  BY DEF IdleRestart, RestartType, RestartHasSocket
<1>3. ASSUME NEW l \in Loops
      PROVE  AbortedLoops(g)[l] \in LoopType /\ LoopHasSocket(AbortedLoops(g)[l])
  <2>1. loop[l] \in LoopType /\ LoopHasSocket(loop[l])
    BY DEF TypeOK, Attempts, LoopType
  <2>2. [loop[l] EXCEPT !.pc = "closing"] \in LoopType
    BY <2>1 DEF LoopType
  <2>3. LoopHasSocket([loop[l] EXCEPT !.pc = "closing"])
    BY <2>1 DEF LoopHasSocket, LoopType
  <2> QED BY <1>1, <2>1, <2>2, <2>3 DEF AbortedLoops
<1>4. ASSUME NEW r \in Restarters
      PROVE  AbortedRestarts(g)[r] \in RestartType /\ RestartHasSocket(AbortedRestarts(g)[r])
  <2>1. rs[r] \in RestartType /\ RestartHasSocket(rs[r])
    BY DEF TypeOK, Attempts, RestartType
  <2> QED BY <1>2, <2>1 DEF AbortedRestarts
<1> QED BY <1>3, <1>4 DEF AbortedLoops, AbortedRestarts

LEMMA InitInv == ConnectionAssumption /\ Init => IInv
<1> SUFFICES ASSUME ConnectionAssumption, Init PROVE IInv
  OBVIOUS
<1>1. PICK s \in Sockets :
        /\ sk = [x \in Sockets |-> IF x = s THEN "open" ELSE "none"]
        /\ listening = {s}
        /\ watch = [x \in Sockets |-> IF x = s THEN 1 ELSE 0]
        /\ conn = [socket |-> s, wsSocket |-> s, handler |-> s,
                   abort |-> 0, _abort |-> 0, wsRuntime |-> TRUE,
                   state |-> "idle", retry |-> 0]
        /\ aborted = {} /\ linked = {0}
        /\ loop = [l \in Loops |-> IdleLoop]
        /\ rs = [r \in Restarters |-> IdleRestart]
        /\ losses = 0
  BY DEF Init
<1>2. IdleLoop \in LoopType /\ LoopHasSocket(IdleLoop)
  BY DEF IdleLoop, LoopType, LoopHasSocket
<1>3. IdleRestart \in RestartType /\ RestartHasSocket(IdleRestart)
  BY DEF IdleRestart, RestartType, RestartHasSocket
<1>4. loop \in [Loops -> LoopType] /\ rs \in [Restarters -> RestartType]
  BY <1>1, <1>2, <1>3
<1>5. TypeOK
  BY <1>1, <1>4 DEF TypeOK, LoopType, RestartType
<1>6. Attempts
  BY <1>1, <1>2, <1>3 DEF Attempts
<1>7. Heard(conn, listening, watch)
  BY <1>1 DEF Heard
<1> QED BY <1>5, <1>6, <1>7 DEF IInv

(* One loop or one restart is replaced by a typed one that has its socket.  *)
LEMMA LoopReplaced ==
    ASSUME TypeOK, Attempts, NEW l \in Loops, NEW x \in LoopType, LoopHasSocket(x),
           loop' = [loop EXCEPT ![l] = x]
    PROVE  loop' \in [Loops -> LoopType] /\ \A k \in Loops : LoopHasSocket(loop'[k])
<1>1. loop \in [Loops -> LoopType]
  BY DEF TypeOK, LoopType
<1> QED BY <1>1 DEF Attempts

LEMMA RestartReplaced ==
    ASSUME TypeOK, Attempts, NEW r \in Restarters, NEW x \in RestartType,
           RestartHasSocket(x), rs' = [rs EXCEPT ![r] = x]
    PROVE  rs' \in [Restarters -> RestartType] /\ \A q \in Restarters : RestartHasSocket(rs'[q])
<1>1. rs \in [Restarters -> RestartType]
  BY DEF TypeOK, RestartType
<1> QED BY <1>1 DEF Attempts

(* The parts of IInv after a step, gathered.                                *)
LEMMA Gather ==
    ASSUME sk' \in [Sockets -> {"none", "connecting", "open", "closed"}],
           listening' \in SUBSET Sockets, watch' \in [Sockets -> Nat],
           conn' \in ConnType, aborted' \in SUBSET Nat, linked' \in SUBSET Nat,
           loop' \in [Loops -> LoopType], \A l \in Loops : LoopHasSocket(loop'[l]),
           rs' \in [Restarters -> RestartType],
           \A r \in Restarters : RestartHasSocket(rs'[r]),
           losses' \in Nat,
           Heard(conn', listening', watch')
    PROVE  IInv'
<1>1. TypeOK'
  BY DEF TypeOK, LoopType, RestartType, ConnType
<1>2. Attempts'
  BY DEF Attempts
<1>3. Heard(conn, listening, watch)'
  BY DEF Heard
<1> QED BY <1>1, <1>2, <1>3 DEF IInv

(* What IInv says, in the words of the sets above.                          *)
LEMMA Spread ==
    ASSUME IInv
    PROVE  /\ TypeOK /\ Attempts
           /\ sk \in [Sockets -> {"none", "connecting", "open", "closed"}]
           /\ listening \in SUBSET Sockets /\ watch \in [Sockets -> Nat]
           /\ conn \in ConnType /\ aborted \in SUBSET Nat /\ linked \in SUBSET Nat
           /\ loop \in [Loops -> LoopType]
           /\ \A l \in Loops : LoopHasSocket(loop[l])
           /\ rs \in [Restarters -> RestartType]
           /\ \A r \in Restarters : RestartHasSocket(rs[r])
           /\ losses \in Nat
           /\ Heard(conn, listening, watch)
BY DEF IInv, TypeOK, Attempts, LoopType, RestartType, ConnType

(* The sockets that CloseAll leaves are those there were.                   *)
LEMMA CloseTyped ==
    ASSUME NEW S, CloseAll(S), sk \in [Sockets -> {"none", "connecting", "open", "closed"}]
    PROVE  sk' \in [Sockets -> {"none", "connecting", "open", "closed"}]
BY DEF CloseAll

LEMMA Idles ==
    /\ IdleLoop \in LoopType /\ LoopHasSocket(IdleLoop)
    /\ IdleRestart \in RestartType /\ RestartHasSocket(IdleRestart)
BY DEF IdleLoop, LoopType, LoopHasSocket, IdleRestart, RestartType, RestartHasSocket

LEMMA LoseStep ==
    ASSUME IInv, NEW s \in Sockets, Lose(s)
    PROVE  IInv'
<1> USE Spread
<1>1. sk' \in [Sockets -> {"none", "connecting", "open", "closed"}] /\ losses' \in Nat
  BY DEF Lose
<1>2. [IdleLoop EXCEPT !.pc = "flush"] \in LoopType
      /\ LoopHasSocket([IdleLoop EXCEPT !.pc = "flush"])
  BY DEF IdleLoop, LoopType, LoopHasSocket
<1>3. loop' \in [Loops -> LoopType] /\ \A l \in Loops : LoopHasSocket(loop'[l])
  <2>1. CASE conn.wsRuntime
    <3>1. PICK L \in SUBSET Loops :
            loop' = [l \in Loops |-> IF l \in L THEN [IdleLoop EXCEPT !.pc = "flush"]
                                     ELSE loop[l]]
      BY <2>1 DEF Lose
    <3> QED BY <1>2, <3>1
  <2>2. CASE ~conn.wsRuntime
    BY <2>2 DEF Lose
  <2> QED BY <2>1, <2>2 DEF ConnType
<1>4. UNCHANGED <<listening, watch, conn, aborted, linked, rs>>
  BY DEF Lose
<1> QED BY <1>1, <1>3, <1>4, Gather

(* A change of state, retry or controller leaves the sockets alone.         *)
LEMMA StateTyped ==
    ASSUME conn \in ConnType, NEW st \in {"idle", "reconnecting", "disconnected"},
           NEW n \in Nat
    PROVE  /\ [conn EXCEPT !.state = st] \in ConnType
           /\ [conn EXCEPT !.retry = n] \in ConnType
           /\ [conn EXCEPT !.state = st, !.retry = n] \in ConnType
           /\ Down(conn) \in ConnType
BY DEF ConnType, Down

(* The sockets and the runtime of c are those of d.                         *)
SameSockets(c, d) ==
    /\ c.socket = d.socket /\ c.wsSocket = d.wsSocket
    /\ c.handler = d.handler /\ c.wsRuntime = d.wsRuntime

LEMMA StateSame ==
    ASSUME conn \in ConnType, NEW st, NEW n
    PROVE  /\ SameSockets([conn EXCEPT !.state = st], conn)
           /\ SameSockets([conn EXCEPT !.retry = n], conn)
           /\ SameSockets([conn EXCEPT !.state = st, !.retry = n], conn)
           /\ SameSockets(Down(conn), conn)
BY DEF ConnType, Down, SameSockets

LEMMA SameHeard ==
    ASSUME Heard(conn, listening, watch), SameSockets(conn', conn),
           UNCHANGED <<listening, watch>>
    PROVE  Heard(conn', listening', watch')
BY DEF Heard, SameSockets

LEMMA FailedStep ==
    ASSUME IInv, NEW l \in Loops, AttemptFailed(l)
    PROVE  /\ loop' \in [Loops -> LoopType] /\ \A k \in Loops : LoopHasSocket(loop'[k])
           /\ conn' \in ConnType /\ SameSockets(conn', conn)
<1> USE Spread
<1>0. loop[l] \in LoopType /\ MaxRetries = MaxRetries
  OBVIOUS
<1>1. CASE loop[l].attempt < MaxRetries
  <2> DEFINE x == [loop[l] EXCEPT !.pc = "delay", !.attempt = loop[l].attempt + 1,
                           !.sock = NoSocket]
  <2>0. loop[l].attempt + 1 \in Nat
    BY <1>0 DEF LoopType
  <2>1. x \in LoopType /\ LoopHasSocket(x)
    BY <1>0, <2>0 DEF LoopType, LoopHasSocket
  <2>2. loop' = [loop EXCEPT ![l] = x]
    BY <1>1 DEF AttemptFailed
  <2>3. conn' = [conn EXCEPT !.retry = loop[l].attempt + 1]
    BY <1>1 DEF AttemptFailed
  <2>5. conn' \in ConnType /\ SameSockets(conn', conn)
    BY <2>0, <2>3, StateTyped, StateSame
  <2> HIDE DEF x
  <2> QED BY <2>1, <2>2, <2>5, LoopReplaced
<1>2. CASE ~(loop[l].attempt < MaxRetries)
  <2>1. loop' = [loop EXCEPT ![l] = IdleLoop] /\ conn' = Down(conn)
    BY <1>2 DEF AttemptFailed
  <2>2. conn' \in ConnType /\ SameSockets(conn', conn)
    BY <2>1, StateTyped, StateSame
  <2> QED BY <2>1, <2>2, Idles, LoopReplaced
<1> QED BY <1>1, <1>2

LEMMA BeginsStep ==
    ASSUME IInv, NEW l \in Loops, LoopBegins(l)
    PROVE  IInv'
<1> USE Spread
<1>1. UNCHANGED <<sk, listening, watch, aborted, linked, rs, losses>>
  BY DEF LoopBegins
<1> DEFINE x == [IdleLoop EXCEPT !.pc = "delay", !.attempt = 1, !.gen = conn.abort]
<1>2. x \in LoopType /\ LoopHasSocket(x)
  BY DEF IdleLoop, LoopType, LoopHasSocket, ConnType
<1>3. \/ loop' = [loop EXCEPT ![l] = IdleLoop] /\ conn' = conn
      \/ loop' = [loop EXCEPT ![l] = IdleLoop] /\ conn' = [conn EXCEPT !.state = "disconnected"]
      \/ /\ loop' = [loop EXCEPT ![l] = x]
         /\ conn' = [conn EXCEPT !.state = "reconnecting", !.retry = 1]
  BY DEF LoopBegins
<1> HIDE DEF x
<1>4. loop' \in [Loops -> LoopType] /\ \A k \in Loops : LoopHasSocket(loop'[k])
  BY <1>2, <1>3, Idles, LoopReplaced
<1>5. conn' \in ConnType /\ SameSockets(conn', conn)
  <2>1. CASE conn' = conn
    BY <2>1 DEF SameSockets
  <2>2. CASE conn' = [conn EXCEPT !.state = "disconnected"]
    BY <2>2, StateTyped, StateSame
  <2>3. CASE conn' = [conn EXCEPT !.state = "reconnecting", !.retry = 1]
    BY <2>3, StateTyped, StateSame
  <2> QED BY <1>3, <2>1, <2>2, <2>3
<1>6. Heard(conn', listening', watch')
  BY <1>1, <1>5, SameHeard
<1> QED BY <1>1, <1>4, <1>5, <1>6, Gather

LEMMA ConnectsStep ==
    ASSUME IInv, NEW l \in Loops, NEW s \in Sockets, LoopConnects(l, s)
    PROVE  IInv'
<1> USE Spread
<1>1. UNCHANGED <<listening, watch, aborted, linked, rs, losses>>
  BY DEF LoopConnects
<1>2. CASE conn.wsRuntime
  <2> DEFINE x == [loop[l] EXCEPT !.pc = "connect", !.sock = s]
  <2>1. x \in LoopType /\ LoopHasSocket(x)
    BY DEF LoopType, LoopHasSocket
  <2>2. loop' = [loop EXCEPT ![l] = x] /\ conn' = conn
    BY <1>2 DEF LoopConnects
  <2>3. sk' \in [Sockets -> {"none", "connecting", "open", "closed"}]
    BY <1>2 DEF LoopConnects
  <2> HIDE DEF x
  <2>4. loop' \in [Loops -> LoopType] /\ \A k \in Loops : LoopHasSocket(loop'[k])
    BY <2>1, <2>2, LoopReplaced
  <2>5. SameSockets(conn', conn)
    BY <2>2 DEF SameSockets
  <2>6. Heard(conn', listening', watch')
    BY <1>1, <2>5, SameHeard
  <2> QED BY <1>1, <2>2, <2>3, <2>4, <2>6, Gather
<1>3. CASE ~conn.wsRuntime
  <2>1. AttemptFailed(l) /\ UNCHANGED sk
    BY <1>3 DEF LoopConnects
  <2>2. Heard(conn', listening', watch')
    BY <1>1, <2>1, FailedStep, SameHeard
  <2> QED BY <1>1, <2>1, <2>2, FailedStep, Gather
<1> QED BY <1>2, <1>3

LEMMA FailsStep ==
    ASSUME IInv, NEW l \in Loops, LoopFails(l)
    PROVE  IInv'
<1> USE Spread
<1>1. UNCHANGED <<listening, watch, aborted, linked, rs, losses>> /\ AttemptFailed(l)
  BY DEF LoopFails
<1>2. sk' \in [Sockets -> {"none", "connecting", "open", "closed"}]
  BY CloseTyped DEF LoopFails
<1>3. Heard(conn', listening', watch')
  BY <1>1, FailedStep, SameHeard
<1> QED BY <1>1, <1>2, <1>3, FailedStep, Gather

LEMMA BreaksStep ==
    ASSUME IInv, NEW l \in Loops, LoopBreaks(l)
    PROVE  IInv'
<1> USE Spread
<1>1. UNCHANGED <<sk, listening, watch, aborted, linked, rs, losses>>
  BY DEF LoopBreaks
<1>2. loop' = [loop EXCEPT ![l] = IdleLoop] /\ conn' = Down(conn)
  BY DEF LoopBreaks
<1>3. conn' \in ConnType /\ SameSockets(conn', conn)
  BY <1>2, StateTyped, StateSame
<1>4. Heard(conn', listening', watch')
  BY <1>1, <1>3, SameHeard
<1>5. loop' \in [Loops -> LoopType] /\ \A k \in Loops : LoopHasSocket(loop'[k])
  BY <1>2, Idles, LoopReplaced
<1> QED BY <1>1, <1>3, <1>4, <1>5, Gather

(* The swap keeps the runtime, the client and the listeners together.       *)
LEMMA SucceedsStep ==
    ASSUME IInv, NEW l \in Loops, LoopSucceeds(l)
    PROVE  IInv'
<1> USE Spread
<1> DEFINE s == loop[l].sock
<1>1. UNCHANGED <<aborted, linked, rs, losses>>
  BY DEF LoopSucceeds
<1>2. s \in Sockets
  BY DEF LoopSucceeds, LoopHasSocket
<1>3. /\ sk' = [sk EXCEPT ![s] = "open"]
      /\ listening' = Unheard(conn.wsSocket) \cup {s}
      /\ watch' = [watch EXCEPT ![s] = 2]
      /\ conn' = [conn EXCEPT !.socket = s, !.wsSocket = s, !.handler = s,
                              !.state = "idle", !.retry = 0]
      /\ loop' = [loop EXCEPT ![l] = IdleLoop]
  BY DEF LoopSucceeds
<1> HIDE DEF s
<1>4. /\ sk' \in [Sockets -> {"none", "connecting", "open", "closed"}]
      /\ listening' \in SUBSET Sockets /\ watch' \in [Sockets -> Nat]
  BY <1>2, <1>3 DEF Unheard
<1>5. conn' \in ConnType
  BY <1>2, <1>3 DEF ConnType
<1>6. Heard(conn', listening', watch')
  BY <1>2, <1>3 DEF Heard, ConnType
<1>7. loop' \in [Loops -> LoopType] /\ \A k \in Loops : LoopHasSocket(loop'[k])
  BY <1>3, Idles, LoopReplaced
<1> QED BY <1>1, <1>4, <1>5, <1>6, <1>7, Gather

LEMMA RestartBeginsStep ==
    ASSUME IInv, NEW r \in Restarters, RestartBegins(r)
    PROVE  IInv'
<1> USE Spread
<1> DEFINE g == conn.abort
           x == [IdleRestart EXCEPT !.pc = "rest"]
<1>0. g \in Nat
  BY DEF ConnType
<1>1. /\ UNCHANGED <<listening, watch, linked, losses>>
      /\ aborted' = aborted \cup {g}
      /\ CloseAll(AbortedSockets(g))
      /\ loop' = AbortedLoops(g)
      /\ rs' = [AbortedRestarts(g) EXCEPT ![r] = x]
      /\ \/ conn' = [Down(conn) EXCEPT !.abort = g + 1]
         \/ conn' = [conn EXCEPT !.abort = g + 1]
  BY DEF RestartBegins
<1>2. x \in RestartType /\ RestartHasSocket(x)
  BY DEF IdleRestart, RestartType, RestartHasSocket
<1>3. conn' \in ConnType /\ SameSockets(conn', conn)
  <2>1. g + 1 \in Nat
    BY <1>0
  <2>2. CASE conn' = [Down(conn) EXCEPT !.abort = g + 1]
    <3> DEFINE d == Down(conn)
    <3>1. d \in ConnType /\ SameSockets(d, conn)
      BY StateTyped, StateSame
    <3>2. conn' = [d EXCEPT !.abort = g + 1]
      BY <2>2
    <3> HIDE DEF d, g
    <3> QED BY <2>1, <3>1, <3>2 DEF ConnType, SameSockets
  <2>3. CASE conn' = [conn EXCEPT !.abort = g + 1]
    BY <2>1, <2>3 DEF ConnType, SameSockets
  <2> QED BY <1>1, <2>2, <2>3
<1> HIDE DEF g, x
<1>4. sk' \in [Sockets -> {"none", "connecting", "open", "closed"}]
  BY <1>1, CloseTyped
<1>5. loop' \in [Loops -> LoopType] /\ \A l \in Loops : LoopHasSocket(loop'[l])
  BY <1>1, AbortTyped
<1>6. rs' \in [Restarters -> RestartType] /\ \A q \in Restarters : RestartHasSocket(rs'[q])
  BY <1>1, <1>2, AbortTyped
<1>7. Heard(conn', listening', watch')
  BY <1>1, <1>3, SameHeard
<1>8. aborted' \in SUBSET Nat
  BY <1>0, <1>1
<1> QED BY <1>1, <1>3, <1>4, <1>5, <1>6, <1>7, <1>8, Gather

(* The endings of a restart that install no socket.                         *)
LEMMA RestartEndsStep ==
    ASSUME IInv, NEW r \in Restarters,
           \/ RestartRefused(r) \/ RestartThrows(r) \/ RestartOpenFails(r)
           \/ RestartDone(r) \/ RestartUnanswered(r)
    PROVE  IInv'
<1> USE Spread
<1>1. UNCHANGED <<listening, watch, aborted, linked, loop, losses>>
  BY DEF RestartRefused, RestartThrows, RestartOpenFails, RestartDone, RestartUnanswered
<1>2. rs' = [rs EXCEPT ![r] = IdleRestart]
  BY DEF RestartRefused, RestartThrows, RestartOpenFails, RestartDone, RestartUnanswered
<1>3. sk' = sk \/ CloseAll({rs[r].sock})
  BY DEF RestartRefused, RestartThrows, RestartOpenFails, RestartDone, RestartUnanswered
<1>4. conn' = conn \/ conn' = [conn EXCEPT !.state = "idle"]
  BY DEF RestartRefused, RestartThrows, RestartOpenFails, RestartDone, RestartUnanswered
<1>5. conn' \in ConnType /\ SameSockets(conn', conn)
  <2>1. CASE conn' = conn
    BY <2>1 DEF SameSockets
  <2>2. CASE conn' = [conn EXCEPT !.state = "idle"]
    BY <2>2, StateTyped, StateSame
  <2> QED BY <1>4, <2>1, <2>2
<1>6. sk' \in [Sockets -> {"none", "connecting", "open", "closed"}]
  BY <1>3, CloseTyped
<1>7. rs' \in [Restarters -> RestartType] /\ \A q \in Restarters : RestartHasSocket(rs'[q])
  BY <1>2, Idles, RestartReplaced
<1>8. Heard(conn', listening', watch')
  BY <1>1, <1>5, SameHeard
<1> QED BY <1>1, <1>5, <1>6, <1>7, <1>8, Gather

LEMMA AcceptedStep ==
    ASSUME IInv, NEW r \in Restarters, NEW s \in Sockets, RestartAccepted(r, s)
    PROVE  IInv'
<1> USE Spread
<1> DEFINE x == [pc |-> "open", sock |-> s, gen |-> conn.abort]
<1>1. UNCHANGED <<listening, watch, conn, aborted, linked, loop, losses>>
  BY DEF RestartAccepted
<1>2. x \in RestartType /\ RestartHasSocket(x)
  BY DEF RestartType, RestartHasSocket, ConnType
<1>3. rs' = [rs EXCEPT ![r] = IdleRestart] \/ rs' = [rs EXCEPT ![r] = x]
  BY DEF RestartAccepted
<1>4. \/ CloseAll({conn.socket})
      \/ sk' = [sk EXCEPT ![conn.socket] = "closed", ![s] = "connecting"]
  BY DEF RestartAccepted
<1> HIDE DEF x
<1>5. sk' \in [Sockets -> {"none", "connecting", "open", "closed"}]
  BY <1>4, CloseTyped
<1>6. rs' \in [Restarters -> RestartType] /\ \A q \in Restarters : RestartHasSocket(rs'[q])
  BY <1>2, <1>3, Idles, RestartReplaced
<1>7. Heard(conn', listening', watch')
  BY <1>1, SameHeard DEF SameSockets
<1> QED BY <1>1, <1>5, <1>6, <1>7, Gather

(* A restart installs its socket in every place, or the runtime is gone.    *)
LEMMA OpenedStep ==
    ASSUME IInv, NEW r \in Restarters, RestartOpened(r)
    PROVE  IInv'
<1> USE Spread
<1> DEFINE s == rs[r].sock
<1>1. s \in Sockets
  BY DEF RestartOpened, RestartHasSocket
<1>2. sk' = [sk EXCEPT ![s] = "open"] /\ UNCHANGED <<aborted, loop, losses>>
  BY DEF RestartOpened
<1>3. sk' \in [Sockets -> {"none", "connecting", "open", "closed"}]
  BY <1>1, <1>2
<1>4. CASE conn.wsRuntime
  <2> DEFINE x == [rs[r] EXCEPT !.pc = "info"]
  <2>1. /\ conn' = [conn EXCEPT !.socket = s, !.wsSocket = s, !.handler = s,
                                !._abort = conn.abort]
        /\ linked' = linked \cup {conn.abort}
        /\ listening' = listening \cup {s}
        /\ watch' = [watch EXCEPT ![s] = 1]
        /\ rs' = [rs EXCEPT ![r] = x]
    BY <1>4 DEF RestartOpened
  <2>2. x \in RestartType /\ RestartHasSocket(x)
    <3>1. rs[r] \in RestartType
      OBVIOUS
    <3> QED BY <1>1, <3>1 DEF RestartType, RestartHasSocket
  <2> HIDE DEF s, x
  <2>3. conn' \in ConnType /\ linked' \in SUBSET Nat
    BY <1>1, <2>1 DEF ConnType
  <2>4. listening' \in SUBSET Sockets /\ watch' \in [Sockets -> Nat]
    BY <1>1, <2>1
  <2>5. Heard(conn', listening', watch')
    BY <1>1, <2>1 DEF Heard, ConnType
  <2>6. rs' \in [Restarters -> RestartType] /\ \A q \in Restarters : RestartHasSocket(rs'[q])
    BY <2>1, <2>2, RestartReplaced
  <2> QED BY <1>2, <1>3, <2>3, <2>4, <2>5, <2>6, Gather
<1>5. CASE ~conn.wsRuntime
  <2>1. /\ conn' = [conn EXCEPT !.socket = s, !.wsSocket = s]
        /\ rs' = [rs EXCEPT ![r] = IdleRestart]
        /\ UNCHANGED <<listening, watch, linked>>
    BY <1>5 DEF RestartOpened
  <2> HIDE DEF s
  <2>2. conn' \in ConnType /\ Heard(conn', listening', watch')
    BY <1>1, <1>5, <2>1 DEF ConnType, Heard
  <2>3. rs' \in [Restarters -> RestartType] /\ \A q \in Restarters : RestartHasSocket(rs'[q])
    BY <2>1, Idles, RestartReplaced
  <2> QED BY <1>2, <1>3, <2>1, <2>2, <2>3, Gather
<1> QED BY <1>4, <1>5 DEF ConnType

LEMMA ShutdownStep ==
    ASSUME IInv, Shutdown
    PROVE  IInv'
<1> USE Spread
<1> DEFINE g == conn._abort
           h == IF listening' = listening THEN conn.handler ELSE NoSocket
<1>1. /\ UNCHANGED <<watch, linked, losses>>
      /\ aborted' = aborted \cup {g}
      /\ CloseAll(AbortedSockets(g) \cup {conn.wsSocket})
      /\ listening' = Unheard(conn.wsSocket)
      /\ loop' = AbortedLoops(g)
      /\ rs' = AbortedRestarts(g)
  BY DEF Shutdown
<1>2. \/ conn' = [Down(conn) EXCEPT !.wsRuntime = FALSE, !.wsSocket = NoSocket, !.handler = h]
      \/ conn' = [conn EXCEPT !.wsRuntime = FALSE, !.wsSocket = NoSocket, !.handler = h]
  BY DEF Shutdown, Down, ConnType
<1>3. h \in Sockets \cup {NoSocket} /\ g \in Nat
  BY DEF ConnType
<1> HIDE DEF g, h
<1>4. conn' \in ConnType /\ ~conn'.wsRuntime
  <2>1. PICK c \in {conn, Down(conn)} :
          conn' = [c EXCEPT !.wsRuntime = FALSE, !.wsSocket = NoSocket, !.handler = h]
    BY <1>2
  <2>2. c \in ConnType
    BY <2>1, StateTyped
  <2> QED BY <1>3, <2>1, <2>2 DEF ConnType
<1>5. sk' \in [Sockets -> {"none", "connecting", "open", "closed"}]
  BY <1>1, CloseTyped
<1>6. listening' \in SUBSET Sockets /\ aborted' \in SUBSET Nat
  BY <1>1, <1>3 DEF Unheard
<1>7. loop' \in [Loops -> LoopType] /\ \A l \in Loops : LoopHasSocket(loop'[l])
  BY <1>1, AbortTyped
<1>8. rs' \in [Restarters -> RestartType] /\ \A q \in Restarters : RestartHasSocket(rs'[q])
  BY <1>1, AbortTyped
<1>9. Heard(conn', listening', watch')
  BY <1>4 DEF Heard
<1> QED BY <1>1, <1>4, <1>5, <1>6, <1>7, <1>8, <1>9, Gather

LEMMA StepInv == IInv /\ [Next]_vars => IInv'
<1> SUFFICES ASSUME IInv, [Next]_vars PROVE IInv'
  OBVIOUS
<1>1. ASSUME NEW s \in Sockets, Lose(s) PROVE IInv'
  BY <1>1, LoseStep
<1>2. ASSUME NEW l \in Loops, LoopStep(l) PROVE IInv'
  BY <1>2, BeginsStep, ConnectsStep, FailsStep, SucceedsStep, BreaksStep DEF LoopStep
<1>3. ASSUME NEW r \in Restarters, RestartBegins(r) PROVE IInv'
  BY <1>3, RestartBeginsStep
<1>4. ASSUME NEW r \in Restarters, RestartStep(r) PROVE IInv'
  BY <1>4, RestartEndsStep, OpenedStep, AcceptedStep DEF RestartStep
<1>5. CASE Shutdown
  BY <1>5, ShutdownStep
<1>6. CASE UNCHANGED vars
  BY <1>6 DEF vars, IInv, TypeOK, Attempts, Heard
<1> QED BY <1>1, <1>2, <1>3, <1>4, <1>5, <1>6 DEF Next

LEMMA SpecInv == Spec => []IInv
<1>1. Init => IInv
  BY InitInv, ConnectionAssumption
<1> QED BY <1>1, StepInv, PTL DEF Spec

-----------------------------------------------------------------------------
(* With no race.                                                            *)

(* With no race, one loop or one restart works on the socket at a time.    *)
OneWorker ==
    /\ \A l, k \in Loops : loop[l].pc # "off" /\ loop[k].pc # "off" => l = k
    /\ \A r, q \in Restarters : rs[r].pc # "off" /\ rs[q].pc # "off" => r = q
    /\ \A l \in Loops, r \in Restarters : loop[l].pc = "off" \/ rs[r].pc = "off"

(* A loop works only while the socket of the runtime is closed; its attempt *)
(* is for the current controller, and ends with a shutdown.                *)
LoopsStand ==
    \A l \in Loops :
        /\ loop[l].pc # "off" => sk[conn.socket] = "closed"
        /\ loop[l].pc \in {"delay", "connect"} =>
              conn.wsRuntime /\ loop[l].gen = conn.abort /\ conn.state = "reconnecting"
        /\ loop[l].pc = "connect" => sk[loop[l].sock] = "connecting"
        /\ loop[l].pc = "closing" => ~conn.wsRuntime

(* The restart that is under way aborted a controller that was linked, or  *)
(* one that was not: in the first case the client says it is cut off.      *)
SaysDown == conn.abort - 1 \in linked => conn.state = "disconnected"

(* A restart works on a client that is not shut down; until it has a       *)
(* socket, its controller reaches nobody.                                  *)
RestartsStand ==
    \A r \in Restarters :
        /\ rs[r].pc # "off" =>
              conn.wsRuntime /\ conn.state # "reconnecting" /\ conn.abort > 0 /\ SaysDown
        /\ rs[r].pc \in {"rest", "open"} => conn.abort \notin linked
        /\ rs[r].pc = "open" =>
              sk[conn.socket] = "closed" /\ sk[rs[r].sock] = "connecting"
        /\ rs[r].pc = "info" =>
              /\ rs[r].sock = conn.socket /\ sk[conn.socket] = "open"
              /\ rs[r].gen = conn.abort
        /\ rs[r].pc = "open" => rs[r].gen = conn.abort

(* The controller of a live client has not been aborted, nor replaced by a *)
(* later one; the one the client would abort is linked.                    *)
Controllers ==
    /\ conn.wsRuntime => \A g \in aborted : g < conn.abort
    /\ \A g \in linked : g <= conn.abort
    /\ conn._abort \in linked

(* A client that says it reconnects does.                                  *)
Reports ==
    /\ conn.state = "reconnecting" <=> conn.retry > 0
    /\ conn.state = "reconnecting" =>
          \E l \in Loops : loop[l].pc \in {"delay", "connect", "closing"}

(* Between the works the state is that of the one socket, but for what a   *)
(* restart that opened none left behind.                                   *)
AtRest ==
    conn.wsRuntime /\ ~Looping /\ ~Restarting =>
        /\ Linked /\ sk[conn.socket] = "open" => conn.state = "idle"
        /\ BothLinked /\ conn.state = "idle" => sk[conn.socket] = "open"

OneSocket == NoStraySocket /\ sk[conn.socket] \in {"open", "closed"}

Calm == /\ OneWorker /\ LoopsStand /\ RestartsStand /\ Controllers
        /\ Reports /\ AtRest /\ OneSocket

LEMMA CalmInit == ConnectionAssumption /\ Init => Calm
<1> SUFFICES ASSUME ConnectionAssumption, Init PROVE Calm
  OBVIOUS
<1>1. PICK s \in Sockets :
        /\ sk = [x \in Sockets |-> IF x = s THEN "open" ELSE "none"]
        /\ conn = [socket |-> s, wsSocket |-> s, handler |-> s,
                   abort |-> 0, _abort |-> 0, wsRuntime |-> TRUE,
                   state |-> "idle", retry |-> 0]
        /\ aborted = {} /\ linked = {0}
        /\ loop = [l \in Loops |-> IdleLoop]
        /\ rs = [r \in Restarters |-> IdleRestart]
  BY DEF Init
<1>2. /\ \A l \in Loops : loop[l].pc = "off"
      /\ \A r \in Restarters : rs[r].pc = "off"
  BY <1>1 DEF IdleLoop, IdleRestart
<1>3. OneWorker /\ LoopsStand /\ RestartsStand
  BY <1>2 DEF OneWorker, LoopsStand, RestartsStand
<1>4. Controllers /\ Reports /\ AtRest /\ OneSocket
  BY <1>1 DEF BothLinked, Linked, Controllers, Reports, AtRest, OneSocket, NoStraySocket
<1> QED BY <1>3, <1>4 DEF Calm

(* The one loop that works takes a step: there is still but one worker.     *)
LEMMA LoopWorks ==
    ASSUME IInv, Calm, NEW l \in Loops, loop[l].pc # "off", NEW x,
           loop' = [loop EXCEPT ![l] = x], UNCHANGED rs
    PROVE  /\ loop'[l] = x
           /\ \A k \in Loops : k # l => loop[k].pc = "off" /\ loop'[k].pc = "off"
           /\ \A r \in Restarters : rs'[r].pc = "off"
           /\ OneWorker' /\ RestartsStand'
           /\ sk[conn.socket] = "closed"
<1> USE Spread
<1>1. \A k \in Loops : k # l => loop[k].pc = "off" /\ loop'[k] = loop[k]
  BY DEF Calm, OneWorker
<1>2. \A r \in Restarters : rs'[r].pc = "off"
  BY DEF Calm, OneWorker
<1>3. loop'[l] = x
  OBVIOUS
<1>4. OneWorker'
  BY <1>1, <1>2 DEF OneWorker
<1>5. RestartsStand'
  BY <1>2 DEF RestartsStand
<1>6. sk[conn.socket] = "closed"
  BY DEF Calm, LoopsStand
<1> QED BY <1>1, <1>2, <1>3, <1>4, <1>5, <1>6

LEMMA BeginsCalm ==
    ASSUME IInv, Calm, NEW l \in Loops, LoopBegins(l)
    PROVE  Calm'
<1> USE Spread
<1>1. /\ UNCHANGED <<sk, listening, watch, aborted, linked, rs, losses>>
      /\ loop[l].pc = "flush"
  BY DEF LoopBegins
<1>2. conn.state # "reconnecting" /\ conn.retry = 0
  <2>1. \A k \in Loops : k # l => loop[k].pc = "off"
    BY <1>1 DEF Calm, OneWorker
  <2> QED BY <1>1, <2>1 DEF Calm, Reports, ConnType
<1>3. CASE ~conn.wsRuntime
  <2>1. loop' = [loop EXCEPT ![l] = IdleLoop] /\ conn' = conn
    BY <1>3 DEF LoopBegins
  <2>2. \A k \in Loops : loop'[k].pc = "off"
    BY <1>1, <2>1, LoopWorks DEF IdleLoop
  <2>3. OneWorker' /\ RestartsStand' /\ LoopsStand'
    BY <1>1, <2>1, <2>2, LoopWorks DEF LoopsStand
  <2>4. Controllers' /\ Reports' /\ AtRest' /\ OneSocket'
    BY <1>1, <1>2, <1>3, <2>1 DEF Calm, Controllers, Reports, AtRest, OneSocket, NoStraySocket
  <2> QED BY <2>3, <2>4 DEF Calm
<1>4. CASE conn.wsRuntime /\ MaxRetries = 0
  <2>0. conn.abort \notin aborted
    BY <1>4 DEF Calm, Controllers, ConnType
  <2>1. loop' = [loop EXCEPT ![l] = IdleLoop] /\ conn' = [conn EXCEPT !.state = "disconnected"]
    BY <1>4, <2>0 DEF LoopBegins
  <2>2. \A k \in Loops : loop'[k].pc = "off"
    BY <1>1, <2>1, LoopWorks DEF IdleLoop
  <2>3. OneWorker' /\ RestartsStand' /\ LoopsStand' /\ sk[conn.socket] = "closed"
    BY <1>1, <2>1, <2>2, LoopWorks DEF LoopsStand
  <2>4. /\ conn'.socket = conn.socket /\ conn'.wsRuntime = conn.wsRuntime
        /\ conn'._abort = conn._abort
        /\ conn'.abort = conn.abort /\ conn'.retry = 0 /\ conn'.state = "disconnected"
    BY <1>2, <2>1 DEF ConnType
  <2>5. Controllers' /\ Reports' /\ AtRest' /\ OneSocket'
    BY <1>1, <2>3, <2>4 DEF Calm, Controllers, Reports, AtRest, OneSocket, NoStraySocket
  <2> QED BY <2>3, <2>5 DEF Calm
<1>5. CASE conn.wsRuntime /\ MaxRetries # 0
  <2>0. conn.abort \notin aborted
    BY <1>5 DEF Calm, Controllers, ConnType
  <2>1. PICK x : x = [IdleLoop EXCEPT !.pc = "delay", !.attempt = 1, !.gen = conn.abort]
    OBVIOUS
  <2>2. /\ loop' = [loop EXCEPT ![l] = x]
        /\ conn' = [conn EXCEPT !.state = "reconnecting", !.retry = 1]
    BY <1>5, <2>0, <2>1 DEF LoopBegins
  <2>3. x.pc = "delay" /\ x.gen = conn.abort
    BY <2>1 DEF IdleLoop
  <2>4. /\ conn'.socket = conn.socket /\ conn'.wsRuntime = conn.wsRuntime
        /\ conn'._abort = conn._abort
        /\ conn'.abort = conn.abort /\ conn'.retry = 1 /\ conn'.state = "reconnecting"
    BY <2>2 DEF ConnType
  <2>5. /\ OneWorker' /\ RestartsStand' /\ sk[conn.socket] = "closed"
        /\ loop'[l] = x /\ \A k \in Loops : k # l => loop'[k].pc = "off"
    BY <1>1, <2>2, LoopWorks
  <2>6. LoopsStand'
    BY <1>1, <1>5, <2>3, <2>4, <2>5 DEF LoopsStand
  <2>7. Reports' /\ AtRest'
    BY <2>3, <2>4, <2>5 DEF Reports, AtRest, Looping
  <2>8. Controllers' /\ OneSocket'
    BY <1>1, <2>4 DEF Calm, Controllers, OneSocket, NoStraySocket
  <2> QED BY <2>5, <2>6, <2>7, <2>8 DEF Calm
<1> QED BY <1>3, <1>4, <1>5 DEF ConnType

(* The attempt of the one loop failed: it sleeps again, or has given up.    *)
LEMMA FailedCalm ==
    ASSUME IInv, Calm, NEW l \in Loops, loop[l].pc \in {"delay", "connect"},
           AttemptFailed(l), sk' \in [Sockets -> {"none", "connecting", "open", "closed"}],
           sk'[conn.socket] = "closed",
           \A s \in Sockets : sk'[s] = "open" => sk[s] = "open",
           UNCHANGED <<listening, watch, aborted, linked, rs, losses>>
    PROVE  Calm'
<1> USE Spread
<1>0. conn.wsRuntime /\ loop[l].gen = conn.abort /\ conn.state = "reconnecting"
  BY DEF Calm, LoopsStand
<1>1. CASE loop[l].attempt < MaxRetries
  <2>1. PICK x : x = [loop[l] EXCEPT !.pc = "delay", !.attempt = loop[l].attempt + 1,
                                     !.sock = NoSocket]
    OBVIOUS
  <2>2. /\ loop' = [loop EXCEPT ![l] = x]
        /\ conn' = [conn EXCEPT !.retry = loop[l].attempt + 1]
    BY <1>1, <2>1 DEF AttemptFailed
  <2>3. x.pc = "delay" /\ x.gen = conn.abort
    BY <1>0, <2>1 DEF LoopType
  <2>4. /\ conn'.socket = conn.socket /\ conn'.wsRuntime = conn.wsRuntime
        /\ conn'._abort = conn._abort
        /\ conn'.abort = conn.abort /\ conn'.state = "reconnecting"
        /\ conn'.retry = loop[l].attempt + 1
    BY <1>0, <2>2 DEF ConnType
  <2>5. conn'.retry > 0
    <3>1. loop[l].attempt \in Nat
      BY DEF LoopType
    <3> QED BY <2>4, <3>1
  <2>6. /\ OneWorker' /\ RestartsStand'
        /\ loop'[l] = x /\ \A k \in Loops : k # l => loop'[k].pc = "off"
    BY <2>2, LoopWorks
  <2>7. LoopsStand'
    BY <1>0, <2>3, <2>4, <2>6 DEF LoopsStand
  <2>8. Reports' /\ AtRest'
    BY <2>3, <2>4, <2>5, <2>6 DEF Reports, AtRest, Looping
  <2>9. Controllers' /\ OneSocket'
    BY <2>4 DEF Calm, Controllers, OneSocket, NoStraySocket
  <2> QED BY <2>6, <2>7, <2>8, <2>9 DEF Calm
<1>2. CASE ~(loop[l].attempt < MaxRetries)
  <2>1. loop' = [loop EXCEPT ![l] = IdleLoop] /\ conn' = Down(conn)
    BY <1>2 DEF AttemptFailed
  <2>2. \A k \in Loops : loop'[k].pc = "off"
    BY <2>1, LoopWorks, ZenonT(30) DEF IdleLoop
  <2>3. OneWorker' /\ RestartsStand' /\ LoopsStand'
    BY <2>1, <2>2, LoopWorks DEF LoopsStand
  <2>4. /\ conn'.socket = conn.socket /\ conn'.wsRuntime = conn.wsRuntime
        /\ conn'._abort = conn._abort
        /\ conn'.abort = conn.abort /\ conn'.retry = 0 /\ conn'.state = "disconnected"
    BY <2>1 DEF ConnType, Down
  <2>5. Controllers' /\ Reports' /\ AtRest' /\ OneSocket'
    BY <2>4 DEF Calm, Controllers, Reports, AtRest, OneSocket, NoStraySocket
  <2> QED BY <2>3, <2>5 DEF Calm
<1> QED BY <1>1, <1>2

LEMMA ConnectsCalm ==
    ASSUME IInv, Calm, NEW l \in Loops, NEW s \in Sockets, LoopConnects(l, s)
    PROVE  Calm'
<1> USE Spread
<1>1. /\ UNCHANGED <<listening, watch, aborted, linked, rs, losses>>
      /\ loop[l].pc = "delay" /\ sk[s] = "none"
  BY DEF LoopConnects
<1>2. /\ conn.wsRuntime /\ loop[l].gen = conn.abort /\ conn.state = "reconnecting"
      /\ sk[conn.socket] = "closed"
  BY <1>1 DEF Calm, LoopsStand
<1>3. PICK x : x = [loop[l] EXCEPT !.pc = "connect", !.sock = s]
  OBVIOUS
<1>4. /\ sk' = [sk EXCEPT ![s] = "connecting"]
      /\ loop' = [loop EXCEPT ![l] = x]
      /\ conn' = conn
  BY <1>2, <1>3 DEF LoopConnects
<1>5. x.pc = "connect" /\ x.gen = conn.abort /\ x.sock = s
  BY <1>2, <1>3 DEF LoopType
<1>6. /\ OneWorker' /\ RestartsStand'
      /\ loop'[l] = x /\ \A k \in Loops : k # l => loop'[k].pc = "off"
  BY <1>1, <1>4, LoopWorks
<1>7. sk'[conn.socket] = "closed" /\ sk'[s] = "connecting"
  BY <1>1, <1>2, <1>4 DEF ConnType
<1>8. LoopsStand'
  BY <1>2, <1>4, <1>5, <1>6, <1>7 DEF LoopsStand
<1>9. Reports' /\ AtRest'
  BY <1>4, <1>5, <1>6 DEF Calm, Reports, AtRest, Looping
<1>10. Controllers' /\ OneSocket'
  BY <1>1, <1>4, <1>7 DEF Calm, Controllers, OneSocket, NoStraySocket
<1> QED BY <1>6, <1>8, <1>9, <1>10 DEF Calm

LEMMA FailsCalm ==
    ASSUME IInv, Calm, NEW l \in Loops, LoopFails(l)
    PROVE  Calm'
<1> USE Spread
<1>1. /\ UNCHANGED <<listening, watch, aborted, linked, rs, losses>>
      /\ loop[l].pc = "connect" /\ AttemptFailed(l) /\ CloseAll({loop[l].sock})
  BY DEF LoopFails
<1>2. sk' \in [Sockets -> {"none", "connecting", "open", "closed"}]
  BY <1>1, CloseTyped
<1>3. sk[conn.socket] = "closed"
  BY <1>1 DEF Calm, LoopsStand
<1>4. sk'[conn.socket] = "closed" /\ \A s \in Sockets : sk'[s] = "open" => sk[s] = "open"
  BY <1>1, <1>3 DEF CloseAll, ConnType
<1> QED BY <1>1, <1>2, <1>4, FailedCalm

LEMMA SucceedsCalm ==
    ASSUME IInv, Calm, NEW l \in Loops, LoopSucceeds(l)
    PROVE  Calm'
<1> USE Spread
<1>1. PICK s : s = loop[l].sock
  OBVIOUS
<1>2. /\ UNCHANGED <<aborted, linked, rs, losses>>
      /\ loop[l].pc = "connect"
      /\ sk' = [sk EXCEPT ![s] = "open"]
      /\ conn' = [conn EXCEPT !.socket = s, !.wsSocket = s, !.handler = s,
                              !.state = "idle", !.retry = 0]
      /\ loop' = [loop EXCEPT ![l] = IdleLoop]
  BY <1>1 DEF LoopSucceeds
<1>3. s \in Sockets
  BY <1>1, <1>2 DEF LoopHasSocket
<1>4. conn.wsRuntime /\ sk[conn.socket] = "closed"
  BY <1>2 DEF Calm, LoopsStand
<1>5. \A k \in Loops : loop'[k].pc = "off"
  BY <1>2, LoopWorks DEF IdleLoop
<1>6. OneWorker' /\ RestartsStand' /\ LoopsStand'
  BY <1>2, <1>5, LoopWorks DEF LoopsStand
<1>7. /\ conn'.socket = s /\ conn'.wsRuntime = conn.wsRuntime
      /\ conn'.abort = conn.abort /\ conn'.retry = 0 /\ conn'.state = "idle"
  BY <1>2 DEF ConnType
<1>8. Controllers' /\ Reports'
  BY <1>2, <1>7 DEF Calm, Controllers, Reports
<1>9. sk'[s] = "open" /\ \A t \in Sockets : sk'[t] = "open" => t = s
  BY <1>2, <1>3, <1>4 DEF Calm, OneSocket, NoStraySocket
<1>10. AtRest' /\ OneSocket'
  BY <1>4, <1>7, <1>9 DEF AtRest, OneSocket, NoStraySocket
<1> QED BY <1>6, <1>8, <1>10 DEF Calm

LEMMA BreaksCalm ==
    ASSUME IInv, Calm, NEW l \in Loops, LoopBreaks(l)
    PROVE  Calm'
<1> USE Spread
<1>1. /\ UNCHANGED <<sk, listening, watch, aborted, linked, rs, losses>>
      /\ loop[l].pc = "closing"
      /\ loop' = [loop EXCEPT ![l] = IdleLoop] /\ conn' = Down(conn)
  BY DEF LoopBreaks
<1>2. ~conn.wsRuntime
  BY <1>1 DEF Calm, LoopsStand
<1>3. \A k \in Loops : loop'[k].pc = "off"
  BY <1>1, LoopWorks DEF IdleLoop
<1>4. OneWorker' /\ RestartsStand' /\ LoopsStand'
  BY <1>1, <1>3, LoopWorks DEF LoopsStand
<1>5. /\ conn'.socket = conn.socket /\ conn'.wsRuntime = conn.wsRuntime
      /\ conn'._abort = conn._abort
      /\ conn'.abort = conn.abort /\ conn'.retry = 0 /\ conn'.state = "disconnected"
  BY <1>1 DEF ConnType, Down
<1>6. Controllers' /\ Reports' /\ AtRest' /\ OneSocket'
  BY <1>1, <1>2, <1>5 DEF Calm, Controllers, Reports, AtRest, OneSocket, NoStraySocket
<1> QED BY <1>4, <1>6 DEF Calm

LEMMA LoseCalm ==
    ASSUME ConnectionAssumption, Races = {}, IInv, Calm, NEW s \in Sockets, Lose(s)
    PROVE  Calm'
<1> USE Spread
<1>1. /\ sk[s] = "open" /\ ~(watch[s] > 1) /\ ~Restarting
      /\ sk' = [sk EXCEPT ![s] = "closed"]
      /\ UNCHANGED <<listening, watch, conn, aborted, linked, rs>>
  BY DEF Lose
<1>2. conn.wsRuntime /\ s = conn.socket
  BY <1>1 DEF Calm, OneSocket, NoStraySocket
<1>3. watch[s] = 1
  BY <1>1, <1>2 DEF Heard
<1>4. /\ \A l \in Loops : loop[l].pc = "off"
      /\ \A r \in Restarters : rs[r].pc = "off"
  BY <1>1, <1>2 DEF Calm, LoopsStand, Restarting
<1>5. PICK L \in SUBSET {l \in Loops : loop[l].pc = "off"} :
        /\ Cardinality(L) = watch[s]
        /\ loop' = [l \in Loops |-> IF l \in L THEN [IdleLoop EXCEPT !.pc = "flush"]
                                    ELSE loop[l]]
  BY <1>2 DEF Lose
<1>6. PICK l \in Loops : L = {l}
  <2>1. IsFiniteSet(L)
    BY FS_Subset DEF ConnectionAssumption
  <2>2. \E x : L = {x}
    BY <1>3, <1>5, <2>1, FS_Singleton
  <2> QED BY <2>2
<1>7. loop'[l].pc = "flush" /\ \A k \in Loops : k # l => loop'[k].pc = "off"
  BY <1>4, <1>5, <1>6 DEF IdleLoop
<1>8. sk'[conn.socket] = "closed" /\ \A t \in Sockets : sk'[t] = "open" => sk[t] = "open"
  BY <1>1, <1>2
<1>9. OneWorker' /\ LoopsStand' /\ RestartsStand'
  BY <1>1, <1>4, <1>7, <1>8 DEF OneWorker, LoopsStand, RestartsStand
<1>10. conn.state # "reconnecting"
  BY <1>4 DEF Calm, Reports
<1>11. Controllers' /\ Reports' /\ AtRest' /\ OneSocket'
  BY <1>1, <1>7, <1>8, <1>10
     DEF Calm, Controllers, Reports, AtRest, OneSocket, NoStraySocket, Looping
<1> QED BY <1>9, <1>11 DEF Calm

(* A restart begins alone, so that its abort finds nobody.                  *)
LEMMA RestartBeginsCalm ==
    ASSUME Races = {}, IInv, Calm, NEW r \in Restarters, RestartBegins(r)
    PROVE  Calm'
<1> USE Spread
<1>1. PICK g, x : g = conn.abort /\ x = [IdleRestart EXCEPT !.pc = "rest"]
  OBVIOUS
<1>2. /\ conn.wsRuntime /\ ~Looping /\ ~Restarting
      /\ aborted' = aborted \cup {g}
      /\ conn' = [(IF g \in linked \/ Asleep(g) # {} THEN Down(conn) ELSE conn)
                       EXCEPT !.abort = g + 1]
      /\ CloseAll(AbortedSockets(g))
      /\ loop' = AbortedLoops(g)
      /\ rs' = [AbortedRestarts(g) EXCEPT ![r] = x]
      /\ UNCHANGED <<listening, watch, linked, losses>>
  BY <1>1 DEF RestartBegins
<1>3. g \in Nat /\ x.pc = "rest"
  BY <1>1 DEF ConnType, IdleRestart
<1>4. /\ \A l \in Loops : loop[l].pc = "off"
      /\ \A q \in Restarters : rs[q].pc = "off"
  BY <1>2 DEF Looping, Restarting
<1>5. Asleep(g) = {} /\ Doomed(g) = {} /\ DoomedRestarts(g) = {}
  BY <1>4 DEF Asleep, Doomed, DoomedRestarts
<1>6. sk' = sk /\ loop' = loop /\ rs' = [rs EXCEPT ![r] = x]
  <2>1. AbortedSockets(g) = {}
    BY <1>5 DEF AbortedSockets
  <2>2. \A t \in Sockets : sk'[t] = sk[t]
    BY <1>2, <2>1 DEF CloseAll
  <2>3. sk' = sk
    BY <1>2, <2>2 DEF CloseAll
  <2>4. AbortedLoops(g) = loop
    BY <1>5 DEF AbortedLoops
  <2>5. AbortedRestarts(g) = rs
    BY <1>5 DEF AbortedRestarts
  <2> QED BY <1>2, <2>3, <2>4, <2>5
<1>7. conn.state # "reconnecting" /\ conn.retry = 0
  BY <1>4 DEF Calm, Reports, ConnType
<1>8. /\ conn'.socket = conn.socket /\ conn'.wsRuntime /\ conn'.abort = g + 1
      /\ conn'._abort = conn._abort
      /\ g \in linked => conn'.state = "disconnected"
      /\ conn'.state # "reconnecting" /\ conn'.retry = 0
  <2>1. CASE g \in linked
    <3>1. PICK d : d = Down(conn)
      OBVIOUS
    <3>2. d \in ConnType /\ SameSockets(d, conn) /\ d.state = "disconnected" /\ d.retry = 0
      BY <3>1, StateTyped, StateSame DEF Down, ConnType
    <3>3. d._abort = conn._abort
      BY <3>1 DEF Down, ConnType
    <3>4. conn' = [d EXCEPT !.abort = g + 1]
      BY <1>2, <2>1, <3>1
    <3> QED BY <1>2, <3>2, <3>3, <3>4 DEF ConnType, SameSockets
  <2>2. CASE g \notin linked
    <3>1. conn' = [conn EXCEPT !.abort = g + 1]
      BY <1>2, <1>5, <2>2
    <3> QED BY <1>2, <1>7, <2>2, <3>1 DEF ConnType
  <2> QED BY <2>1, <2>2
<1>9. rs'[r] = x /\ \A q \in Restarters : q # r => rs'[q].pc = "off"
  BY <1>4, <1>6
<1>10. conn'.abort \notin linked'
  BY <1>1, <1>2, <1>3, <1>8 DEF Calm, Controllers
<1>11. OneWorker' /\ LoopsStand' /\ RestartsStand'
  <2>1. conn'.abort > 0 /\ conn'.abort - 1 = g
    BY <1>3, <1>8
  <2>2. SaysDown'
    BY <1>2, <1>8, <2>1 DEF SaysDown
  <2>3. RestartsStand'
    BY <1>3, <1>8, <1>9, <1>10, <2>1, <2>2 DEF RestartsStand
  <2> QED BY <1>3, <1>4, <1>6, <1>8, <1>9, <2>3 DEF OneWorker, LoopsStand
<1>12. Controllers'
  <2>1. \A h \in aborted' : h < g + 1
    <3>1. \A h \in aborted : h \in Nat /\ h < g
      BY <1>1, <1>2 DEF Calm, Controllers
    <3> QED BY <1>2, <1>3, <3>1
  <2>2. \A h \in linked' : h <= g + 1
    <3>1. \A h \in linked : h \in Nat /\ h <= g
      BY <1>1 DEF Calm, Controllers
    <3> QED BY <1>2, <1>3, <3>1
  <2>3. conn'._abort \in linked'
    BY <1>2, <1>8 DEF Calm, Controllers
  <2> QED BY <1>8, <2>1, <2>2, <2>3 DEF Controllers
<1>13. Reports' /\ AtRest' /\ OneSocket'
  BY <1>2, <1>3, <1>6, <1>8, <1>9
     DEF Calm, Reports, AtRest, OneSocket, NoStraySocket, Restarting
<1> QED BY <1>11, <1>12, <1>13 DEF Calm

(* The one restart that works takes a step.                                 *)
LEMMA RestartWorks ==
    ASSUME IInv, Calm, NEW r \in Restarters, rs[r].pc # "off", NEW x,
           rs' = [rs EXCEPT ![r] = x], UNCHANGED loop
    PROVE  /\ rs'[r] = x
           /\ \A q \in Restarters : q # r => rs'[q].pc = "off"
           /\ \A l \in Loops : loop'[l].pc = "off"
           /\ OneWorker' /\ LoopsStand'
           /\ conn.wsRuntime /\ conn.state # "reconnecting" /\ conn.retry = 0
           /\ conn.abort > 0 /\ SaysDown
<1> USE Spread
<1>1. \A q \in Restarters : q # r => rs[q].pc = "off" /\ rs'[q] = rs[q]
  BY DEF Calm, OneWorker
<1>2. \A l \in Loops : loop'[l].pc = "off"
  BY DEF Calm, OneWorker
<1>3. rs'[r] = x
  OBVIOUS
<1>4. OneWorker' /\ LoopsStand'
  BY <1>1, <1>2 DEF OneWorker, LoopsStand
<1>5. conn.wsRuntime /\ conn.state # "reconnecting" /\ conn.abort > 0 /\ SaysDown
  BY DEF Calm, RestartsStand
<1>6. conn.retry = 0
  BY <1>5 DEF Calm, Reports, ConnType
<1> QED BY <1>1, <1>2, <1>3, <1>4, <1>5, <1>6

(* A restart ends and leaves its socket closed, or its report honest.       *)
LEMMA RestartEndsCalm ==
    ASSUME Races = {}, IInv, Calm, NEW r \in Restarters,
           \/ RestartRefused(r) \/ RestartThrows(r) \/ RestartOpenFails(r)
           \/ RestartDone(r) \/ RestartUnanswered(r)
    PROVE  Calm'
<1> USE Spread
<1>1. /\ UNCHANGED <<listening, watch, aborted, linked, loop, losses>>
      /\ rs[r].pc # "off" /\ rs' = [rs EXCEPT ![r] = IdleRestart]
  BY DEF RestartRefused, RestartThrows, RestartOpenFails, RestartDone, RestartUnanswered
<1>2. /\ OneWorker' /\ LoopsStand'
      /\ conn.wsRuntime /\ conn.state # "reconnecting" /\ conn.retry = 0
      /\ conn.abort > 0 /\ SaysDown
  BY <1>1, RestartWorks
<1>3. \A q \in Restarters : rs'[q].pc = "off"
  BY <1>1, RestartWorks DEF IdleRestart
<1>4. RestartsStand'
  BY <1>3 DEF RestartsStand
<1>5. CASE RestartRefused(r) \/ RestartDone(r)
  <2>1. conn' = [conn EXCEPT !.state = "idle"] /\ sk' = sk
    BY <1>5 DEF RestartRefused, RestartDone
  <2>2. sk[conn.socket] = "open" \/ conn.abort \notin linked
    BY <1>5 DEF RestartRefused, RestartDone, Calm, RestartsStand
  <2>3. /\ conn'.socket = conn.socket /\ conn'.wsRuntime /\ conn'.abort = conn.abort
        /\ conn'._abort = conn._abort
        /\ conn'.state = "idle" /\ conn'.retry = 0
    BY <1>2, <2>1 DEF ConnType
  <2>4. Controllers' /\ Reports' /\ AtRest' /\ OneSocket'
    BY <1>1, <1>2, <2>1, <2>2, <2>3
       DEF Calm, Controllers, Reports, AtRest, OneSocket, NoStraySocket, Linked, BothLinked
  <2> QED BY <1>2, <1>4, <2>4 DEF Calm
<1>6. CASE RestartThrows(r)
  <2>1. conn' = conn /\ sk' = sk /\ conn.abort \notin linked
    BY <1>6 DEF RestartThrows, Calm, RestartsStand
  <2>2. Controllers' /\ Reports' /\ AtRest' /\ OneSocket'
    BY <1>1, <1>2, <2>1
       DEF Calm, Controllers, Reports, AtRest, OneSocket, NoStraySocket, Linked, BothLinked
  <2> QED BY <1>2, <1>4, <2>2 DEF Calm
<1>7. CASE RestartOpenFails(r) \/ RestartUnanswered(r)
  <2>1. conn' = conn /\ CloseAll({rs[r].sock})
    BY <1>7 DEF RestartOpenFails, RestartUnanswered
  <2>2. sk[conn.socket] = "closed" \/ rs[r].sock = conn.socket
    BY <1>7 DEF RestartOpenFails, RestartUnanswered, Calm, RestartsStand
  <2>3. /\ sk'[conn.socket] = "closed"
        /\ \A t \in Sockets : sk'[t] = "open" => sk[t] = "open"
    BY <2>1, <2>2 DEF CloseAll, ConnType
  <2>4. BothLinked => conn.state = "disconnected" \/ conn.abort \notin linked
    BY <1>2 DEF BothLinked, SaysDown
  <2>5. AtRest'
    BY <1>1, <2>1, <2>3, <2>4 DEF AtRest, BothLinked, Linked
  <2>6. Controllers' /\ Reports' /\ OneSocket'
    BY <1>1, <1>2, <2>1, <2>3 DEF Calm, Controllers, Reports, OneSocket, NoStraySocket
  <2> QED BY <1>2, <1>4, <2>5, <2>6 DEF Calm
<1> QED BY <1>5, <1>6, <1>7

LEMMA AcceptedCalm ==
    ASSUME IInv, Calm, NEW r \in Restarters, NEW s \in Sockets, RestartAccepted(r, s)
    PROVE  Calm'
<1> USE Spread
<1>1. /\ UNCHANGED <<listening, watch, conn, aborted, linked, loop, losses>>
      /\ rs[r].pc = "rest" /\ sk[s] = "none"
  BY DEF RestartAccepted
<1>2. conn.wsRuntime /\ conn.abort \notin linked /\ sk[conn.socket] \in {"open", "closed"}
  BY <1>1 DEF Calm, RestartsStand, OneSocket
<1>3. conn.abort \notin aborted
  BY <1>2 DEF Calm, Controllers, ConnType
<1>4. PICK x : x = [pc |-> "open", sock |-> s, gen |-> conn.abort]
  OBVIOUS
<1>5. /\ sk' = [sk EXCEPT ![conn.socket] = "closed", ![s] = "connecting"]
      /\ rs' = [rs EXCEPT ![r] = x]
  BY <1>3, <1>4 DEF RestartAccepted
<1>6. /\ rs'[r] = x /\ \A q \in Restarters : q # r => rs'[q].pc = "off"
      /\ OneWorker' /\ LoopsStand'
      /\ conn.state # "reconnecting" /\ conn.abort > 0 /\ SaysDown
  BY <1>1, <1>5, RestartWorks
<1>7. /\ sk'[conn.socket] = "closed" /\ sk'[s] = "connecting"
      /\ \A t \in Sockets : sk'[t] = "open" => sk[t] = "open"
  BY <1>1, <1>2, <1>5 DEF ConnType
<1>8. RestartsStand'
  BY <1>1, <1>2, <1>4, <1>6, <1>7 DEF RestartsStand, SaysDown
<1>9. Controllers' /\ Reports' /\ AtRest' /\ OneSocket'
  BY <1>1, <1>4, <1>6, <1>7
     DEF Calm, Controllers, Reports, AtRest, OneSocket, NoStraySocket, Restarting
<1> QED BY <1>6, <1>8, <1>9 DEF Calm

LEMMA OpenedCalm ==
    ASSUME IInv, Calm, NEW r \in Restarters, RestartOpened(r)
    PROVE  Calm'
<1> USE Spread
<1>1. PICK s, x : s = rs[r].sock /\ x = [rs[r] EXCEPT !.pc = "info"]
  OBVIOUS
<1>2. /\ rs[r].pc = "open" /\ sk' = [sk EXCEPT ![s] = "open"]
      /\ UNCHANGED <<aborted, loop, losses>>
  BY <1>1 DEF RestartOpened
<1>3. conn.wsRuntime /\ sk[conn.socket] = "closed" /\ rs[r].gen = conn.abort
  BY <1>2 DEF Calm, RestartsStand
<1>4. /\ conn' = [conn EXCEPT !.socket = s, !.wsSocket = s, !.handler = s,
                              !._abort = conn.abort]
      /\ linked' = linked \cup {conn.abort}
      /\ rs' = [rs EXCEPT ![r] = x]
  BY <1>1, <1>3 DEF RestartOpened
<1>5. s \in Sockets
  BY <1>1, <1>2 DEF RestartHasSocket
<1>6. x.pc = "info" /\ x.sock = s /\ x.gen = conn.abort
  BY <1>1, <1>3 DEF RestartType
<1>7. /\ rs'[r] = x /\ \A q \in Restarters : q # r => rs'[q].pc = "off"
      /\ OneWorker' /\ LoopsStand' /\ conn.retry = 0
      /\ conn.state # "reconnecting" /\ conn.abort > 0 /\ SaysDown
  BY <1>2, <1>4, RestartWorks
<1>8. /\ conn'.socket = s /\ conn'.wsRuntime /\ conn'.abort = conn.abort
      /\ conn'._abort = conn.abort /\ conn'.state = conn.state /\ conn'.retry = 0
  BY <1>3, <1>4, <1>7 DEF ConnType
<1>9. sk'[s] = "open" /\ \A t \in Sockets : sk'[t] = "open" => t = s
  BY <1>2, <1>3, <1>5 DEF Calm, OneSocket, NoStraySocket
<1>10. RestartsStand'
  <2>1. conn.abort - 1 # conn.abort
    BY DEF ConnType
  <2>2. SaysDown'
    BY <1>4, <1>7, <1>8, <2>1 DEF SaysDown
  <2> QED BY <1>6, <1>7, <1>8, <1>9, <2>2 DEF RestartsStand
<1>11. Controllers'
  <2>1. conn.abort \in Nat
    BY DEF ConnType
  <2> QED BY <1>2, <1>3, <1>4, <1>8, <2>1 DEF Calm, Controllers
<1>12. Reports' /\ AtRest' /\ OneSocket'
  BY <1>6, <1>7, <1>8, <1>9 DEF Reports, AtRest, OneSocket, NoStraySocket, Restarting
<1> QED BY <1>7, <1>10, <1>11, <1>12 DEF Calm

(* The abort reaches the loop that works, if one does.                      *)
LEMMA ShutdownCalm ==
    ASSUME Races = {}, IInv, Calm, Shutdown
    PROVE  Calm'
<1> USE Spread
<1>1. PICK g : g = conn._abort
  OBVIOUS
<1>2. PICK h : h = IF listening' = listening THEN conn.handler ELSE NoSocket
  OBVIOUS
<1>3. /\ conn.wsRuntime /\ (Looping \/ Restarting => g = conn.abort)
      /\ UNCHANGED <<watch, linked, losses>>
      /\ CloseAll(AbortedSockets(g) \cup {conn.wsSocket})
      /\ loop' = AbortedLoops(g) /\ rs' = AbortedRestarts(g)
  BY <1>1 DEF Shutdown
<1>4. conn.wsSocket = conn.socket
  BY <1>3 DEF Heard
<1>5. /\ sk'[conn.socket] = "closed"
      /\ \A t \in Sockets : sk'[t] = "open" => sk[t] = "open"
  BY <1>3, <1>4 DEF CloseAll, ConnType
<1>6. \A t \in Sockets : sk'[t] # "open"
  BY <1>5 DEF Calm, OneSocket, NoStraySocket
<1>7. \A r \in Restarters : rs'[r].pc = "off"
  <2>1. g \in linked
    BY <1>1 DEF Calm, Controllers
  <2>2. ASSUME NEW r \in Restarters, rs[r].pc # "off" PROVE r \in DoomedRestarts(g)
    <3>1. g = conn.abort
      BY <1>3, <2>2 DEF Restarting
    <3>2. rs[r].pc = "info" /\ rs[r].gen = g
      BY <2>1, <2>2, <3>1 DEF Calm, RestartsStand, RestartType
    <3> QED BY <3>2 DEF DoomedRestarts
  <2> QED BY <1>3, <2>2 DEF AbortedRestarts, IdleRestart
<1>8. \A l \in Loops : loop'[l].pc \in {"off", "flush", "closing"}
                       /\ (loop[l].pc = "off" => loop'[l].pc = "off")
                       /\ (loop[l].pc = "connect" => loop'[l].pc = "closing")
  <2> SUFFICES ASSUME NEW l \in Loops
               PROVE  loop'[l].pc \in {"off", "flush", "closing"}
                       /\ (loop[l].pc = "off" => loop'[l].pc = "off")
                       /\ (loop[l].pc = "connect" => loop'[l].pc = "closing")
    OBVIOUS
  <2>1. loop[l] \in LoopType /\ loop[l].pc # "closing"
    BY <1>3 DEF Calm, LoopsStand
  <2>2. loop[l].pc \in {"delay", "connect"} => loop[l].gen = g
    BY <1>3 DEF Calm, LoopsStand, Looping
  <2>3. [loop[l] EXCEPT !.pc = "closing"].pc = "closing"
    BY <2>1 DEF LoopType
  <2>4. loop'[l] = IF l \in Doomed(g) THEN [loop[l] EXCEPT !.pc = "closing"]
                   ELSE IF l \in Asleep(g) THEN IdleLoop ELSE loop[l]
    BY <1>3 DEF AbortedLoops
  <2> QED BY <2>1, <2>2, <2>3, <2>4 DEF Doomed, Asleep, IdleLoop, LoopType
<1>9. PICK c \in {conn, Down(conn)} :
        /\ conn' = [c EXCEPT !.wsRuntime = FALSE, !.wsSocket = NoSocket, !.handler = h]
        /\ Asleep(g) # {} => c = Down(conn)
        /\ Asleep(g) = {} => c = conn
  <2>1. PICK c : c = IF Asleep(g) # {} THEN Down(conn) ELSE conn
    OBVIOUS
  <2>2. conn' = [c EXCEPT !.wsRuntime = FALSE, !.wsSocket = NoSocket, !.handler = h]
    <3>1. c.handler = conn.handler
      BY <2>1, StateSame DEF SameSockets
    <3> QED BY <1>1, <1>2, <2>1, <3>1, StateTyped DEF Shutdown, ConnType
  <2> QED BY <2>1, <2>2
<1>10. c \in ConnType /\ SameSockets(c, conn) /\ c.abort = conn.abort /\ c._abort = conn._abort
  BY <1>9, StateTyped, StateSame, ZenonT(30) DEF SameSockets, Down, ConnType
<1>11. /\ conn'.socket = conn.socket /\ ~conn'.wsRuntime /\ conn'.abort = conn.abort
       /\ conn'._abort = conn._abort
       /\ conn'.state = c.state /\ conn'.retry = c.retry
  BY <1>9, <1>10 DEF ConnType, SameSockets
<1>12. OneWorker' /\ LoopsStand' /\ RestartsStand'
  BY <1>5, <1>7, <1>8, <1>11 DEF Calm, OneWorker, LoopsStand, RestartsStand
<1>13. Controllers' /\ AtRest' /\ OneSocket'
  BY <1>3, <1>5, <1>6, <1>11 DEF Calm, Controllers, AtRest, OneSocket, NoStraySocket
<1>14. Reports'
  <2>1. CASE Asleep(g) # {}
    <3>1. c.state = "disconnected" /\ c.retry = 0
      BY <1>9, <2>1 DEF Down, ConnType
    <3> QED BY <1>11, <3>1 DEF Reports
  <2>2. CASE Asleep(g) = {}
    <3>1. conn'.state = conn.state /\ conn'.retry = conn.retry
      BY <1>9, <1>11, <2>2
    <3>2. ASSUME conn.state = "reconnecting"
          PROVE  \E l \in Loops : loop'[l].pc \in {"delay", "connect", "closing"}
      <4>1. PICK l \in Loops : loop[l].pc \in {"delay", "connect", "closing"}
        BY <3>2 DEF Calm, Reports
      <4>2. loop[l].pc = "connect"
        <5>1. g = conn.abort
          BY <1>3, <4>1 DEF Looping
        <5> QED BY <1>3, <2>2, <4>1, <5>1 DEF Calm, LoopsStand, Asleep
      <4> QED BY <1>8, <4>2
    <3> QED BY <3>1, <3>2 DEF Calm, Reports
  <2> QED BY <2>1, <2>2
<1> QED BY <1>12, <1>13, <1>14 DEF Calm

LEMMA StepCalm ==
    ASSUME ConnectionAssumption, Races = {}
    PROVE  IInv /\ Calm /\ [Next]_vars => Calm'
<1> SUFFICES ASSUME IInv, Calm, [Next]_vars PROVE Calm'
  OBVIOUS
<1>1. ASSUME NEW s \in Sockets, Lose(s) PROVE Calm'
  BY <1>1, LoseCalm
<1>2. ASSUME NEW l \in Loops, LoopStep(l) PROVE Calm'
  BY <1>2, BeginsCalm, ConnectsCalm, FailsCalm, SucceedsCalm, BreaksCalm DEF LoopStep
<1>3. ASSUME NEW r \in Restarters, RestartBegins(r) PROVE Calm'
  BY <1>3, RestartBeginsCalm
<1>4. ASSUME NEW r \in Restarters, RestartStep(r) PROVE Calm'
  BY <1>4, RestartEndsCalm, OpenedCalm, AcceptedCalm DEF RestartStep
<1>5. CASE Shutdown
  BY <1>5, ShutdownCalm
<1>6. CASE UNCHANGED vars
  BY <1>6 DEF vars, Calm, OneWorker, LoopsStand, RestartsStand, Controllers, Reports,
              AtRest, OneSocket, NoStraySocket, Looping, Restarting, SaysDown, Linked, BothLinked
<1> QED BY <1>1, <1>2, <1>3, <1>4, <1>5, <1>6 DEF Next

-----------------------------------------------------------------------------
(* The state of a connection keeps its type, through losses, reconnections, *)
(* restarts and shutdown in any order and any number (ws-reconnect.ts,      *)
(* restart.ts, server-client.ts).                                           *)
THEOREM TypeCorrect == Spec => []TypeOK
<1>1. IInv => TypeOK
  BY DEF IInv
<1> QED BY <1>1, SpecInv, PTL

(* Whatever replaced the socket last, and whatever it raced with, the       *)
(* runtime, the client and the listeners agree on the socket: the kernel is *)
(* heard on it and its loss starts a reconnection (ws-reconnect.ts:105-120, *)
(* server-client.ts:418-433).                                               *)
THEOREM AlwaysHeard == Spec => []CurrentIsHeard
<1>1. IInv => CurrentIsHeard
  BY DEF IInv, Heard, CurrentIsHeard
<1> QED BY <1>1, SpecInv, PTL

(* When the environment plays none of the races, what is said of the        *)
(* connection is true, whatever is lost, refused, left unanswered or shut   *)
(* down, and however many restarts follow one another: at most the client's *)
(* own socket is open and a client that reports "reconnecting" is.  Once    *)
(* nobody works on the socket, an open one is reported "idle" when its      *)
(* controller was linked, that is, when the last restart opened a socket,   *)
(* and "idle" is said of an open one only, when the last two did            *)
(* (server-client.ts:392-402, 418-433; ws-reconnect.ts:67-140;              *)
(* restart.ts:68-204).                                                      *)
THEOREM StateIsTrue ==
    ASSUME Races = {}
    PROVE  Spec => []StateTruthful
<1>1. ConnectionAssumption /\ Init => Calm
  BY CalmInit
<1>2. IInv /\ Calm /\ [Next]_vars => Calm'
  BY StepCalm, ConnectionAssumption
<1>3. Calm => StateTruthful
  BY DEF Calm, OneSocket, Reports, AtRest, StateTruthful, Linked, BothLinked
<1> QED BY <1>1, <1>2, <1>3, ConnectionAssumption, SpecInv, PTL DEF Spec
=============================================================================

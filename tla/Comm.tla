-------------------------------- MODULE Comm --------------------------------
(***************************************************************************)
(* The comms of a kernel runtime: CommService, its registry, its dispatcher*)
(* with the 200 ms grace queue, and the handles (kernel/comm/), over       *)
(* sendComm and the WebSocket (kernel/server-client.ts,                    *)
(* kernel/message-dispatch.ts), across the restart of the kernel           *)
(* (dispatcher/exec/restart.ts, kernel/restart.ts) and its end             *)
(* (dispatcher/kernel.ts, dispatcher/notebook.ts).                         *)
(*                                                                         *)
(* A comm id is a fresh UUID: each is opened once, by the side that made   *)
(* it.  sendComm never waits: what follows its await is a microtask, kept  *)
(* in `tasks`, that no message or timer comes before.                      *)
(***************************************************************************)
EXTENDS WireProtocol, FiniteSets

CONSTANTS
    KernelIds, FrontIds,    \* ids that the kernel, and the frontend, open
    MaxSends,               \* bound: comm_msg
    MaxEvents               \* bound: restarts and lost sockets

ASSUME CommAssumption ==
    KernelIds \cap FrontIds = {} /\ MaxSends \in Nat /\ MaxEvents \in Nat

Ids == KernelIds \cup FrontIds

VARIABLES
    kernel,     \* ids open on the side of the kernel
    used,       \* ids that have been opened
    said,       \* auxiliary, id |-> how many comm_msg the kernel has sent of it
    sends,      \* comm_msg sent by either side
    v1,         \* the subprotocol of the WebSocket
    inbound,    \* messages to the frontend, in the order they were sent
    outbound,   \* messages to the kernel
    conn,       \* info.state and the socket: up, reconnecting, cut (disconnected,
                \* on an open socket), lost (disconnected, on one that closed and
                \* that no loop replaces), dead (closed for good by Europa)
    registry,
    handle,     \* id |-> its handle: state, messages given to its subscribers,
                \* number of closes they have seen, of whatever origin
    grace,      \* id |-> queued comm_msg: its domain has the timers
    tasks,      \* what is left of openComm and close
    target,     \* a target handler is registered
    restart,    \* restartKernel
    over,       \* closeAll has been called
    late,       \* auxiliary: comms opened after closeAll
    astray,     \* auxiliary: comms that the two sides may disagree about: accepted
                \* between the snapshot of a restart and its answer; closed before
                \* they were opened; whose comm_open or comm_close went down with
                \* a socket; left from a kernel that was restarted unnoticed
    gaps,       \* auxiliary: comms of which a comm_msg was lost
    events

kernelSide == <<kernel, used, said, sends>>
wires == <<v1, inbound, outbound, conn>>
comms == <<registry, handle, grace>>
aux == <<late, astray, gaps>>
flow == <<tasks, target, restart, over, events>>
vars == <<kernelSide, wires, comms, aux, flow>>

NoHandle == [state |-> "none", got |-> <<>>, closes |-> 0]
NoRestart == [pc |-> "off", before |-> {}, from |-> "up"]

Init ==
    /\ kernel = {} /\ used = {} /\ said = [id \in Ids |-> 0] /\ sends = 0
    /\ v1 \in BOOLEAN /\ inbound = <<>> /\ outbound = <<>> /\ conn = "up"
    /\ registry = {} /\ handle = [id \in Ids |-> NoHandle]
    /\ grace = <<>>
    /\ tasks = <<>> /\ target = FALSE /\ restart = NoRestart
    /\ over = FALSE /\ late = {} /\ astray = {} /\ gaps = {} /\ events = 0

Idle == tasks = <<>>
Event == events < MaxEvents /\ events' = events + 1

(* A comm message.  Its type and id stand in the header and the content.    *)
Msg(type, id, n, buffers) ==
    [type |-> type, id |-> id, wire |-> Message(<<type>>, <<id, n>>, buffers)]

(* What the listener decodes of it.                                         *)
Decoded(m) == IF v1 THEN decodeV1(encodeV1(m.wire, <<"iopub">>))
              ELSE decodeDefault(encodeDefault(m.wire))

(* The n-th comm_msg of the kernel on a comm.                               *)
Nth(id, n) == Msg("msg", id, n, <<<<n>>, <<>>>>)

-----------------------------------------------------------------------------
(* The kernel.                                                              *)

(* The socket is open and has its listener, whatever info.state is.         *)
Heard ==
    \/ conn = "up"
    \/ conn = "cut" /\ (restart.pc = "asked" => restart.from \in {"up", "cut"})

KernelUp == conn # "dead" /\ (restart.pc = "asked" => restart.from # "dead")

(* What is said while there is no socket is lost: the channel URL names no  *)
(* session that the server could keep it for.                               *)
KernelSays(m) ==
    IF Heard THEN inbound' = Append(inbound, m) /\ UNCHANGED <<astray, gaps>>
    ELSE /\ UNCHANGED inbound
         /\ astray' = IF m.type = "msg" THEN astray ELSE astray \cup {m.id}
         /\ gaps' = IF m.type = "msg" THEN gaps \cup {m.id} ELSE gaps

KernelOpens(id) ==
    /\ KernelUp /\ id \in KernelIds \ used
    /\ kernel' = kernel \cup {id} /\ used' = used \cup {id}
    /\ KernelSays(Msg("open", id, 0, <<>>))
    /\ UNCHANGED <<said, sends, v1, outbound, conn, comms, late, flow>>

KernelSends(id) ==
    /\ KernelUp /\ id \in kernel /\ sends < MaxSends
    /\ sends' = sends + 1 /\ said' = [said EXCEPT ![id] = @ + 1]
    /\ KernelSays(Nth(id, said[id] + 1))
    /\ UNCHANGED <<kernel, used, v1, outbound, conn, comms, late, flow>>

KernelCloses(id) ==
    /\ KernelUp /\ id \in kernel
    /\ kernel' = kernel \ {id}
    /\ KernelSays(Msg("close", id, 0, <<>>))
    /\ UNCHANGED <<used, said, sends, v1, outbound, conn, comms, late, flow>>

(* The kernel reads: it takes an open or declines it with a close.          *)
KernelReads ==
    /\ outbound # <<>> /\ KernelUp
    /\ outbound' = Tail(outbound)
    /\ LET m == Head(outbound)
       IN \/ m.type = "open" /\ kernel' = kernel \cup {m.id}
             /\ UNCHANGED <<inbound, astray, gaps>>
          \/ m.type = "open" /\ UNCHANGED kernel /\ KernelSays(Msg("close", m.id, 0, <<>>))
          \/ m.type = "close" /\ kernel' = kernel \ {m.id}
             /\ UNCHANGED <<inbound, astray, gaps>>
          \/ m.type = "msg" /\ UNCHANGED <<kernel, inbound, astray, gaps>>
    /\ UNCHANGED <<used, said, sends, v1, conn, comms, late, flow>>

-----------------------------------------------------------------------------
(* Handles and registry.                                                    *)

(* _fireOnClose.                                                            *)
FireOnClose(h) ==
    IF h.state = "closed" THEN h
    ELSE [h EXCEPT !.state = "closed", !.closes = @ + 1]

(* sendComm is refused unless info.state and the socket are open.           *)
Sendable(buffers) == conn = "up" /\ (v1 \/ buffers = <<>>)

(* openComm: insert, send, and roll back if it was refused.                 *)
OpenComm(id) ==
    /\ Idle /\ id \in FrontIds \ used
    /\ used' = used \cup {id}
    /\ registry' = registry \cup {id}
    /\ handle' = [handle EXCEPT ![id].state = "open"]
    /\ tasks' = <<[call |-> "open", id |-> id, ok |-> Sendable(<<>>)]>>
    /\ outbound' = IF Sendable(<<>>) THEN Append(outbound, Msg("open", id, 0, <<>>))
                   ELSE outbound
    /\ late' = IF over THEN late \cup {id} ELSE late
    /\ UNCHANGED <<kernel, said, sends, v1, inbound, conn, grace, target, restart, over,
                   astray, gaps, events>>

OpenReturns ==
    /\ ~Idle /\ Head(tasks).call = "open"
    /\ tasks' = Tail(tasks)
    /\ IF Head(tasks).ok THEN UNCHANGED <<registry, handle>>
       ELSE /\ registry' = registry \ {Head(tasks).id}
            /\ handle' = [handle EXCEPT ![Head(tasks).id] = NoHandle]
    /\ UNCHANGED <<kernelSide, wires, grace, target, restart, over, aux, events>>

(* A handle is used by its subscriber.  The kernel of this model does not   *)
(* read the buffers of a frame, so that they are left out of it.            *)
Send(id) ==
    /\ Idle /\ handle[id].state = "open" /\ id \in registry /\ sends < MaxSends
    /\ sends' = sends + 1
    /\ \E buffers \in {<<>>, <<<<id>>>>} :
          outbound' = IF Sendable(buffers) THEN Append(outbound, Msg("msg", id, 0, <<>>))
                      ELSE outbound
    /\ UNCHANGED <<kernel, used, said, v1, inbound, conn, comms, aux, flow>>

Close(id) ==
    /\ Idle /\ handle[id].state = "open" /\ id \in registry
    /\ handle' = [handle EXCEPT ![id].state = "closing"]
    /\ tasks' = <<[call |-> "close", id |-> id, ok |-> Sendable(<<>>)]>>
    /\ outbound' = IF Sendable(<<>>) THEN Append(outbound, Msg("close", id, 0, <<>>))
                   ELSE outbound
    /\ UNCHANGED <<kernelSide, v1, inbound, conn, registry, grace, target, restart, over,
                   aux, events>>

(* Without the compare-and-swap after the await.                            *)
BugNoCompareAndSwap ==
    LET t == Head(tasks)
    IN /\ ~Idle /\ t.call = "close"
       /\ tasks' = Tail(tasks)
       /\ IF t.ok
          THEN /\ handle' = [handle EXCEPT ![t.id].state = "closed",
                                           ![t.id].closes = @ + 1]
               /\ registry' = registry \ {t.id}
          ELSE /\ handle' = [handle EXCEPT ![t.id].state = "open"]
               /\ UNCHANGED registry
       /\ UNCHANGED <<kernelSide, wires, grace, target, restart, over, aux, events>>

(* close after its await: nothing is left to do if the handle was closed    *)
(* meanwhile; a refused close leaves it open.                               *)
CloseReturns ==
    LET t == Head(tasks)
    IN /\ ~Idle /\ t.call = "close"
       /\ tasks' = Tail(tasks)
       /\ IF handle[t.id].state # "closing" THEN UNCHANGED <<handle, registry>>
          ELSE \/ /\ ~t.ok /\ UNCHANGED registry
                  /\ handle' = [handle EXCEPT ![t.id].state = "open"]
               \/ /\ t.ok /\ registry' = registry \ {t.id}
                  /\ handle' = [handle EXCEPT ![t.id] = FireOnClose(@)]
       /\ UNCHANGED <<kernelSide, wires, grace, target, restart, over, aux, events>>

(* registerHandler, and what it returns.                                    *)
Register ==
    /\ Idle /\ target' = ~target
    /\ UNCHANGED <<kernelSide, wires, comms, aux, tasks, restart, over, events>>

-----------------------------------------------------------------------------
(* The dispatcher.                                                          *)

Without(f, id) == [i \in DOMAIN f \ {id} |-> f[i]]

(* The reply that closes a comm that is not wanted.                         *)
Refuse(id) ==
    /\ outbound' = IF Sendable(<<>>) THEN Append(outbound, Msg("close", id, 0, <<>>))
                   ELSE outbound
    /\ astray' = IF Sendable(<<>>) THEN astray ELSE astray \cup {id}
    /\ UNCHANGED <<comms, late>>

BugGraceReversed(id) ==
    /\ registry' = registry \cup {id}
    /\ handle' = [handle EXCEPT ![id] =
           [@ EXCEPT !.state = "open",
                     !.got = IF id \in DOMAIN grace THEN Reverse(grace[id]) ELSE <<>>]]
    /\ grace' = Without(grace, id)

(* flushGraceQueue: the messages that came before the open.                 *)
Accept(id) ==
    /\ registry' = registry \cup {id}
    /\ handle' = [handle EXCEPT ![id] =
           [@ EXCEPT !.state = "open",
                     !.got = IF id \in DOMAIN grace THEN grace[id] ELSE <<>>]]
    /\ grace' = Without(grace, id)

(* The handler may decline, and throw, which counts as declining.           *)
handleOpen(id) ==
    /\ IF id \in registry \/ ~target THEN Refuse(id)
       ELSE \/ Refuse(id)
            \/ /\ Accept(id)
               /\ late' = IF over THEN late \cup {id} ELSE late
               /\ astray' = IF restart.pc = "asked" THEN astray \cup {id} ELSE astray
               /\ UNCHANGED outbound
    /\ UNCHANGED gaps

handleMsg(id, msg) ==
    /\ IF id \in registry
       THEN /\ handle' = [handle EXCEPT ![id].got = Append(@, msg)]
            /\ UNCHANGED grace
       ELSE /\ grace' = [i \in DOMAIN grace \cup {id} |->
                            IF i # id THEN grace[i]
                            ELSE IF id \in DOMAIN grace THEN Append(grace[id], msg)
                            ELSE <<msg>>]
            /\ UNCHANGED handle
    /\ UNCHANGED <<registry, outbound, aux>>

(* A close of an unknown comm drops what is queued for it.                  *)
handleClose(id) ==
    /\ IF id \in registry
       THEN /\ handle' = [handle EXCEPT ![id] = FireOnClose(@)]
            /\ registry' = registry \ {id}
            /\ UNCHANGED <<grace, astray, gaps>>
       ELSE /\ grace' = Without(grace, id)
            /\ gaps' = gaps \cup ({id} \cap DOMAIN grace)
            /\ astray' = IF \E m \in Range(inbound) : m.id = id /\ m.type = "open"
                         THEN astray \cup {id} ELSE astray
            /\ UNCHANGED <<registry, handle>>
    /\ UNCHANGED <<outbound, late>>

(* Messages may come before the comm_open they were sent after.             *)
Overtakes(m, earlier) == m.id # earlier.id \/ earlier.type = "open"

(* A frame arrives and is handed to handleInbound.                          *)
Inbound ==
    /\ Idle /\ Heard
    /\ \E i \in DOMAIN inbound :
          LET m == inbound[i]
          IN /\ \A j \in 1 .. i - 1 : Overtakes(m, inbound[j])
             /\ inbound' = RemoveAt(inbound, i)
             /\ \E msg \in Decoded(m) :
                   CASE m.type = "open"  -> handleOpen(m.id)
                     [] m.type = "msg"   -> handleMsg(m.id, msg)
                     [] m.type = "close" -> handleClose(m.id)
    /\ UNCHANGED <<kernelSide, v1, conn, flow>>

(* The timer of the grace queue.                                            *)
GraceEnds(id) ==
    /\ Idle /\ id \in DOMAIN grace
    /\ grace' = Without(grace, id)
    /\ gaps' = gaps \cup {id}
    /\ UNCHANGED <<kernelSide, wires, registry, handle, late, astray, flow>>

-----------------------------------------------------------------------------
(* Connection, restart and end.                                             *)

(* What is under way on a socket that closes is lost; a grace queue that is *)
(* dropped with it is, too.                                                 *)
Discard(dropped) ==
    /\ inbound' = <<>> /\ outbound' = <<>>
    /\ gaps' = gaps \cup dropped
                  \cup {inbound[i].id : i \in {j \in DOMAIN inbound : inbound[j].type = "msg"}}

Undelivered ==
    {inbound[i].id : i \in {j \in DOMAIN inbound : inbound[j].type # "msg"}}
        \cup {outbound[i].id : i \in {j \in DOMAIN outbound : outbound[j].type # "msg"}}

(* The registry is kept while the connection is lost.                       *)
Disconnect ==
    /\ Idle /\ conn \in {"up", "cut"} /\ restart.pc = "off" /\ ~over /\ Event
    /\ conn' = "reconnecting" /\ Discard({})
    /\ astray' = astray \cup Undelivered
    /\ UNCHANGED <<kernelSide, v1, comms, late, tasks, target, restart, over>>

Reconnect ==
    /\ Idle /\ conn = "reconnecting"
    /\ conn' = "up"
    /\ UNCHANGED <<kernelSide, v1, inbound, outbound, comms, aux, flow>>

(* The loop has no attempt left, or there was none to make (max = 0).  The  *)
(* comms are told nothing: they wait for a restart or for the end.          *)
GivesUp ==
    /\ Idle /\ conn = "reconnecting"
    /\ conn' = "lost"
    /\ UNCHANGED <<kernelSide, v1, inbound, outbound, comms, aux, flow>>

(* restartKernel: the handles there are, then the POST; the abort has set   *)
(* info.state to disconnected.  A failed restart may be tried again.        *)
RestartBegins ==
    /\ Idle /\ conn # "reconnecting" /\ ~over /\ restart.pc = "off" /\ Event
    /\ restart' = [pc |-> "asked", before |-> registry, from |-> conn]
    /\ conn' = "cut"
    /\ UNCHANGED <<kernelSide, v1, inbound, outbound, comms, aux, tasks, target, over>>

(* RESTART_REST_FAILED: the old kernel goes on.                             *)
RestartRefused ==
    /\ Idle /\ restart.pc = "asked"
    /\ restart' = NoRestart
    /\ conn' = IF restart.from = "cut" THEN "up" ELSE restart.from
    /\ UNCHANGED <<kernelSide, v1, inbound, outbound, comms, aux, tasks, target, over, events>>

(* The POST times out: info.state is not restored, whether the kernel is a  *)
(* new one or not.                                                          *)
RestartTimesOut ==
    /\ Idle /\ restart.pc = "asked"
    /\ restart' = NoRestart
    /\ conn' = IF restart.from = "up" THEN "cut" ELSE restart.from
    /\ \/ UNCHANGED <<kernel, inbound, outbound, astray, gaps>>
       \/ kernel' = {} /\ Discard({}) /\ astray' = astray \cup registry
    /\ UNCHANGED <<used, said, sends, v1, comms, late, tasks, target, over, events>>

(* The kernel is a new one; the old socket is closed and a new one open.    *)
RestartReopens ==
    /\ Idle /\ restart.pc = "asked"
    /\ restart' = [restart EXCEPT !.pc = "info"]
    /\ kernel' = {} /\ Discard({})
    /\ UNCHANGED <<used, said, sends, v1, conn, comms, late, astray, tasks, target, over,
                   events>>

Fired(ids) ==
    [id \in Ids |-> IF id \in ids THEN FireOnClose(handle[id]) ELSE handle[id]]

BugRestartClosesAll ==
    /\ Idle /\ restart.pc = "info"
    /\ handle' = Fired(registry) /\ registry' = {}
    /\ restart' = NoRestart /\ conn' = "up"
    /\ UNCHANGED <<kernelSide, v1, inbound, outbound, grace, aux, tasks, target, over, events>>

(* The handles of the old kernel are closed; those that the new one has     *)
(* opened meanwhile stay.                                                   *)
RestartSucceeds ==
    /\ Idle /\ restart.pc = "info"
    /\ handle' = Fired(restart.before)
    /\ registry' = registry \ {id \in restart.before : handle[id].state # "closed"}
    /\ restart' = NoRestart /\ conn' = "up"
    /\ UNCHANGED <<kernelSide, v1, inbound, outbound, grace, aux, tasks, target, over, events>>

BugClearFirst == registry' = {} /\ grace' = <<>> /\ UNCHANGED handle

(* closeAll: the handles, then the registry and the timers.                 *)
CloseAll == handle' = Fired(registry) /\ registry' = {} /\ grace' = <<>>

(* RESTART_HANDSHAKE_FAILED: the new socket is closed for good.             *)
RestartFails ==
    /\ Idle /\ restart.pc \in {"asked", "info"}
    /\ CloseAll
    /\ restart' = NoRestart /\ conn' = "dead"
    /\ kernel' = {} /\ Discard(DOMAIN grace)
    /\ UNCHANGED <<used, said, sends, v1, late, astray, tasks, target, over, events>>

(* The new socket is gone when kernel_info is to be sent on it: an error of *)
(* another code, for which restartKernel closes no comm.  Unless the server *)
(* closed it with 1000 a reconnect loop starts.                             *)
RestartBreaks ==
    /\ Idle /\ restart.pc = "info"
    /\ restart' = NoRestart /\ conn' \in {"reconnecting", "lost"}
    /\ Discard({})
    /\ astray' = astray \cup restart.before \cup Undelivered
    /\ UNCHANGED <<kernelSide, v1, comms, late, tasks, target, over, events>>

(* shutdownKernel and BufWipeout.  A close may be waiting for its await: the*)
(* subscriber of a handle that closeAll closes may be closing another.      *)
End ==
    /\ restart.pc = "off" /\ ~over
    /\ CloseAll
    /\ over' = TRUE /\ gaps' = gaps \cup DOMAIN grace
    /\ UNCHANGED <<kernelSide, wires, tasks, target, restart, late, astray, events>>

(* client.shutdown: the kernel is deleted and the socket closed.            *)
Shutdown ==
    /\ Idle /\ over /\ conn # "dead"
    /\ conn' = "dead" /\ kernel' = {} /\ Discard({})
    /\ UNCHANGED <<used, said, sends, v1, comms, late, astray, flow>>

Next ==
    \/ \E id \in KernelIds : KernelOpens(id)
    \/ \E id \in Ids : \/ KernelSends(id) \/ KernelCloses(id)
                       \/ Send(id) \/ Close(id) \/ GraceEnds(id)
    \/ \E id \in FrontIds : OpenComm(id)
    \/ KernelReads \/ OpenReturns \/ CloseReturns \/ Inbound
    \/ Register \/ Disconnect \/ Reconnect \/ GivesUp
    \/ RestartBegins \/ RestartRefused \/ RestartTimesOut \/ RestartReopens
    \/ RestartSucceeds \/ RestartFails \/ RestartBreaks
    \/ End \/ Shutdown

Spec == Init /\ [][Next]_vars

-----------------------------------------------------------------------------
(* Properties.                                                              *)

TypeOK ==
    /\ kernel \subseteq used /\ used \subseteq Ids /\ sends \in 0 .. MaxSends
    /\ said \in [Ids -> 0 .. MaxSends]
    /\ v1 \in BOOLEAN /\ conn \in {"up", "reconnecting", "cut", "lost", "dead"}
    /\ registry \subseteq Ids /\ DOMAIN grace \subseteq Ids
    /\ \A id \in Ids : handle[id].state \in {"none", "open", "closing", "closed"}
    /\ Len(tasks) <= 1 /\ target \in BOOLEAN /\ events \in 0 .. MaxEvents
    /\ restart.pc \in {"off", "asked", "info"} /\ restart.before \subseteq Ids
    /\ late \cup astray \cup gaps \subseteq Ids

(* A handle tells its subscribers of its end once, whichever of the kernel, *)
(* the frontend, a restart and closeAll ends it first, and a comm is in the *)
(* registry exactly while its handle is not closed (handle.ts, close and    *)
(* _fireOnClose).                                                           *)
ClosedOnce ==
    \A id \in Ids :
        /\ handle[id].closes = (IF handle[id].state = "closed" THEN 1 ELSE 0)
        /\ id \in registry <=> handle[id].state \in {"open", "closing"}

(* What the subprotocol carries of a message: v1 all of it, the default no  *)
(* buffers (wire/protocol-default.ts:28-37).  doc/europa-kernel.txt:222 has *)
(* the buffers travel through both: see BuffersTravel.                      *)
Carried(wire) == IF v1 THEN wire ELSE [wire EXCEPT !.buffers = <<>>]

(* What the subscribers have got, and what waits for the comm_open.         *)
Told(id) == handle[id].got \o (IF id \in DOMAIN grace THEN grace[id] ELSE <<>>)
Position(wire) == wire.content[2]
Awaited(id) == \E m \in Range(inbound) : m.id = id /\ m.type = "msg"

(* The subscribers of a comm are told what the kernel sent on it, in the    *)
(* order it was sent and nothing twice, though messages may come before the *)
(* comm_open and sockets be replaced; and, unless a message was lost with a *)
(* socket or expired in the grace queue, without a gap and to the last      *)
(* (comm/dispatch.ts, wire/protocol-v1.ts).                                 *)
InOrder ==
    \A id \in Ids :
        /\ \A k \in DOMAIN Told(id) :
              \E n \in 1 .. said[id] : Told(id)[k] = Carried(Nth(id, n).wire)
        /\ \A k, l \in DOMAIN Told(id) :
              k < l => Position(Told(id)[k]) < Position(Told(id)[l])
        /\ id \notin gaps /\ ~Awaited(id) => Len(Told(id)) = said[id]

(* "Binary buffers travel byte-for-byte through both wire codecs"           *)
(* (doc/europa-kernel.txt:222): with the default subprotocol they do not,   *)
(* see CommBuffers.cfg.                                                     *)
BuffersTravel ==
    \A id \in Ids : \A k \in DOMAIN handle[id].got :
        \E n \in 1 .. said[id] : handle[id].got[k] = Nth(id, n).wire

(* When nothing is under way, the registry has exactly the comms that are   *)
(* open in the kernel, after restarts that fail, succeed or time out as     *)
(* after a lost connection (restart.ts, ws-reconnect-preserve), but for     *)
(* those of which a comm_open or a comm_close was lost or came in one of    *)
(* the windows that the code leaves.                                        *)
AtRest ==
    /\ inbound = <<>> /\ outbound = <<>> /\ Idle
    /\ conn = "up" /\ restart.pc = "off" /\ ~over

Agreement == AtRest => registry \ astray = kernel \ astray

(* No handle outlives a socket that Europa closed for good, in a shutdown   *)
(* or after a failed handshake: each has had its end, but those that were   *)
(* opened after closeAll.  Where it is the reconnect loop that gives up     *)
(* (conn is "lost"), handles stay open until a restart or the end           *)
(* (comm/service.ts, closeAll; exec/restart.ts, fallback).                  *)
Terminated ==
    (conn = "dead" \/ over) /\ Idle =>
        /\ registry \subseteq late
        /\ \A id \in Ids \ late : handle[id].state \in {"none", "closed"}
=============================================================================

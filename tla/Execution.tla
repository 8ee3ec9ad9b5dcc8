----------------------------- MODULE Execution -----------------------------
(***************************************************************************)
(* Running notebook cells on one Jupyter kernel.                           *)
(*                                                                         *)
(* One KernelRuntime (contracts/kernel-client.ts) is shared by every       *)
(* dispatcher call made for its buffer: runCell, runAll, cancelCell and    *)
(* restartKernel.  Each call is an async function that suspends at its     *)
(* awaits, so the calls interleave over the shared fields execState,       *)
(* cellStates and pendingRequests.                                         *)
(*                                                                         *)
(* JavaScript runs a promise continuation before the next event.  A run    *)
(* whose continuation is due is in pc "resume" and a runAll due to take    *)
(* its next entry is in pc "next"; every action that stands for an EVENT   *)
(* (a command, a frame from the socket, the end of an RPC, a step of the   *)
(* network) waits until no continuation is due: guard Quiescent.  A        *)
(* restart whose handshake was aborted is such a continuation too.         *)
(*                                                                         *)
(* A definition whose name starts with Bug is a plausible mistake in the    *)
(* definition that follows it; no specification uses it.                   *)
(*                                                                         *)
(* The kernel, the Jupyter server and the network are the environment.     *)
(***************************************************************************)
EXTENDS Naturals, Sequences, FiniteSets

CONSTANTS
    Cells,          \* ids of the code cells
    Notebook,       \* the code cells from top to bottom
    Callers,        \* the runAll calls that may be in flight at once
    Restarters,     \* the restartKernel calls that may be in flight at once
    Races,          \* the races the environment may exhibit, see RaceNames
    MaxMsg,         \* bound: execute requests ever created
    MaxRestarts,    \* bound: restartKernel calls ever made
    MaxDrops        \* bound: unexpected socket losses

(* "idleFirst":    status:idle (iopub) may reach the client before          *)
(*                 execute_reply (shell) of the same request                *)
(* "runInRestart": the user may run a cell while a restart is in progress   *)
(* "slowFlush":    a viewer RPC started before a restart may outlast it     *)
RaceNames == {"idleFirst", "runInRestart", "slowFlush"}

ASSUME ExecutionAssumption ==
    /\ Cells # {}
    /\ Notebook \in Seq(Cells)
    /\ \A i, j \in DOMAIN Notebook : Notebook[i] = Notebook[j] => i = j
    /\ "cell" \notin Callers
    /\ Races \subseteq RaceNames
    /\ MaxMsg \in Nat /\ MaxRestarts \in Nat /\ MaxDrops \in Nat

Msgs == 1 .. MaxMsg

VARIABLES
    rt,         \* the shared fields of KernelRuntime
    nextMsg,    \* the next message id; ids are time-ordered UUID v7s
    run,        \* per request, the execute() generator and its consumer
    all,        \* per runAll call, its entries and position
    epoch,      \* generation of runtime.abort; older generations are aborted
    restart,    \* per restartKernel call, where it stands
    sock,       \* runtime.socket: "open", "down" (reconnecting) or "closed"
    drops,      \* how often the socket was lost
    kernel,     \* requests the kernel holds; TRUE once the head has printed
    iopub,      \* frames on their way on the iopub channel
    shell,      \* frames on their way on the shell channel
    outputs,    \* per cell, the requests whose output it shows
    hist        \* history: how runs ended and what they saw

vars == <<rt, nextMsg, run, all, epoch, restart, sock, drops, kernel, iopub,
          shell, outputs, hist>>
envVars == <<sock, drops, kernel, iopub, shell>>

-----------------------------------------------------------------------------
(* session/pending-requests.ts: functions from a runtime to a runtime.      *)

Enqueue(r, m, c) ==
    [r EXCEPT !.pendingRequests[m] = "queued", !.cellId[m] = c,
              !.cellStates[c] = "queued"]

MarkSent(r, m) ==
    [r EXCEPT !.pendingRequests[m] = "sent", !.cellStates[r.cellId[m]] = "busy"]

BugCompleteKeepsEntry(r, m) ==
    IF r.pendingRequests[m] = "none" THEN r
    ELSE [r EXCEPT !.cellStates[r.cellId[m]] = IF @ = "busy" THEN "idle" ELSE @]

Complete(r, m) ==
    IF r.pendingRequests[m] = "none" THEN r
    ELSE [r EXCEPT !.pendingRequests[m] = "none",
                   !.cellStates[r.cellId[m]] = IF @ = "busy" THEN "idle" ELSE @]

Queued(r, c) == {m \in Msgs : r.pendingRequests[m] = "queued" /\ r.cellId[m] = c}

(* Map iteration follows insertion, and ids grow with it.                   *)
First(m, S) == m \in S /\ \A n \in S : m <= n

BugCancelKeepsState(r, m) == [r EXCEPT !.pendingRequests[m] = "none"]

CancelQueued(r, m) ==
    [r EXCEPT !.pendingRequests[m] = "none", !.cellStates[r.cellId[m]] = "idle"]

Live(r) == {m \in Msgs : r.pendingRequests[m] # "none"}

BugAbortKeepsEntries(r) ==
    [r EXCEPT !.cellStates = [c \in Cells |->
                  IF \E m \in Live(r) : r.cellId[m] = c THEN "aborted" ELSE @[c]]]

AbortAll(r) ==
    [r EXCEPT !.pendingRequests = [m \in Msgs |-> "none"],
              !.cellStates = [c \in Cells |->
                  IF \E m \in Live(r) : r.cellId[m] = c THEN "aborted" ELSE @[c]]]

(* `if (kr.execState === "busy") kr.execState = "idle"`                     *)
Settle(r) == [r EXCEPT !.execState = IF @ = "busy" THEN "idle" ELSE @]

-----------------------------------------------------------------------------
NoRun  == [pc |-> "off", by |-> "cell", epoch |-> 0, at |-> "reply",
           buf |-> <<>>, reply |-> FALSE, idle |-> FALSE, status |-> "ok"]
AllOff == [pc |-> "off", mids |-> <<>>, pos |-> 0]
NoKernel == [queue |-> <<>>, printed |-> FALSE]

Init ==
    /\ rt = [execState |-> "idle",
             cellStates |-> [c \in Cells |-> "idle"],
             pendingRequests |-> [m \in Msgs |-> "none"],
             cellId |-> [m \in Msgs |-> CHOOSE c \in Cells : TRUE]]
    /\ nextMsg = 1
    /\ run = [m \in Msgs |-> NoRun]
    /\ all = [a \in Callers |-> AllOff]
    /\ epoch = 0
    /\ restart = [r \in Restarters |-> [pc |-> "off", epoch |-> 0]]
    /\ sock = "open"
    /\ drops = 0
    /\ kernel = NoKernel
    /\ iopub = <<>>
    /\ shell = <<>>
    /\ outputs = [c \in Cells |-> {}]
    /\ hist = [normal |-> {}, seen |-> {}, cut |-> {}]

Quiescent ==
    /\ \A m \in Msgs : run[m].pc # "resume"
    /\ \A a \in Callers : all[a].pc # "next"
    /\ \A r \in Restarters : restart[r].pc = "info" => restart[r].epoch = epoch

Aborted(m) == run[m].epoch < epoch

(* execute() up to its first await, called after markSent: subscribe, send. *)
(* A frame sent on a socket that is not OPEN is discarded without an error. *)
NewRun(by) == [NoRun EXCEPT !.pc = "wait", !.by = by, !.epoch = epoch]
Send(m) ==
    IF sock = "open"
    THEN kernel' = [kernel EXCEPT !.queue = Append(@, m)] /\ UNCHANGED hist
    ELSE hist' = [hist EXCEPT !.cut = @ \cup {m}] /\ UNCHANGED kernel

MayRun ==
    /\ Quiescent
    /\ "runInRestart" \in Races \/ \A r \in Restarters : restart[r].pc = "off"

-----------------------------------------------------------------------------
(* dispatcher/exec/run-cell.ts.  The three outcomes of runCell that change  *)
(* state; the others (cell already busy, or queued while the kernel is      *)
(* busy) print a message.                                                   *)

(* `else if queued but no queued entry is left: cellStates.set("idle")`     *)
Refreshed(c) ==
    IF rt.cellStates[c] = "queued" /\ Queued(rt, c) = {}
    THEN [rt EXCEPT !.cellStates[c] = "idle"] ELSE rt

RunCellQueue(c) ==
    /\ MayRun
    /\ rt.execState = "busy"
    /\ rt.cellStates[c] \notin {"busy", "queued"}
    /\ nextMsg \in Msgs
    /\ rt' = Enqueue(rt, nextMsg, c)
    /\ nextMsg' = nextMsg + 1
    /\ UNCHANGED <<run, all, epoch, restart, envVars, outputs, hist>>

BugStartKeepsOutput(r, m, c, by) ==
    /\ rt' = MarkSent(r, m)
    /\ run' = [run EXCEPT ![m] = NewRun(by)]
    /\ UNCHANGED outputs
    /\ Send(m)

StartRun(r, m, c, by) ==
    /\ rt' = MarkSent(r, m)
    /\ run' = [run EXCEPT ![m] = NewRun(by)]
    /\ outputs' = [outputs EXCEPT ![c] = {}]
    /\ Send(m)

RunCellSend(c) ==
    /\ MayRun
    /\ rt.execState # "busy"
    /\ rt.cellStates[c] # "busy"
    /\ rt.cellStates[c] = "queued" => Queued(rt, c) = {}
    /\ nextMsg \in Msgs
    /\ StartRun([Enqueue(Refreshed(c), nextMsg, c) EXCEPT !.execState = "busy"],
                nextMsg, c, "cell")
    /\ nextMsg' = nextMsg + 1
    /\ UNCHANGED <<all, epoch, restart, sock, drops, iopub, shell>>

RunCellRedispatch(c) ==
    /\ MayRun
    /\ rt.execState # "busy"
    /\ rt.cellStates[c] = "queued"
    /\ \E m \in Msgs :
          /\ First(m, Queued(rt, c))
          /\ StartRun([rt EXCEPT !.execState = "busy"], m, c, "cell")
    /\ UNCHANGED <<nextMsg, all, epoch, restart, sock, drops, iopub, shell>>

(* dispatcher/exec/cancel.ts *)
CancelCell(c) ==
    /\ Quiescent
    /\ \E m \in Msgs : First(m, Queued(rt, c)) /\ rt' = CancelQueued(rt, m)
    /\ UNCHANGED <<nextMsg, run, all, epoch, restart, envVars, outputs, hist>>

-----------------------------------------------------------------------------
(* dispatcher/exec/run-all.ts.  The entries: a queued entry is reused, a    *)
(* cell without one is enqueued.                                            *)

Lacking == {i \in DOMAIN Notebook : Queued(rt, Notebook[i]) = {}}

Entries(mids) ==
    \A i \in DOMAIN Notebook :
        IF i \in Lacking
        THEN mids[i] = nextMsg + Cardinality({j \in Lacking : j < i})
        ELSE First(mids[i], Queued(rt, Notebook[i]))

RunAll(a) ==
    /\ MayRun
    /\ all[a].pc = "off"
    /\ rt.execState # "busy"
    /\ \E mids \in [DOMAIN Notebook -> Msgs] :
          /\ Entries(mids)
          /\ LET new(m) == {i \in Lacking : mids[i] = m}
                 cell(m) == Notebook[CHOOSE i \in new(m) : TRUE]
             IN rt' = [rt EXCEPT
                  !.execState = "busy",
                  !.pendingRequests =
                      [m \in Msgs |-> IF new(m) # {} THEN "queued" ELSE @[m]],
                  !.cellId = [m \in Msgs |-> IF new(m) # {} THEN cell(m) ELSE @[m]],
                  !.cellStates = [c \in Cells |->
                      IF \E i \in Lacking : Notebook[i] = c THEN "queued" ELSE @[c]]]
          /\ all' = [all EXCEPT ![a] = [pc |-> "next", mids |-> mids, pos |-> 1]]
    /\ nextMsg' = nextMsg + Cardinality(Lacking)
    /\ UNCHANGED <<run, epoch, restart, envVars, outputs, hist>>

Ahead(a) == {i \in DOMAIN Notebook :
                i >= all[a].pos /\ rt.pendingRequests[all[a].mids[i]] # "none"}

(* The loop takes its next entry that was not cancelled and sends it.       *)
RunAllNext(a) ==
    /\ all[a].pc = "next"
    /\ \E i \in DOMAIN Notebook :
          /\ First(i, Ahead(a))
          /\ rt.pendingRequests[all[a].mids[i]] = "queued"
          /\ StartRun(rt, all[a].mids[i], Notebook[i], a)
          /\ all' = [all EXCEPT ![a].pc = "run", ![a].pos = i + 1]
    /\ UNCHANGED <<nextMsg, epoch, restart, sock, drops, iopub, shell>>

(* No entry is left, or markSent throws because somebody else already sent  *)
(* the entry; either way the finally block runs.                            *)
RunAllEnd(a) ==
    /\ all[a].pc = "next"
    /\ \A i \in DOMAIN Notebook :
          First(i, Ahead(a)) => rt.pendingRequests[all[a].mids[i]] = "sent"
    /\ rt' = Settle(rt)
    /\ outputs' = [c \in Cells |->
          IF \E i \in DOMAIN Notebook : First(i, Ahead(a)) /\ Notebook[i] = c
          THEN {} ELSE outputs[c]]
    /\ all' = [all EXCEPT ![a] = AllOff]
    /\ UNCHANGED <<nextMsg, run, epoch, restart, envVars, hist>>

(* The "stopped" message has been shown; the finally block runs.            *)
RunAllStopped(a) ==
    /\ Quiescent
    /\ all[a].pc = "stop"
    /\ rt' = Settle(rt)
    /\ all' = [all EXCEPT ![a] = AllOff]
    /\ UNCHANGED <<nextMsg, run, epoch, restart, envVars, outputs, hist>>

-----------------------------------------------------------------------------
(* kernel/execute.ts and the for-await loop that consumes it.               *)

BugReceiveForgetsReply(f) ==
    LET m == f.msg IN
    run' = IF run[m].pc = "off" THEN run
           ELSE [run EXCEPT
              ![m].idle  = @ \/ f.type = "idle",
              ![m].buf   = Append(@, f),
              ![m].pc    = IF @ = "wait" THEN "resume" ELSE @]

(* The onMessage handler: frames of other requests are filtered out.        *)
Receive(f) ==
    LET m == f.msg IN
    run' = IF run[m].pc = "off" THEN run
           ELSE [run EXCEPT
              ![m].reply = @ \/ f.type = "reply",
              ![m].idle  = @ \/ f.type = "idle",
              ![m].buf   = Append(@, f),
              ![m].pc    = IF @ = "wait" THEN "resume" ELSE @]

DeliverShell ==
    /\ Quiescent /\ sock = "open" /\ shell # <<>>
    /\ Receive(Head(shell))
    /\ shell' = Tail(shell)
    /\ UNCHANGED <<rt, nextMsg, all, epoch, restart, sock, drops, kernel, iopub,
                   outputs, hist>>

DeliverIopub ==
    /\ Quiescent /\ sock = "open" /\ iopub # <<>>
    /\ "idleFirst" \in Races \/ Head(iopub).type # "idle"
         \/ \A i \in DOMAIN shell : shell[i].msg # Head(iopub).msg
    /\ Receive(Head(iopub))
    /\ iopub' = Tail(iopub)
    /\ UNCHANGED <<rt, nextMsg, all, epoch, restart, sock, drops, kernel, shell,
                   outputs, hist>>

BugStreamingUntilReply(f) == ~f.reply \/ f.buf # <<>>

(* while (!receivedReply || !receivedIdle || buffer.length > 0)             *)
Streaming(f) == ~f.reply \/ ~f.idle \/ f.buf # <<>>

(* One turn of the loop takes one frame.  The consumer awaits flushNow()    *)
(* after the reply and, in runCell, after status:idle.                      *)
Awaits(f, type) == type = "reply" \/ (type = "idle" /\ f.by = "cell")

LoopTake(m) ==
    LET f == run[m]
        h == Head(f.buf)
    IN /\ f.pc = "resume" /\ ~Aborted(m) /\ f.buf # <<>>
       /\ run' = [run EXCEPT ![m] =
             [f EXCEPT !.buf = Tail(@),
                       !.pc = IF Awaits(f, h.type) THEN "flush" ELSE @,
                       !.at = h.type,
                       !.status = IF h.type = "reply" THEN h.status ELSE @]]
       /\ IF h.type = "out"
          THEN /\ outputs' = [outputs EXCEPT ![rt.cellId[m]] = @ \cup {m}]
               /\ hist' = [hist EXCEPT !.seen = @ \cup {m}]
          ELSE UNCHANGED <<outputs, hist>>
       /\ UNCHANGED <<rt, nextMsg, all, epoch, restart, envVars>>

LoopWait(m) ==
    /\ run[m].pc = "resume" /\ ~Aborted(m)
    /\ Streaming(run[m]) /\ run[m].buf = <<>>
    /\ run' = [run EXCEPT ![m].pc = "wait"]
    /\ UNCHANGED <<rt, nextMsg, all, epoch, restart, envVars, outputs, hist>>

(* flushNow() has resolved; runCell frees the kernel if this was its idle.  *)
FlushDone(m) ==
    /\ Quiescent
    /\ run[m].pc = "flush"
    /\ rt' = IF run[m].by = "cell" /\ run[m].at = "idle" THEN Settle(rt) ELSE rt
    /\ run' = [run EXCEPT ![m].pc = "resume"]
    /\ UNCHANGED <<nextMsg, all, epoch, restart, envVars, outputs, hist>>

(* The finally blocks.  runCell marks the cell aborted on AbortError; the   *)
(* catch of runAll turns it into an error.                                  *)
FinishCell(m, aborted) ==
    LET c == rt.cellId[m]
        r == IF aborted THEN [rt EXCEPT !.cellStates[c] = "aborted"] ELSE rt
    IN /\ run[m].by = "cell"
       /\ rt' = Settle(Complete(r, m))
       /\ UNCHANGED all

(* An error drops every entry of the call that is still registered.         *)
DropRest(r, mids) ==
    LET rest == {i \in DOMAIN Notebook : r.pendingRequests[mids[i]] # "none"} IN
    [r EXCEPT
        !.pendingRequests = [m \in Msgs |->
            IF \E i \in rest : mids[i] = m THEN "none" ELSE @[m]],
        !.cellStates = [c \in Cells |->
            IF \E i \in rest : Notebook[i] = c THEN "idle" ELSE @[c]]]

FinishEntry(m, a, aborted) ==
    /\ run[m].by = a
    /\ IF aborted \/ run[m].status = "error"
       THEN /\ rt' = DropRest(Complete(rt, m), all[a].mids)
            /\ all' = [all EXCEPT ![a].pc = "stop"]
       ELSE /\ rt' = Complete(rt, m)
            /\ all' = [all EXCEPT ![a].pc = "next"]

Finish(m, aborted) ==
    /\ run[m].pc = "resume"
    /\ FinishCell(m, aborted) \/ \E a \in Callers : FinishEntry(m, a, aborted)
    /\ run' = [run EXCEPT ![m] = NoRun]
    /\ hist' = IF aborted THEN hist ELSE [hist EXCEPT !.normal = @ \cup {m}]
    /\ UNCHANGED <<nextMsg, epoch, restart, envVars, outputs>>

FinishNormally(m) == ~Streaming(run[m]) /\ Finish(m, FALSE)

(* The loop condition is tested before the signal.                          *)
FinishAborted(m) == Aborted(m) /\ Streaming(run[m]) /\ Finish(m, TRUE)

-----------------------------------------------------------------------------
(* dispatcher/exec/restart.ts and kernel/restart.ts.                        *)

(* Viewer RPCs issued before the restart have been answered.                *)
Flushed ==
    \/ "slowFlush" \in Races
    \/ /\ \A m \in Msgs : run[m].pc # "flush"
       /\ \A a \in Callers : all[a].pc # "stop"

Lost == iopub' = <<>> /\ shell' = <<>>
Cut == hist' = [hist EXCEPT !.cut = @ \cup {m \in Msgs : run[m].pc # "off"}]
MoveTo(r, pc, e) == restart' = [restart EXCEPT ![r] = [pc |-> pc, epoch |-> e]]

(* restart.ts is called: abort the generation, clear the requests, POST.    *)
(* Runs suspended on a message are woken with AbortError.                   *)
RestartBegin(r) ==
    /\ Quiescent /\ restart[r].pc = "off" /\ epoch < MaxRestarts
    /\ epoch' = epoch + 1
    /\ rt' = [AbortAll(rt) EXCEPT !.execState = "restarting"]
    /\ run' = [m \in Msgs |-> IF run[m].pc = "wait"
                              THEN [run[m] EXCEPT !.pc = "resume"] ELSE run[m]]
    /\ MoveTo(r, "rest", epoch + 1)
    /\ UNCHANGED <<nextMsg, all, envVars, outputs, hist>>

(* The POST fails with a status: the old socket stays.                      *)
RestartRefused(r) ==
    /\ Quiescent /\ restart[r].pc = "rest" /\ Flushed
    /\ rt' = [rt EXCEPT !.execState = "idle"]
    /\ MoveTo(r, "off", epoch)
    /\ UNCHANGED <<nextMsg, run, all, epoch, envVars, outputs, hist>>

(* The POST itself throws, or the new socket does not open: only the catch  *)
(* of the dispatcher runs.  A POST that timed out may have taken effect.    *)
RestartThrows(r) ==
    /\ Quiescent /\ restart[r].pc \in {"rest", "open"} /\ Flushed
    /\ rt' = [rt EXCEPT !.execState = IF @ = "restarting" THEN "idle" ELSE @]
    /\ kernel' \in {kernel, IF restart[r].pc = "rest" THEN NoKernel ELSE kernel}
    /\ MoveTo(r, "off", epoch)
    /\ UNCHANGED <<nextMsg, run, all, epoch, sock, drops, iopub, shell, outputs,
                   hist>>

(* 200: the server has replaced the kernel; the old socket is closed.       *)
RestartAccepted(r) ==
    /\ Quiescent /\ restart[r].pc = "rest"
    /\ sock' = "closed" /\ Lost /\ Cut
    /\ kernel' = NoKernel
    /\ MoveTo(r, "open", epoch)
    /\ UNCHANGED <<rt, nextMsg, run, all, epoch, drops, outputs>>

(* The new socket opened; onSocketReopen installs it.                       *)
RestartReopened(r) ==
    /\ Quiescent /\ restart[r].pc = "open" /\ restart[r].epoch = epoch
    /\ sock' = "open"
    /\ MoveTo(r, "info", epoch)
    /\ UNCHANGED <<rt, nextMsg, run, all, epoch, drops, kernel, iopub, shell,
                   outputs, hist>>

(* kernel_info_reply arrived: clear the cell states.                        *)
RestartDone(r) ==
    /\ Quiescent /\ restart[r].pc = "info" /\ restart[r].epoch = epoch
    /\ Flushed
    /\ rt' = [rt EXCEPT !.cellStates = [c \in Cells |-> "idle"],
                        !.execState = "idle"]
    /\ MoveTo(r, "off", epoch)
    /\ UNCHANGED <<nextMsg, run, all, epoch, envVars, outputs, hist>>

(* The handshake failed: the new socket is closed.                          *)
RestartUnanswered(r) ==
    /\ restart[r].pc = "info"
    /\ restart[r].epoch = epoch => Quiescent /\ Flushed
    /\ rt' = [rt EXCEPT !.execState = "idle"]
    /\ sock' = "closed" /\ Lost /\ Cut
    /\ MoveTo(r, "off", epoch)
    /\ UNCHANGED <<nextMsg, run, all, epoch, drops, kernel, outputs>>

-----------------------------------------------------------------------------
(* The environment: the kernel prints and then answers its oldest request;  *)
(* what it says while no socket is open is lost.                            *)

Emit(chan, f) == IF sock = "open" THEN Append(chan, f) ELSE chan

KernelPrint ==
    /\ Quiescent /\ kernel.queue # <<>> /\ ~kernel.printed
    /\ kernel' = [kernel EXCEPT !.printed = TRUE]
    /\ iopub' = Emit(iopub, [msg |-> Head(kernel.queue), type |-> "out"])
    /\ UNCHANGED <<rt, nextMsg, run, all, epoch, restart, sock, drops, shell,
                   outputs, hist>>

KernelAnswer ==
    /\ Quiescent /\ kernel.queue # <<>> /\ kernel.printed
    /\ kernel' = [queue |-> Tail(kernel.queue), printed |-> FALSE]
    /\ iopub' = Emit(iopub, [msg |-> Head(kernel.queue), type |-> "idle"])
    /\ \E s \in {"ok", "error"} :
          shell' = Emit(shell, [msg |-> Head(kernel.queue), type |-> "reply",
                                status |-> s])
    /\ UNCHANGED <<rt, nextMsg, run, all, epoch, restart, sock, drops,
                   outputs, hist>>

(* The socket is lost with what is on it; the reconnect loop brings it back *)
(* or gives up.  None of this touches the requests.                         *)
SocketLost ==
    /\ Quiescent /\ sock = "open" /\ drops < MaxDrops
    /\ sock' = "down" /\ Lost /\ Cut
    /\ drops' = drops + 1
    /\ UNCHANGED <<rt, nextMsg, run, all, epoch, restart, kernel, outputs>>

SocketBack(s) ==
    /\ Quiescent /\ sock = "down"
    /\ sock' = s
    /\ UNCHANGED <<rt, nextMsg, run, all, epoch, restart, drops, kernel, iopub,
                   shell, outputs, hist>>

-----------------------------------------------------------------------------
Command ==
    \/ \E c \in Cells : RunCellQueue(c) \/ RunCellSend(c)
                        \/ RunCellRedispatch(c) \/ CancelCell(c)
    \/ \E a \in Callers : RunAll(a)
    \/ \E r \in Restarters : RestartBegin(r)

Continuation ==
    \/ \E m \in Msgs : LoopTake(m) \/ LoopWait(m)
                       \/ FinishNormally(m) \/ FinishAborted(m)
    \/ \E a \in Callers : RunAllNext(a) \/ RunAllEnd(a)

RestartStep(r) ==
    \/ RestartRefused(r) \/ RestartThrows(r) \/ RestartAccepted(r)
    \/ RestartReopened(r) \/ RestartDone(r) \/ RestartUnanswered(r)

Viewer ==
    \/ \E m \in Msgs : FlushDone(m)
    \/ \E a \in Callers : RunAllStopped(a)

Kernel == KernelPrint \/ KernelAnswer

Next ==
    \/ Command \/ Continuation \/ Viewer \/ Kernel
    \/ DeliverShell \/ DeliverIopub
    \/ \E r \in Restarters : RestartStep(r)
    \/ SocketLost \/ SocketBack("open") \/ SocketBack("closed")

Spec == Init /\ [][Next]_vars

(* Promise continuations run; a viewer RPC is answered; the kernel works    *)
(* through its queue; an open socket delivers; a restart's HTTP request,    *)
(* socket and handshake all end, by their timeouts if nothing else.  The    *)
(* user, and the loss and return of the socket, owe nothing.                *)
Fairness ==
    /\ WF_vars(Continuation) /\ WF_vars(Viewer) /\ WF_vars(Kernel)
    /\ WF_vars(DeliverShell) /\ WF_vars(DeliverIopub)
    /\ \A r \in Restarters : WF_vars(RestartStep(r))

FairSpec == Spec /\ Fairness

-----------------------------------------------------------------------------
CellState  == {"idle", "queued", "busy", "aborted"}
Frames     == [msg : Msgs, type : {"out", "idle"}]
                  \cup [msg : Msgs, type : {"reply"}, status : {"ok", "error"}]

Runtime    == [execState : {"idle", "busy", "restarting"},
               cellStates : [Cells -> CellState],
               pendingRequests : [Msgs -> {"none", "queued", "sent"}],
               cellId : [Msgs -> Cells]]
RunType    == [pc : {"off", "wait", "resume", "flush"}, by : Callers \cup {"cell"},
               epoch : Nat, at : {"out", "idle", "reply"}, buf : Seq(Frames),
               reply : BOOLEAN, idle : BOOLEAN, status : {"ok", "error"}]
AllType    == [pc : {"off", "next", "run", "stop"}, pos : Nat,
               mids : {<<>>} \cup [DOMAIN Notebook -> Msgs]]

(* Every field keeps to the values its schema allows (schema/session.ts).   *)
TypeOK ==
    /\ rt \in Runtime
    /\ nextMsg \in Nat \ {0}
    /\ run \in [Msgs -> RunType]
    /\ all \in [Callers -> AllType]
    /\ epoch \in Nat
    /\ restart \in [Restarters -> [pc : {"off", "rest", "open", "info"},
                                  epoch : Nat]]
    /\ sock \in {"open", "down", "closed"} /\ drops \in Nat
    /\ kernel \in [queue : Seq(Msgs), printed : BOOLEAN]
    /\ iopub \in Seq(Frames) /\ shell \in Seq(Frames)
    /\ outputs \in [Cells -> SUBSET Msgs]
    /\ hist \in [normal : SUBSET Msgs, seen : SUBSET Msgs, cut : SUBSET Msgs]

Sent == {m \in Msgs : rt.pendingRequests[m] = "sent"}

(* A request registered as sent always has a run that will unregister it:   *)
(* no path through the handlers leaves an entry nobody is waiting for.      *)
SentHasRun == \A m \in Sent : run[m].pc # "off"

(* A runAll call waits for one run at a time.                               *)
OneRunPerCall ==
    /\ \A a \in Callers : all[a].pc # "off" => all[a].mids \in [DOMAIN Notebook -> Msgs]
    /\ \A m \in Msgs : run[m].pc # "off" /\ run[m].by # "cell"
                       => all[run[m].by].pc = "run"
    /\ \A m, n \in Msgs :
          run[m].pc # "off" /\ run[n].pc # "off"
             /\ run[m].by = run[n].by /\ run[m].by # "cell" => m = n

(* No entry survives its own generation: what an aborted run was waiting    *)
(* for is no longer registered, so its late finally block completes nothing *)
(* that a newer run registered.                                             *)
AbortedUnregistered ==
    \A m \in Msgs : run[m].pc # "off" /\ Aborted(m) => rt.pendingRequests[m] = "none"

(* One request on the kernel at a time, and the kernel shown as busy while  *)
(* it is, whenever a command can observe it: execState is what runCell and  *)
(* runAll test before they send (dispatcher/exec/run-cell.ts).              *)
BusyWhileSent ==
    /\ \A m, n \in Sent : m = n
    /\ Quiescent /\ Sent # {} => rt.execState = "busy"

(* cellStates and pendingRequests move in lockstep (session/pending-        *)
(* requests.ts:4), and execState with them: a cell is shown queued or busy  *)
(* exactly when it has an entry in that state, and has at most one entry.   *)
Lockstep ==
    /\ BusyWhileSent
    /\ \A m, n \in Live(rt) : rt.cellId[m] = rt.cellId[n] => m = n
    /\ \A m \in Live(rt) : rt.cellStates[rt.cellId[m]] =
            IF rt.pendingRequests[m] = "sent" THEN "busy" ELSE "queued"
    /\ \A c \in Cells : rt.cellStates[c] \in {"queued", "busy"} =>
            \E m \in Live(rt) : rt.cellId[m] = c

(* A run that ended without an error has seen the output its request        *)
(* printed, whatever the order of reply and idle, unless the socket was     *)
(* lost under it.                                                           *)
OutputsComplete == hist.normal \ hist.cut \subseteq hist.seen

(* A cell never shows the output of two runs mixed.                         *)
OutputsOfOneRun == \A c \in Cells : \A m, n \in outputs[c] : m = n

(* The kernel is never shown as busy with nothing running.                  *)
BusyHasRun ==
    rt.execState = "busy" => \/ \E m \in Msgs : run[m].pc # "off"
                             \/ \E a \in Callers : all[a].pc # "off"

(* runCell refuses to send while the kernel is busy with another request    *)
(* (tests/spec/main/dispatcher/exec/run-cell_spec.ts, case (j)): a request  *)
(* is sent only after every other one sent has been seen to end.            *)
OneAtATime ==
    [][\A m \in Sent' \ Sent : \A n \in Sent \ {m} : run[n].idle]_vars

(* A restart that succeeds clears the cell states because no request is     *)
(* registered any more (kernel/restart.ts:218): true if no cell is run      *)
(* during the restart.                                                      *)
RestartFindsNoRequest ==
    [][\A r \in Restarters :
         restart[r].pc = "info" /\ restart'[r].pc = "off" /\ sock' = "open"
            => Live(rt) = {}]_vars

(* Whatever the order of reply and idle, and through any restart, a run     *)
(* ends: the generator returns or throws and the finally block runs.  A     *)
(* runAll call ends too, also when an entry fails, is cancelled or is       *)
(* aborted by a restart.  Only a run whose socket was lost, or was not open *)
(* when it sent, may wait forever.                                          *)
EveryRunEnds ==
    /\ \A m \in Msgs : run[m].pc # "off" ~>
           run[m].pc = "off" \/ m \in hist.cut
    /\ \A a \in Callers : all[a].pc # "off" ~>
           all[a].pc = "off" \/ \E m \in hist.cut : run[m].by = a
=============================================================================

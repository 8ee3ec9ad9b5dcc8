------------------------------ MODULE Display ------------------------------
(***************************************************************************)
(* The viewer buffer of a notebook whose kernel is running: the messages   *)
(* of a run are batched by the IopubBatchScheduler                         *)
(* (render/iopub-batch.ts) and drawn from the topmost cell they change     *)
(* (render/partial-render.ts); cell operations (dispatcher/cell/           *)
(* _operator.ts) and BufWinEnter (dispatcher/view.ts) draw the whole.      *)
(*                                                                         *)
(* A step runs from one await to the next.  Promises are resumed before    *)
(* anything else happens and in the order they were awaited in: `resumed`  *)
(* holds the callers of flushNow and dispose that are about to run on.     *)
(***************************************************************************)
EXTENDS RenderPlan, FiniteSets

CONSTANTS
    Start,          \* notebooks a session may open with: sequences of cell ids
    Contents,       \* the cell of each id
    NewCell,        \* the id that insertCell makes
    Messages,       \* messages that change outputs
    MaxWork,        \* bound: runs, messages, operations and other events
    MaxFailures,    \* bound: flushes that fail
    Overlap         \* whether runs, messages and redraws may overlap: see Apart

ASSUME DisplayAssumption ==
    /\ MaxWork \in Nat /\ MaxFailures \in Nat /\ Overlap \in BOOLEAN
    /\ NewCell \in DOMAIN Contents /\ NoCell \notin DOMAIN Contents
    /\ Contents = [id \in DOMAIN Contents |-> Contents[id]]
    /\ \A id \in DOMAIN Contents : IsCell(Contents[id]) /\ Contents[id].id = id
    /\ \A ids \in Start : ids \in Seq(DOMAIN Contents)
    /\ \A m \in Messages : IsOutput(m)

Callers == {"run", "op", "socket", "close"}

VARIABLES
    nb,         \* ids of the cells of session.notebook, in order
    cells,      \* id |-> the cell: operations share the cells they keep
    plan,       \* the cached RenderPlan of the session
    buf,        \* lines of the viewer buffer
    visible,    \* bufwinid # -1
    failed,     \* auxiliary: a flush has failed since the whole was drawn
    queue,      \* cell ids of the messages to draw
    timer,
    flush,      \* _flushingPromise
    disposed,
    awaiting,   \* callers that await the flush in flight
    resumed,    \* callers whose await is over
    run,        \* the run of a cell
    op,         \* the cell operation
    show,       \* onBufWinEnter
    runs, work, failures

sched == <<queue, timer, flush, disposed, awaiting, resumed>>
session == <<nb, cells, plan>>
viewer == <<buf, visible, failed>>
users == <<run, op, show>>
bounds == <<runs, work, failures>>
vars == <<sched, session, viewer, users, bounds>>

NoFlush == [pc |-> "none", ids |-> {}, nb |-> <<>>, svgs |-> {}, plan |-> <<>>]
NoRun == [pc |-> "off", cell |-> NoCell, heard |-> FALSE]
NoOp == [pc |-> "off", before |-> <<>>, old |-> NoCell, nb |-> <<>>,
         prefer |-> NoCell, plan |-> <<>>, under |-> NoCell]
NoShow == [pc |-> "off", plan |-> <<>>]

Notebook(ids) == [i \in DOMAIN ids |-> cells[ids[i]]]
PlanOf(ids, pngs) == buildRenderPlan(Notebook(ids), pngs)

(* The pictures when every conversion has succeeded.                        *)
AllPngs(ids) ==
    [p \in SvgTargets(Notebook(ids)) |-> Svg(Notebook(ids), p)]

Init ==
    /\ nb \in Start
    /\ cells = Contents
    /\ plan = PlanOf(nb, AllPngs(nb))
    /\ buf = plan.lines
    /\ visible = TRUE /\ failed = FALSE
    /\ queue = <<>> /\ timer = FALSE /\ flush = NoFlush /\ disposed = FALSE
    /\ awaiting = <<>> /\ resumed = <<>>
    /\ run = NoRun /\ op = NoOp /\ show = NoShow
    /\ runs = 0 /\ work = 0 /\ failures = 0

Spend == work < MaxWork /\ work' = work + 1

-----------------------------------------------------------------------------
(* IopubBatchScheduler.                                                     *)

Enqueue(id) ==
    /\ queue' = IF disposed THEN queue ELSE Append(queue, id)
    /\ timer' = (timer \/ (~disposed /\ flush.pc = "none"))

(* _doFlush when no flush is in flight and the queue is `q`: _runFlush up   *)
(* to its first await, with the caller among those who wait for it.         *)
DoFlush(q, waiting) ==
    /\ timer' = FALSE
    /\ IF q = <<>>
       THEN UNCHANGED <<queue, flush, awaiting>>
       ELSE /\ queue' = <<>>
            /\ flush' = [NoFlush EXCEPT !.pc = "winid", !.ids = ToSet(q)]
            /\ awaiting' = waiting

Waiter(w, last) == [who |-> w, last |-> last]

(* flushNow: `last` is TRUE for the await on its own _doFlush, after which  *)
(* it returns.                                                              *)
FlushNow(w) ==
    IF flush.pc # "none"
    THEN /\ awaiting' = Append(awaiting, Waiter(w, FALSE))
         /\ UNCHANGED <<queue, timer, flush>>
    ELSE DoFlush(queue, <<Waiter(w, TRUE)>>)

Waiting(w) == \E s \in {awaiting, resumed} : \E i \in DOMAIN s : s[i].who = w

TimerFires ==
    /\ resumed = <<>> /\ timer
    /\ IF flush.pc # "none" THEN timer' = FALSE /\ UNCHANGED <<queue, flush, awaiting>>
       ELSE DoFlush(queue, <<>>)
    /\ UNCHANGED <<disposed, resumed, session, viewer, users, bounds>>

(* The caller at the head of `resumed` runs on: it returns, or calls        *)
(* _doFlush, which returns at once if another caller has started a flush.   *)
Resume ==
    /\ resumed # <<>>
    /\ resumed' = Tail(resumed)
    /\ IF Head(resumed).last \/ flush.pc # "none"
       THEN UNCHANGED <<queue, timer, flush, awaiting>>
       ELSE DoFlush(queue, Append(awaiting, Waiter(Head(resumed).who, TRUE)))
    /\ UNCHANGED <<disposed, session, viewer, users, bounds>>

BugNoReschedule ==
    /\ flush' = NoFlush
    /\ UNCHANGED timer
    /\ resumed' = awaiting /\ awaiting' = <<>>
    /\ UNCHANGED <<queue, disposed>>

BugOneWaiter ==
    /\ flush' = NoFlush
    /\ timer' = (timer \/ (~disposed /\ queue # <<>>))
    /\ resumed' = (IF awaiting = <<>> THEN <<>> ELSE <<Last(awaiting)>>)
    /\ awaiting' = (IF awaiting = <<>> THEN <<>> ELSE Front(awaiting))
    /\ UNCHANGED <<queue, disposed>>

(* The finally block of _runFlush.                                          *)
EndFlush ==
    /\ flush' = NoFlush
    /\ timer' = (timer \/ (~disposed /\ queue # <<>>))
    /\ resumed' = awaiting /\ awaiting' = <<>>
    /\ UNCHANGED <<queue, disposed>>

(* The buffer is in no window: the batch is dropped.                        *)
FlushHidden ==
    /\ resumed = <<>> /\ flush.pc = "winid" /\ ~visible
    /\ EndFlush
    /\ UNCHANGED <<session, viewer, users, bounds>>

(* Topmost cell of the notebook that the batch is about.                    *)
FromCell(ids) ==
    LET i == SelectInSeq(nb, LAMBDA c : c \in ids)
    IN IF i = 0 THEN NoCell ELSE nb[i]

(* The batch of a plan, built now from `ids` and the conversions `pngs`.    *)
DrawPart(ids, from, pngs) ==
    LET p == PlanOf(ids, pngs)
    IN /\ buf' = applyRenderPlan(buf, p, from)
       /\ flush' = [flush EXCEPT !.pc = "hook", !.plan = p]
       /\ UNCHANGED <<visible, failed>>

FlushBuild ==
    LET svgs == SvgTargets(Notebook(nb))
    IN /\ resumed = <<>> /\ flush.pc = "winid" /\ visible
       /\ IF svgs = {} THEN DrawPart(nb, FromCell(flush.ids), <<>>)
          ELSE /\ flush' = [flush EXCEPT !.pc = "svg", !.nb = nb,
                                         !.svgs = AllPngs(nb),
                                         !.ids = {FromCell(flush.ids)}]
               /\ UNCHANGED viewer
       /\ UNCHANGED <<queue, timer, disposed, awaiting, resumed, session, users, bounds>>

(* Pictures are given to the outputs that are now at their places.          *)
FlushSvg ==
    LET places == {p \in DOMAIN flush.svgs :
                      LET merged == mergeStreams(cells[flush.nb[p[1]]].outputs)
                      IN p[2] \in DOMAIN merged /\ merged[p[2]].kind = "data"}
    IN /\ resumed = <<>> /\ flush.pc = "svg"
       /\ \E from \in flush.ids :
             DrawPart(flush.nb, from, [p \in places |-> flush.svgs[p]])
       /\ UNCHANGED <<queue, timer, disposed, awaiting, resumed, session, users, bounds>>

(* onPlanApplied.                                                           *)
FlushHook ==
    /\ resumed = <<>> /\ flush.pc = "hook"
    /\ plan' = flush.plan
    /\ EndFlush
    /\ UNCHANGED <<nb, cells, viewer, users, bounds>>

(* The batch is refused: the error is swallowed.                            *)
FlushFails ==
    /\ resumed = <<>> /\ flush.pc \in {"winid", "svg"}
    /\ failures < MaxFailures /\ failures' = failures + 1
    /\ failed' = TRUE
    /\ EndFlush
    /\ UNCHANGED <<session, buf, visible, users, runs, work>>

-----------------------------------------------------------------------------
(* A run (dispatcher/exec/run-cell.ts).                                     *)

(* What the code does not rule out, and Overlap = FALSE does: that anything *)
(* happens to a run while the whole is redrawn, that a redraw begins while  *)
(* a batch is drawn or waited for, that a run clears outputs while a batch  *)
(* of the run before it is due, and that a run ends before its first        *)
(* message, with the outputs it cleared still on the screen.                *)
Redraws == op.pc # "off" \/ show.pc # "off"
Apart == Overlap \/ ~Redraws

RunStart ==
    /\ resumed = <<>> /\ run.pc = "off" /\ ~disposed /\ Apart /\ Spend
    /\ Overlap \/ (queue = <<>> /\ flush.pc = "none")
    /\ \E id \in ToSet(nb) :
          /\ cells[id].type = "code"
          /\ cells' = [cells EXCEPT ![id].outputs = <<>>]
          /\ run' = [pc |-> "on", cell |-> id, heard |-> FALSE]
    /\ runs' = runs + 1
    /\ UNCHANGED <<sched, nb, plan, viewer, op, show, failures>>

applyMessageToCell(c, m) ==
    IF m.kind = "input" THEN [c EXCEPT !.count = m.count]
    ELSE [c EXCEPT !.outputs = Merge(@, m)]

(* The loop over the messages is not in the middle of one.                  *)
Hears == run.pc \in {"on", "replied"} /\ ~Waiting("run")

(* execute_input, and whatever has outputs.                                 *)
RunMessage ==
    /\ resumed = <<>> /\ Hears /\ Apart /\ Spend
    /\ \E m \in Messages \cup {[kind |-> "input", count |-> runs]} :
          cells' = [cells EXCEPT ![run.cell] = applyMessageToCell(@, m)]
    /\ Enqueue(run.cell)
    /\ run' = [run EXCEPT !.heard = TRUE]
    /\ UNCHANGED <<flush, disposed, awaiting, resumed, nb, plan, viewer, op, show,
                   runs, failures>>

(* A message is queued, then flushNow is awaited.                           *)
FlushAfter(pc) ==
    LET q == IF disposed THEN queue ELSE Append(queue, run.cell)
    IN /\ resumed = <<>> /\ Hears /\ Apart
       /\ IF flush.pc # "none"
          THEN /\ queue' = q
               /\ awaiting' = Append(awaiting, Waiter("run", FALSE))
               /\ UNCHANGED <<timer, flush>>
          ELSE DoFlush(q, <<Waiter("run", TRUE)>>)
       /\ run' = [run EXCEPT !.pc = pc, !.heard = TRUE]
       /\ UNCHANGED <<disposed, resumed, session, viewer, op, show, bounds>>

(* execute_reply, and status: idle, the last message.                       *)
RunReply == run.pc = "on" /\ FlushAfter("replied")
RunIdle == FlushAfter("idle")

RunEnds ==
    /\ resumed = <<>> /\ run.pc = "idle" /\ ~Waiting("run")
    /\ run' = NoRun
    /\ UNCHANGED <<sched, session, viewer, op, show, bounds>>

(* AbortError: the run ends without a flush.                                *)
RunAborted ==
    /\ resumed = <<>> /\ Hears /\ (Overlap \/ run.heard)
    /\ run' = NoRun
    /\ UNCHANGED <<sched, session, viewer, op, show, bounds>>

(* The WebSocket closes (kernel/ws-reconnect.ts); the run goes on once it   *)
(* is open again.                                                           *)
SocketClose ==
    /\ resumed = <<>> /\ run.pc \in {"on", "replied"} /\ ~Waiting("socket")
    /\ Apart /\ Spend
    /\ FlushNow("socket")
    /\ UNCHANGED <<disposed, resumed, session, viewer, users, runs, failures>>

(* shutdownKernel.                                                          *)
Dispose ==
    /\ resumed = <<>> /\ ~disposed /\ Apart /\ run.pc = "off" /\ Spend
    /\ disposed' = TRUE
    /\ IF flush.pc # "none"
       THEN /\ awaiting' = Append(awaiting, Waiter("close", FALSE))
            /\ timer' = FALSE
            /\ UNCHANGED <<queue, flush>>
       ELSE DoFlush(queue, <<Waiter("close", TRUE)>>)
    /\ UNCHANGED <<resumed, session, viewer, users, runs, failures>>

-----------------------------------------------------------------------------
(* A cell operation (operateCell): it flushes, reads where the cursor is,   *)
(* changes the notebook, stores it with its plan, draws and puts the cursor *)
(* back.                                                                    *)

OpBegin ==
    /\ resumed = <<>> /\ op.pc = "off" /\ Spend
    /\ Overlap \/ (show.pc = "off" /\ awaiting = <<>>)
    /\ FlushNow("op")
    /\ op' = [NoOp EXCEPT !.pc = "flush"]
    /\ UNCHANGED <<disposed, resumed, session, viewer, run, show, runs, failures>>

OpFlushed ==
    /\ resumed = <<>> /\ op.pc = "flush" /\ ~Waiting("op")
    /\ op' = [op EXCEPT !.pc = "cursor", !.before = plan.ranges]
    /\ UNCHANGED <<sched, session, viewer, run, show, bounds>>

MovedUp(i) == [nb EXCEPT ![i] = nb[i - 1], ![i - 1] = nb[i]]

(* What insertCell, deleteCell and moveCell make of the notebook, and the   *)
(* cell they would have the cursor in.                                      *)
Mutations ==
    {<<InsertAt(nb, i, NewCell), NewCell>> :
        i \in IF NewCell \in ToSet(nb) \cup {run.cell} THEN {} ELSE 1 .. Len(nb) + 1}
    \cup {<<RemoveAt(nb, i), NoCell>> : i \in 1 .. Len(nb)}
    \cup {<<MovedUp(i), nb[i]>> : i \in 2 .. Len(nb)}

(* The cursor may be in any line; a hidden buffer counts as its first.      *)
OpMutate ==
    /\ resumed = <<>> /\ op.pc = "cursor"
    /\ \E l \in IF visible THEN DOMAIN buf ELSE {1}, m \in Mutations :
          op' = [op EXCEPT !.pc = "build", !.old = lineToCellId(op.before, l),
                           !.nb = m[1], !.prefer = m[2],
                           !.under = IF failed THEN NoCell ELSE buf[l].cell]
    /\ UNCHANGED <<sched, session, viewer, run, show, bounds>>

OpCommit ==
    /\ resumed = <<>> /\ op.pc = "build"
    /\ LET p == PlanOf(op.nb, AllPngs(op.nb))
       IN /\ nb' = op.nb /\ plan' = p
          /\ op' = [op EXCEPT !.pc = "draw", !.plan = p]
    /\ UNCHANGED <<sched, cells, viewer, run, show, bounds>>

OpDraw ==
    /\ resumed = <<>> /\ op.pc = "draw"
    /\ buf' = applyRenderPlan(buf, op.plan, NoCell) /\ failed' = FALSE
    /\ op' = [op EXCEPT !.pc = "restore"]
    /\ UNCHANGED <<sched, session, visible, run, show, bounds>>

OpRestore ==
    /\ resumed = <<>> /\ op.pc = "restore"
    /\ op' = NoOp
    /\ UNCHANGED <<sched, session, viewer, run, show, bounds>>

(* The buffer leaves its window, and comes back (onBufWinEnter).            *)
Hide ==
    /\ resumed = <<>> /\ visible /\ show.pc = "off" /\ Spend
    /\ visible' = FALSE
    /\ UNCHANGED <<sched, session, buf, failed, users, runs, failures>>

Show ==
    /\ resumed = <<>> /\ ~visible /\ show.pc = "off"
    /\ Overlap \/ (op.pc = "off" /\ flush.pc = "none" /\ queue = <<>>)
    /\ visible' = TRUE
    /\ show' = [show EXCEPT !.pc = "build"]
    /\ UNCHANGED <<sched, session, buf, failed, run, op, bounds>>

ShowBuild ==
    /\ resumed = <<>> /\ show.pc = "build"
    /\ plan' = PlanOf(nb, AllPngs(nb))
    /\ show' = [pc |-> "draw", plan |-> plan']
    /\ UNCHANGED <<sched, nb, cells, viewer, run, op, bounds>>

ShowDraw ==
    /\ resumed = <<>> /\ show.pc = "draw"
    /\ buf' = applyRenderPlan(buf, show.plan, NoCell) /\ failed' = FALSE
    /\ show' = NoShow
    /\ UNCHANGED <<sched, session, visible, run, op, bounds>>

Scheduler ==
    \/ TimerFires \/ Resume \/ FlushHidden \/ FlushBuild \/ FlushSvg \/ FlushHook
    \/ FlushFails

Redraw == \/ OpFlushed \/ OpMutate \/ OpCommit \/ OpDraw \/ OpRestore
          \/ ShowBuild \/ ShowDraw

Next ==
    \/ Scheduler \/ Redraw
    \/ RunStart \/ RunMessage \/ RunReply \/ RunIdle \/ RunEnds \/ RunAborted
    \/ SocketClose \/ Dispose \/ OpBegin \/ Hide \/ Show

Spec == Init /\ [][Next]_vars

(* When Scheduler and Redraw are enabled.  (ENABLED would have TLC build     *)
(* the plan of every step it tries.)                                        *)
SchedulerReady == resumed # <<>> \/ timer \/ flush.pc # "none"
RedrawReady ==
    /\ resumed = <<>>
    /\ \/ show.pc # "off"
       \/ op.pc = "flush" /\ ~Waiting("op")
       \/ op.pc = "cursor" /\ Mutations # {}
       \/ op.pc \in {"build", "draw", "restore"}

(* The event loop runs every timer and every promise; Vim answers; the      *)
(* kernel ends every run.                                                   *)
FairSpec ==
    /\ Spec
    /\ []<>~SchedulerReady \/ []<><<Scheduler>>_vars
    /\ []<>~RedrawReady \/ []<><<Redraw>>_vars
    /\ WF_vars(RunIdle) /\ WF_vars(RunEnds)

-----------------------------------------------------------------------------
Scheduled == [pc : {"none", "winid", "svg", "hook"}, ids : SUBSET DOMAIN Contents]

(* The shape of the state of the scheduler and of its users.                *)
TypeOK ==
    /\ nb \in Seq(DOMAIN Contents) /\ DOMAIN cells = DOMAIN Contents
    /\ queue \in Seq(DOMAIN Contents) /\ timer \in BOOLEAN /\ disposed \in BOOLEAN
    /\ [pc |-> flush.pc, ids |-> flush.ids] \in Scheduled
    /\ run.pc \in {"off", "on", "replied", "idle"} /\ visible \in BOOLEAN
    /\ op.pc \in {"off", "flush", "cursor", "build", "draw", "restore"}

Quiet ==
    /\ run.pc = "off" /\ op.pc = "off" /\ show.pc = "off" /\ flush.pc = "none"
    /\ queue = <<>> /\ awaiting = <<>> /\ resumed = <<>>

Drawing == flush.pc = "hook" \/ op.pc = "draw" \/ show.pc = "draw"

(* No message is stranded: as long as the scheduler is in use, one that is  *)
(* queued has a timer, or a flush whose end sets one, whichever of the      *)
(* timer, the run, the socket and an operation has flushed in between.      *)
NoStrand == queue # <<>> /\ ~disposed => timer \/ flush.pc # "none"

(* The cached plan, which tells cells from lines for every command, is that *)
(* of the lines in the buffer, except while these are being replaced; and   *)
(* when nothing is going on, a visible buffer shows the notebook as it is,  *)
(* though all but the last drawing replaced only the lines from the topmost *)
(* changed cell on, and batches were dropped while the buffer was hidden.   *)
Shown ==
    /\ ~Drawing /\ ~failed => buf = plan.lines
    /\ Quiet /\ visible /\ ~failed => buf = PlanOf(nb, AllPngs(nb)).lines

(* A traceback frame that is shown as leading somewhere is on the line that *)
(* shows it, and jumpToTraceback leads from it to the source line it names, *)
(* of a cell with the count it names, after any operation and truncation.   *)
FrameLands(c) ==
    LET t == JumpTarget(Notebook(nb), plan, c.line + 1)
    IN /\ buf[c.line + 1].what = <<c.jump.count, c.jump.line>>
       /\ t \in DOMAIN buf /\ buf[t].part = "source" /\ buf[t].at = c.jump.line
       /\ cells[buf[t].cell].count = c.jump.count
       /\ [click |-> c, lnum |-> t] \in populateTracebackQflist(Notebook(nb), plan)

(* The command on the placeholder of an image opens that image: the place   *)
(* it names counts the outputs as they are merged when it is drawn.         *)
PreviewFound(c) ==
    /\ buf[c.line + 1].what = <<c.jump.rows>>
    /\ previewOutput(Notebook(nb), c.jump.place) = {c.jump.rows}

(* What the user may follow leads where it says (view/traceback-jump.ts,    *)
(* dispatcher/view.ts).                                                     *)
ClicksLand ==
    Quiet /\ visible /\ ~failed =>
        \A c \in plan.clicks :
            /\ c.jump.kind = "cell" /\ c \notin plan.missing => FrameLands(c)
            /\ c.jump.kind = "image" => PreviewFound(c)

(* An operation on other cells leaves the cursor in the cell it was in,     *)
(* however that cell has moved.                                             *)
CursorKept ==
    op.pc = "restore" /\ op.prefer = NoCell /\ op.under \in ToSet(nb) =>
        buf[RestoredLine(op.old, op.before, op.plan.ranges, op.prefer)].cell = op.under

(* Whoever awaits flushNow or dispose goes on, though flushes fail, find    *)
(* the buffer hidden, or leave behind messages that came meanwhile.         *)
EveryCallerReturns == \A w \in Callers : Waiting(w) ~> ~Waiting(w)
=============================================================================

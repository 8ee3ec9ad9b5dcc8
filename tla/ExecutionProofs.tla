-------------------------- MODULE ExecutionProofs --------------------------
(***************************************************************************)
(* Invariants of Execution, for every notebook, any number of requests,    *)
(* calls, restarts and socket losses.  The last part assumes no race.      *)
(***************************************************************************)
EXTENDS Execution, TLAPS, FiniteSetTheorems

(* What SentHasRun and AbortedUnregistered need to be inductive: an id not  *)
(* handed out yet belongs to no run and no entry, and no run is newer than  *)
(* the current generation.                                                  *)
Generations ==
    /\ \A m \in Msgs : m >= nextMsg => /\ run[m].pc = "off"
                                      /\ rt.pendingRequests[m] = "none"
    /\ \A m \in Msgs : run[m].epoch <= epoch

IInv == TypeOK /\ OneRunPerCall /\ Generations /\ SentHasRun /\ AbortedUnregistered

(***************************************************************************)
(* The functions of session/pending-requests.ts map runtimes to runtimes.  *)
(***************************************************************************)
LEMMA RuntimeFunctions ==
    ASSUME NEW r \in Runtime, NEW m \in Msgs, NEW c \in Cells
    PROVE  /\ Enqueue(r, m, c) \in Runtime
           /\ MarkSent(r, m) \in Runtime
           /\ Complete(r, m) \in Runtime
           /\ CancelQueued(r, m) \in Runtime
           /\ AbortAll(r) \in Runtime
           /\ Settle(r) \in Runtime
<1>1. Enqueue(r, m, c) \in Runtime
  BY DEF Enqueue, Runtime, CellState
<1>2. MarkSent(r, m) \in Runtime
  BY DEF MarkSent, Runtime, CellState
<1>3. Complete(r, m) \in Runtime
  BY DEF Complete, Runtime, CellState
<1>4. CancelQueued(r, m) \in Runtime
  BY DEF CancelQueued, Runtime, CellState
<1>5. AbortAll(r) \in Runtime
  BY DEF AbortAll, Runtime, CellState
<1>6. Settle(r) \in Runtime
  BY DEF Settle, Runtime
<1> QED BY <1>1, <1>2, <1>3, <1>4, <1>5, <1>6

LEMMA DropRestRuntime ==
    ASSUME NEW r \in Runtime, NEW mids
    PROVE  DropRest(r, mids) \in Runtime
BY DEF DropRest, Runtime, CellState

LEMMA InitIInv == Init => IInv
<1> SUFFICES ASSUME Init PROVE IInv OBVIOUS
<1>1. (CHOOSE c \in Cells : TRUE) \in Cells
  BY ExecutionAssumption
<1>2. NoRun \in RunType
  BY DEF NoRun, RunType
<1>3. AllOff \in AllType
  BY DEF AllOff, AllType
<1>4. rt \in Runtime
  BY <1>1 DEF Init, Runtime, CellState
<1>5. TypeOK
  BY <1>2, <1>3, <1>4 DEF Init, TypeOK, NoKernel
<1>6. OneRunPerCall /\ Generations /\ SentHasRun /\ AbortedUnregistered
  BY DEF Init, OneRunPerCall, Generations, SentHasRun, Sent, AbortedUnregistered,
         NoRun, AllOff
<1> QED BY <1>5, <1>6 DEF IInv

(***************************************************************************)
(* The environment and the network side of a restart touch neither the     *)
(* runtime nor the runs.                                                   *)
(***************************************************************************)
LEMMA EnvironmentStep ==
    ASSUME IInv,
           UNCHANGED <<nextMsg, run, all, epoch>>,
           rt' \in Runtime, rt'.pendingRequests = rt.pendingRequests,
           TypeOK'
    PROVE  IInv'
<1>1. OneRunPerCall'
  BY DEF IInv, OneRunPerCall
<1>2. Generations'
  BY DEF IInv, Generations
<1>3. SentHasRun' /\ AbortedUnregistered'
  BY DEF IInv, SentHasRun, Sent, AbortedUnregistered, Aborted
<1> QED BY <1>1, <1>2, <1>3 DEF IInv

LEMMA NoKernelType == NoKernel \in [queue : Seq(Msgs), printed : BOOLEAN]
<1>1. <<>> \in Seq(Msgs)
  OBVIOUS
<1> QED BY <1>1 DEF NoKernel

(* Losing a socket empties both channels and is recorded.                   *)
LEMMA LostTypes ==
    ASSUME TypeOK, Lost, Cut
    PROVE  /\ iopub' \in Seq(Frames) /\ shell' \in Seq(Frames)
           /\ hist' \in [normal : SUBSET Msgs, seen : SUBSET Msgs, cut : SUBSET Msgs]
<1>1. <<>> \in Seq(Frames)
  OBVIOUS
<1>2. hist \in [normal : SUBSET Msgs, seen : SUBSET Msgs, cut : SUBSET Msgs]
  BY DEF TypeOK
<1>3. {m \in Msgs : run[m].pc # "off"} \in SUBSET Msgs
  OBVIOUS
<1>4. hist' \in [normal : SUBSET Msgs, seen : SUBSET Msgs, cut : SUBSET Msgs]
  BY <1>2, <1>3 DEF Cut
<1> QED BY <1>1, <1>4 DEF Lost

LEMMA KernelSteps ==
    ASSUME IInv, KernelPrint \/ KernelAnswer
    PROVE  IInv'
<1> USE DEF IInv
<1>1. /\ UNCHANGED <<rt, nextMsg, run, all, epoch, restart, sock, drops, outputs, hist>>
      /\ kernel.queue # <<>>
  BY DEF KernelPrint, KernelAnswer
<1>2. kernel \in [queue : Seq(Msgs), printed : BOOLEAN] /\ iopub \in Seq(Frames)
        /\ shell \in Seq(Frames)
  BY DEF TypeOK
<1>3. Head(kernel.queue) \in Msgs /\ Tail(kernel.queue) \in Seq(Msgs)
  BY <1>1, <1>2
<1>4. /\ [msg |-> Head(kernel.queue), type |-> "out"] \in Frames
      /\ [msg |-> Head(kernel.queue), type |-> "idle"] \in Frames
      /\ \A s \in {"ok", "error"} :
           [msg |-> Head(kernel.queue), type |-> "reply", status |-> s] \in Frames
  BY <1>3 DEF Frames
<1>5. iopub' \in Seq(Frames) /\ shell' \in Seq(Frames)
  <2>1. CASE KernelPrint BY <2>1, <1>2, <1>4 DEF KernelPrint, Emit
  <2>2. CASE KernelAnswer BY <2>2, <1>2, <1>4 DEF KernelAnswer, Emit
  <2> QED BY <2>1, <2>2
<1>6. kernel' \in [queue : Seq(Msgs), printed : BOOLEAN]
  <2>1. CASE KernelPrint BY <2>1, <1>2 DEF KernelPrint
  <2>2. CASE KernelAnswer BY <2>2, <1>3 DEF KernelAnswer
  <2> QED BY <2>1, <2>2
<1>7. TypeOK'
  BY <1>1, <1>5, <1>6 DEF TypeOK
<1> QED BY <1>1, <1>7, EnvironmentStep DEF TypeOK

LEMMA SocketSteps ==
    ASSUME IInv, SocketLost \/ SocketBack("open") \/ SocketBack("closed")
    PROVE  IInv'
<1>1. TypeOK'
  BY LostTypes DEF IInv, TypeOK, SocketLost, SocketBack
<1>2. UNCHANGED <<rt, nextMsg, run, all, epoch>>
  BY DEF SocketLost, SocketBack
<1> QED BY <1>1, <1>2, EnvironmentStep DEF IInv, TypeOK

LEMMA RestartSteps ==
    ASSUME IInv, NEW r \in Restarters, RestartStep(r)
    PROVE  IInv'
<1> USE DEF IInv
<1>1. CASE RestartRefused(r)
  <2>1. rt' \in Runtime /\ rt'.pendingRequests = rt.pendingRequests
    BY <1>1 DEF RestartRefused, TypeOK, Runtime
  <2>2. TypeOK'
    BY <1>1, <2>1 DEF RestartRefused, TypeOK, MoveTo, envVars
  <2> QED BY <1>1, <2>1, <2>2, EnvironmentStep DEF RestartRefused
<1>2. CASE RestartThrows(r)
  <2>1. rt' \in Runtime /\ rt'.pendingRequests = rt.pendingRequests
    BY <1>2 DEF RestartThrows, TypeOK, Runtime
  <2>2. TypeOK'
    BY <1>2, <2>1, NoKernelType DEF RestartThrows, TypeOK, MoveTo
  <2> QED BY <1>2, <2>1, <2>2, EnvironmentStep DEF RestartThrows
<1>3. CASE RestartAccepted(r)
  <2>1. TypeOK'
    BY <1>3, LostTypes, NoKernelType DEF RestartAccepted, TypeOK, MoveTo
  <2> QED BY <1>3, <2>1, EnvironmentStep DEF RestartAccepted, TypeOK
<1>4. CASE RestartReopened(r)
  <2>1. TypeOK'
    BY <1>4 DEF RestartReopened, TypeOK, MoveTo
  <2> QED BY <1>4, <2>1, EnvironmentStep DEF RestartReopened, TypeOK
<1>5. CASE RestartDone(r)
  <2>1. rt' \in Runtime /\ rt'.pendingRequests = rt.pendingRequests
    BY <1>5 DEF RestartDone, TypeOK, Runtime, CellState
  <2>2. TypeOK'
    BY <1>5, <2>1 DEF RestartDone, TypeOK, MoveTo, envVars
  <2> QED BY <1>5, <2>1, <2>2, EnvironmentStep DEF RestartDone
<1>6. CASE RestartUnanswered(r)
  <2>1. rt' \in Runtime /\ rt'.pendingRequests = rt.pendingRequests
    BY <1>6 DEF RestartUnanswered, TypeOK, Runtime
  <2>2. TypeOK'
    BY <1>6, <2>1, LostTypes DEF RestartUnanswered, TypeOK, MoveTo
  <2> QED BY <1>6, <2>1, <2>2, EnvironmentStep DEF RestartUnanswered
<1> QED BY <1>1, <1>2, <1>3, <1>4, <1>5, <1>6 DEF RestartStep

(* Opening a generation empties pendingRequests, so nothing of an older one *)
(* is registered.                                                           *)
LEMMA RestartBeginStep ==
    ASSUME IInv, NEW r \in Restarters, RestartBegin(r)
    PROVE  IInv'
<1> USE DEF IInv
<1>1. \A m \in Msgs : rt'.pendingRequests[m] = "none"
  BY DEF RestartBegin, AbortAll, TypeOK, Runtime
<1>2. rt' \in Runtime
  <2>1. AbortAll(rt) \in Runtime
    BY DEF AbortAll, TypeOK, Runtime, CellState
  <2> QED BY <2>1 DEF RestartBegin, Runtime
<1>3. run' \in [Msgs -> RunType]
  <2>1. ASSUME NEW m \in Msgs
        PROVE  run[m] \in RunType /\ [run[m] EXCEPT !.pc = "resume"] \in RunType
    <3>1. run[m] \in RunType
      BY DEF TypeOK
    <3> QED BY <3>1 DEF RunType
  <2> QED BY <2>1 DEF RestartBegin
<1>4. TypeOK'
  BY <1>2, <1>3 DEF RestartBegin, TypeOK, MoveTo, envVars
<1>5. \A m \in Msgs : /\ run'[m].by = run[m].by /\ run'[m].epoch = run[m].epoch
                      /\ run'[m].pc = "off" <=> run[m].pc = "off"
  BY DEF RestartBegin, TypeOK, RunType
<1>6. OneRunPerCall'
  BY <1>5 DEF RestartBegin, OneRunPerCall
<1>7. Generations'
  <2>1. epoch' = epoch + 1 /\ nextMsg' = nextMsg /\ epoch \in Nat
    BY DEF RestartBegin, TypeOK
  <2>2. \A m \in Msgs : run[m].epoch \in Nat
    BY DEF TypeOK, RunType
  <2>3. \A m \in Msgs : run'[m].epoch <= epoch'
    BY <1>5, <2>1, <2>2 DEF Generations
  <2>4. \A m \in Msgs : m >= nextMsg' => run'[m].pc = "off"
    BY <1>5, <2>1 DEF Generations
  <2> QED BY <1>1, <2>3, <2>4 DEF Generations
<1>8. SentHasRun' /\ AbortedUnregistered'
  BY <1>1 DEF SentHasRun, Sent, AbortedUnregistered
<1> QED BY <1>4, <1>6, <1>7, <1>8

(***************************************************************************)
(* Starting a run for m: whoever calls it, m has been handed out and the   *)
(* other entries are as they were.                                         *)
(***************************************************************************)
LEMMA StartRunStep ==
    ASSUME IInv,
           NEW r \in Runtime, NEW m \in Msgs, NEW c \in Cells,
           NEW by \in Callers \cup {"cell"},
           \A n \in Msgs \ {m} : r.pendingRequests[n] = rt.pendingRequests[n],
           StartRun(r, m, c, by),
           epoch' = epoch, nextMsg' \in Nat \ {0}, nextMsg <= nextMsg', m < nextMsg'
    PROVE  /\ rt' \in Runtime /\ run' \in [Msgs -> RunType]
           /\ hist' \in [normal : SUBSET Msgs, seen : SUBSET Msgs, cut : SUBSET Msgs]
           /\ kernel' \in [queue : Seq(Msgs), printed : BOOLEAN]
           /\ outputs' \in [Cells -> SUBSET Msgs]
           /\ Generations' /\ SentHasRun' /\ AbortedUnregistered'
<1> USE DEF IInv
<1>1. rt' \in Runtime
  BY RuntimeFunctions DEF StartRun
<1>2. NewRun(by) \in RunType /\ NewRun(by).epoch = epoch
        /\ NewRun(by).pc = "wait"
  <2>1. <<>> \in Seq(Frames) /\ epoch \in Nat
    BY DEF TypeOK
  <2> QED BY <2>1 DEF NewRun, NoRun, RunType
<1>3. run \in [Msgs -> RunType] /\ run' = [run EXCEPT ![m] = NewRun(by)]
  BY DEF TypeOK, StartRun
<1>4. run' \in [Msgs -> RunType]
  BY <1>2, <1>3
<1>5. kernel' \in [queue : Seq(Msgs), printed : BOOLEAN]
  <2>1. kernel \in [queue : Seq(Msgs), printed : BOOLEAN]
    BY DEF TypeOK
  <2>2. Append(kernel.queue, m) \in Seq(Msgs)
    BY <2>1
  <2> QED BY <2>1, <2>2 DEF StartRun, Send
<1>6. outputs' \in [Cells -> SUBSET Msgs]
  BY DEF TypeOK, StartRun
<1>7. /\ rt'.pendingRequests[m] = "sent"
      /\ \A n \in Msgs \ {m} : rt'.pendingRequests[n] = rt.pendingRequests[n]
  BY DEF StartRun, MarkSent, Runtime
<1>8. /\ run'[m] = NewRun(by)
      /\ \A n \in Msgs \ {m} : run'[n] = run[n]
  BY <1>3
<1>9. \A n \in Msgs : n \in Nat
  BY DEF Msgs
<1>10. nextMsg \in Nat /\ epoch \in Nat
  BY DEF TypeOK
<1>11. Generations'
  <2>1. ASSUME NEW n \in Msgs, n >= nextMsg'
        PROVE  run'[n].pc = "off" /\ rt'.pendingRequests[n] = "none"
    <3>1. n # m /\ n >= nextMsg
      BY <2>1, <1>9, <1>10
    <3> QED BY <3>1, <1>7, <1>8 DEF Generations
  <2>2. ASSUME NEW n \in Msgs
        PROVE  run'[n].epoch <= epoch'
    <3>1. CASE n = m
      BY <3>1, <1>2, <1>8, <1>10
    <3>2. CASE n # m
      BY <3>2, <1>8 DEF Generations
    <3> QED BY <3>1, <3>2
  <2> QED BY <2>1, <2>2 DEF Generations
<1>12. SentHasRun'
  BY <1>2, <1>7, <1>8 DEF SentHasRun, Sent
<1>13. AbortedUnregistered'
  <2>1. ASSUME NEW n \in Msgs, run'[n].pc # "off", run'[n].epoch < epoch'
        PROVE  rt'.pendingRequests[n] = "none"
    <3>1. n # m
      BY <2>1, <1>2, <1>8, <1>10
    <3> QED BY <2>1, <3>1, <1>7, <1>8 DEF AbortedUnregistered, Aborted
  <2> QED BY <2>1 DEF AbortedUnregistered, Aborted
<1>14. hist' \in [normal : SUBSET Msgs, seen : SUBSET Msgs, cut : SUBSET Msgs]
  <2>1. hist \in [normal : SUBSET Msgs, seen : SUBSET Msgs, cut : SUBSET Msgs]
    BY DEF TypeOK
  <2> QED BY <2>1 DEF StartRun, Send
<1> QED BY <1>1, <1>4, <1>5, <1>6, <1>11, <1>12, <1>13, <1>14

(* A run that runCell starts leaves the runs of the runAll calls alone.     *)
LEMMA CellRunAlone ==
    ASSUME IInv, NEW m \in Msgs, all' = all,
           run' = [run EXCEPT ![m] = NewRun("cell")]
    PROVE  OneRunPerCall'
<1>1. run \in [Msgs -> RunType]
  BY DEF IInv, TypeOK
<1>2. /\ run'[m].by = "cell"
      /\ \A n \in Msgs \ {m} : run'[n] = run[n]
  BY <1>1 DEF NewRun, NoRun
<1> QED BY <1>2 DEF IInv, OneRunPerCall

LEMMA RunCellQueueStep ==
    ASSUME IInv, NEW c \in Cells, RunCellQueue(c)
    PROVE  IInv'
<1> USE DEF IInv
<1>1. /\ nextMsg \in Msgs /\ rt' = Enqueue(rt, nextMsg, c) /\ nextMsg' = nextMsg + 1
      /\ UNCHANGED <<run, all, epoch, restart, envVars, outputs, hist>>
  BY DEF RunCellQueue
<1>2. rt \in Runtime /\ nextMsg \in Nat \ {0} /\ \A n \in Msgs : n \in Nat
  BY DEF TypeOK, Msgs
<1>3. rt' \in Runtime
  BY <1>1, <1>2, RuntimeFunctions
<1>4. TypeOK'
  BY <1>1, <1>2, <1>3 DEF TypeOK, envVars
<1>5. \A n \in Msgs : rt'.pendingRequests[n] =
                         IF n = nextMsg THEN "queued" ELSE rt.pendingRequests[n]
  BY <1>1, <1>2 DEF Enqueue, Runtime
<1>6. OneRunPerCall'
  BY <1>1 DEF OneRunPerCall
<1>7. Generations'
  <2>1. \A n \in Msgs : n >= nextMsg' => n >= nextMsg /\ n # nextMsg
    BY <1>1, <1>2
  <2> QED BY <1>1, <1>5, <2>1 DEF Generations
<1>8. SentHasRun'
  BY <1>1, <1>5 DEF SentHasRun, Sent
<1>9. AbortedUnregistered'
  <2>1. run[nextMsg].pc = "off"
    BY <1>1, <1>2 DEF Generations
  <2> QED BY <2>1, <1>1, <1>5 DEF AbortedUnregistered, Aborted
<1> QED BY <1>4, <1>6, <1>7, <1>8, <1>9

LEMMA RunCellSendStep ==
    ASSUME IInv, NEW c \in Cells, RunCellSend(c)
    PROVE  IInv'
<1> USE DEF IInv
<1> DEFINE e == Enqueue(Refreshed(c), nextMsg, c)
           r == [e EXCEPT !.execState = "busy"]
<1>1. /\ nextMsg \in Msgs /\ nextMsg' = nextMsg + 1
      /\ StartRun(r, nextMsg, c, "cell")
      /\ UNCHANGED <<all, epoch, restart, sock, drops, iopub, shell>>
  BY DEF RunCellSend
<1>2. rt \in Runtime /\ nextMsg \in Nat \ {0}
  BY DEF TypeOK
<1>3. Refreshed(c) \in Runtime /\ Refreshed(c).pendingRequests = rt.pendingRequests
  BY <1>2 DEF Refreshed, Runtime, CellState
<1>4. e \in Runtime /\ \A n \in Msgs \ {nextMsg} :
                           e.pendingRequests[n] = rt.pendingRequests[n]
  <2>1. e \in Runtime
    BY <1>1, <1>3, RuntimeFunctions
  <2>2. \A q \in Runtime : \A n \in Msgs \ {nextMsg} :
          Enqueue(q, nextMsg, c).pendingRequests[n] = q.pendingRequests[n]
    BY <1>1 DEF Enqueue, Runtime
  <2> QED BY <1>3, <2>1, <2>2
<1>5. r \in Runtime /\ r.pendingRequests = e.pendingRequests
  BY <1>4 DEF Runtime
<1> HIDE DEF r, e
<1>6. /\ rt' \in Runtime /\ run' \in [Msgs -> RunType]
      /\ hist' \in [normal : SUBSET Msgs, seen : SUBSET Msgs, cut : SUBSET Msgs]
      /\ kernel' \in [queue : Seq(Msgs), printed : BOOLEAN]
      /\ outputs' \in [Cells -> SUBSET Msgs]
      /\ Generations' /\ SentHasRun' /\ AbortedUnregistered'
  BY <1>1, <1>2, <1>4, <1>5, StartRunStep
<1>7. TypeOK'
  BY <1>1, <1>2, <1>6 DEF TypeOK
<1>8. OneRunPerCall'
  BY <1>1, CellRunAlone DEF StartRun
<1> QED BY <1>6, <1>7, <1>8

LEMMA RunCellRedispatchStep ==
    ASSUME IInv, NEW c \in Cells, RunCellRedispatch(c)
    PROVE  IInv'
<1> USE DEF IInv
<1> DEFINE r == [rt EXCEPT !.execState = "busy"]
<1>1. PICK m \in Msgs : First(m, Queued(rt, c)) /\ StartRun(r, m, c, "cell")
  BY DEF RunCellRedispatch
<1>2. UNCHANGED <<nextMsg, all, epoch, restart, sock, drops, iopub, shell>>
  BY DEF RunCellRedispatch
<1>3. rt \in Runtime /\ nextMsg \in Nat \ {0} /\ \A n \in Msgs : n \in Nat
  BY DEF TypeOK, Msgs
<1>4. r \in Runtime /\ r.pendingRequests = rt.pendingRequests
  BY <1>3 DEF Runtime
<1>5. m < nextMsg
  BY <1>1, <1>3 DEF First, Queued, Generations
<1> HIDE DEF r
<1>6. /\ rt' \in Runtime /\ run' \in [Msgs -> RunType]
      /\ hist' \in [normal : SUBSET Msgs, seen : SUBSET Msgs, cut : SUBSET Msgs]
      /\ kernel' \in [queue : Seq(Msgs), printed : BOOLEAN]
      /\ outputs' \in [Cells -> SUBSET Msgs]
      /\ Generations' /\ SentHasRun' /\ AbortedUnregistered'
  BY <1>1, <1>2, <1>3, <1>4, <1>5, StartRunStep
<1>7. TypeOK'
  BY <1>2, <1>3, <1>6 DEF TypeOK
<1>8. OneRunPerCall'
  BY <1>1, <1>2, CellRunAlone DEF StartRun
<1> QED BY <1>6, <1>7, <1>8

(***************************************************************************)
(* Steps after which fewer entries are registered.                         *)
(***************************************************************************)
Fewer == \A n \in Msgs : rt'.pendingRequests[n] \in {rt.pendingRequests[n], "none"}

LEMMA FewerStep ==
    ASSUME IInv, Fewer, UNCHANGED <<nextMsg, epoch>>,
           \A n \in Msgs : /\ run'[n].epoch = run[n].epoch
                           /\ run'[n].pc # "off" <=> run[n].pc # "off"
    PROVE  Generations' /\ SentHasRun' /\ AbortedUnregistered'
<1> USE DEF IInv, Fewer
<1>1. Generations'
  BY DEF Generations
<1>2. SentHasRun'
  BY DEF SentHasRun, Sent
<1>3. AbortedUnregistered'
  BY DEF AbortedUnregistered, Aborted
<1> QED BY <1>1, <1>2, <1>3

LEMMA CancelCellStep ==
    ASSUME IInv, NEW c \in Cells, CancelCell(c)
    PROVE  IInv'
<1> USE DEF IInv
<1>1. PICK m \in Msgs : rt' = CancelQueued(rt, m)
  BY DEF CancelCell
<1>2. UNCHANGED <<nextMsg, run, all, epoch, restart, envVars, outputs, hist>>
  BY DEF CancelCell
<1>3. rt \in Runtime
  BY DEF TypeOK
<1>4. rt' \in Runtime
  BY <1>1, <1>3, RuntimeFunctions, ExecutionAssumption
<1>5. TypeOK'
  BY <1>2, <1>4 DEF TypeOK, envVars
<1>6. Fewer
  BY <1>1, <1>3 DEF CancelQueued, Runtime, Fewer
<1>7. OneRunPerCall'
  BY <1>2 DEF OneRunPerCall
<1> QED BY <1>2, <1>5, <1>6, <1>7, FewerStep

(***************************************************************************)
(* Steps of a run that go on: only its place in the stream changes.        *)
(***************************************************************************)
LEMMA RunGoesOn ==
    ASSUME IInv, UNCHANGED <<nextMsg, all, epoch>>,
           rt'.pendingRequests = rt.pendingRequests,
           \A n \in Msgs : /\ run'[n].by = run[n].by
                           /\ run'[n].epoch = run[n].epoch
                           /\ run'[n].pc # "off" <=> run[n].pc # "off"
    PROVE  OneRunPerCall' /\ Generations' /\ SentHasRun' /\ AbortedUnregistered'
<1> USE DEF IInv
<1>1. OneRunPerCall'
  BY DEF OneRunPerCall
<1>2. Generations' /\ SentHasRun' /\ AbortedUnregistered'
  BY FewerStep DEF Fewer
<1> QED BY <1>1, <1>2

LEMMA ReceiveStep ==
    ASSUME TypeOK, NEW f \in Frames, Receive(f)
    PROVE  /\ run' \in [Msgs -> RunType]
           /\ \A n \in Msgs : /\ run'[n].by = run[n].by
                              /\ run'[n].epoch = run[n].epoch
                              /\ run'[n].pc # "off" <=> run[n].pc # "off"
<1> DEFINE m == f.msg
           g == [run[m] EXCEPT !.reply = @ \/ f.type = "reply",
                               !.idle  = @ \/ f.type = "idle",
                               !.buf   = Append(@, f),
                               !.pc    = IF @ = "wait" THEN "resume" ELSE @]
<1>1. m \in Msgs /\ run \in [Msgs -> RunType] /\ run[m] \in RunType
  BY DEF Frames, TypeOK
<1>2. Append(run[m].buf, f) \in Seq(Frames)
  BY <1>1 DEF RunType
<1>3. g \in RunType
  BY <1>1, <1>2 DEF RunType
<1>4. /\ g.by = run[m].by /\ g.epoch = run[m].epoch
      /\ g.pc # "off" <=> run[m].pc # "off"
  BY <1>1 DEF RunType
<1>5. run' = run \/ run' = [run EXCEPT ![m] = g]
  BY <1>1 DEF Receive, RunType
<1> HIDE DEF g
<1> QED BY <1>1, <1>3, <1>4, <1>5

LEMMA DeliverSteps ==
    ASSUME IInv, DeliverShell \/ DeliverIopub
    PROVE  IInv'
<1> USE DEF IInv
<1>1. iopub \in Seq(Frames) /\ shell \in Seq(Frames)
  BY DEF TypeOK
<1>2. /\ UNCHANGED <<rt, nextMsg, all, epoch, restart, sock, drops, kernel, outputs, hist>>
      /\ iopub' \in Seq(Frames) /\ shell' \in Seq(Frames)
      /\ \E f \in Frames : Receive(f)
  <2>1. CASE DeliverShell
    <3>1. Head(shell) \in Frames /\ Tail(shell) \in Seq(Frames)
      BY <2>1, <1>1 DEF DeliverShell
    <3> QED BY <2>1, <3>1, <1>1 DEF DeliverShell
  <2>2. CASE DeliverIopub
    <3>1. Head(iopub) \in Frames /\ Tail(iopub) \in Seq(Frames)
      BY <2>2, <1>1 DEF DeliverIopub
    <3> QED BY <2>2, <3>1, <1>1 DEF DeliverIopub
  <2> QED BY <2>1, <2>2
<1>3. TypeOK'
  BY <1>2, ReceiveStep DEF TypeOK
<1> QED BY <1>2, <1>3, ReceiveStep, RunGoesOn

LEMMA LoopSteps ==
    ASSUME IInv, NEW m \in Msgs, LoopTake(m) \/ LoopWait(m) \/ FlushDone(m)
    PROVE  IInv'
<1> USE DEF IInv
<1>1. /\ run \in [Msgs -> RunType] /\ run[m] \in RunType /\ rt \in Runtime
      /\ outputs \in [Cells -> SUBSET Msgs]
      /\ hist \in [normal : SUBSET Msgs, seen : SUBSET Msgs, cut : SUBSET Msgs]
  BY DEF TypeOK
<1>2. UNCHANGED <<nextMsg, all, epoch, restart, envVars>>
  BY DEF LoopTake, LoopWait, FlushDone
<1>3. run[m].pc # "off" /\ \E g \in RunType :
        /\ run' = [run EXCEPT ![m] = g]
        /\ g.by = run[m].by /\ g.epoch = run[m].epoch /\ g.pc # "off"
  <2>1. CASE LoopTake(m)
    <3> DEFINE h == Head(run[m].buf)
               g == [run[m] EXCEPT !.buf = Tail(@),
                       !.pc = IF Awaits(run[m], h.type) THEN "flush" ELSE @,
                       !.at = h.type,
                       !.status = IF h.type = "reply" THEN h.status ELSE @]
    <3>1. run[m].buf \in Seq(Frames) /\ run[m].buf # <<>>
      BY <2>1, <1>1 DEF LoopTake, RunType
    <3>2. h \in Frames /\ Tail(run[m].buf) \in Seq(Frames)
      BY <3>1
    <3>3. /\ h.type \in {"out", "idle", "reply"}
          /\ h.type = "reply" => h.status \in {"ok", "error"}
      BY <3>2 DEF Frames
    <3>4. g \in RunType
      BY <1>1, <3>2, <3>3 DEF RunType
    <3>5. run[m].pc = "resume" /\ run' = [run EXCEPT ![m] = g]
      BY <2>1 DEF LoopTake
    <3>6. g.by = run[m].by /\ g.epoch = run[m].epoch /\ g.pc # "off"
      BY <3>5, <1>1 DEF RunType
    <3> HIDE DEF g
    <3> QED BY <3>4, <3>5, <3>6
  <2>2. CASE LoopWait(m)
    <3> DEFINE g == [run[m] EXCEPT !.pc = "wait"]
    <3>1. g \in RunType /\ g.by = run[m].by /\ g.epoch = run[m].epoch /\ g.pc # "off"
      BY <1>1 DEF RunType
    <3>2. run[m].pc # "off" /\ run' = [run EXCEPT ![m] = g]
      BY <2>2, <1>1 DEF LoopWait
    <3> QED BY <3>1, <3>2
  <2>3. CASE FlushDone(m)
    <3> DEFINE g == [run[m] EXCEPT !.pc = "resume"]
    <3>1. g \in RunType /\ g.by = run[m].by /\ g.epoch = run[m].epoch /\ g.pc # "off"
      BY <1>1 DEF RunType
    <3>2. run[m].pc # "off" /\ run' = [run EXCEPT ![m] = g]
      BY <2>3, <1>1 DEF FlushDone
    <3> QED BY <3>1, <3>2
  <2> QED BY <2>1, <2>2, <2>3
<1>4. rt' \in Runtime /\ rt'.pendingRequests = rt.pendingRequests
  BY <1>1 DEF LoopTake, LoopWait, FlushDone, Settle, Runtime
<1>5. /\ outputs' \in [Cells -> SUBSET Msgs]
      /\ hist' \in [normal : SUBSET Msgs, seen : SUBSET Msgs, cut : SUBSET Msgs]
  BY <1>1 DEF LoopTake, LoopWait, FlushDone
<1>6. run' \in [Msgs -> RunType]
  BY <1>1, <1>3
<1>7. TypeOK'
  BY <1>2, <1>4, <1>5, <1>6 DEF TypeOK, envVars
<1>8. \A n \in Msgs : /\ run'[n].by = run[n].by /\ run'[n].epoch = run[n].epoch
                      /\ run'[n].pc # "off" <=> run[n].pc # "off"
  BY <1>1, <1>3
<1> QED BY <1>2, <1>4, <1>7, <1>8, RunGoesOn

(***************************************************************************)
(* The finally blocks: the run is gone and at least its entry with it.     *)
(***************************************************************************)
LEMMA CompleteRemoves ==
    ASSUME NEW r \in Runtime, NEW m \in Msgs
    PROVE  /\ Complete(r, m) \in Runtime
           /\ Complete(r, m).pendingRequests[m] = "none"
           /\ \A n \in Msgs \ {m} :
                 Complete(r, m).pendingRequests[n] = r.pendingRequests[n]
BY DEF Complete, Runtime, CellState

LEMMA DropRestRemoves ==
    ASSUME NEW r \in Runtime, NEW mids, NEW n \in Msgs
    PROVE  DropRest(r, mids).pendingRequests[n] \in {r.pendingRequests[n], "none"}
BY DEF DropRest, Runtime

LEMMA FinishStep ==
    ASSUME IInv, NEW m \in Msgs, NEW aborted \in BOOLEAN, Finish(m, aborted)
    PROVE  IInv' /\ Fewer
<1> USE DEF IInv
<1>1. /\ rt \in Runtime /\ run \in [Msgs -> RunType] /\ run[m].pc = "resume"
      /\ run' = [run EXCEPT ![m] = NoRun] /\ all \in [Callers -> AllType]
      /\ UNCHANGED <<nextMsg, epoch, restart, envVars, outputs>>
  BY DEF TypeOK, Finish
<1>2. NoRun \in RunType /\ NoRun.pc = "off" /\ NoRun.epoch = 0
  <2>1. <<>> \in Seq(Frames)
    OBVIOUS
  <2> QED BY <2>1 DEF NoRun, RunType
<1>3. run' \in [Msgs -> RunType]
  BY <1>1, <1>2
<1>4. hist' \in [normal : SUBSET Msgs, seen : SUBSET Msgs, cut : SUBSET Msgs]
  <2>1. hist \in [normal : SUBSET Msgs, seen : SUBSET Msgs, cut : SUBSET Msgs]
    BY DEF TypeOK
  <2> QED BY <2>1 DEF Finish
<1>5. /\ rt' \in Runtime /\ Fewer /\ rt'.pendingRequests[m] = "none"
      /\ all' \in [Callers -> AllType] /\ OneRunPerCall'
  <2>1. CASE FinishCell(m, aborted)
    <3> DEFINE r == IF aborted
                    THEN [rt EXCEPT !.cellStates[rt.cellId[m]] = "aborted"] ELSE rt
    <3>1. r \in Runtime /\ r.pendingRequests = rt.pendingRequests
      BY <1>1 DEF Runtime, CellState
    <3>2. rt' = Settle(Complete(r, m)) /\ all' = all
      BY <2>1 DEF FinishCell
    <3> HIDE DEF r
    <3>3. /\ rt' \in Runtime
          /\ rt'.pendingRequests = Complete(r, m).pendingRequests
      <4>1. \A q \in Runtime : /\ Settle(q) \in Runtime
                               /\ Settle(q).pendingRequests = q.pendingRequests
        BY DEF Settle, Runtime
      <4> QED BY <3>1, <3>2, <4>1, CompleteRemoves
    <3>4. Fewer /\ rt'.pendingRequests[m] = "none"
      BY <3>1, <3>3, CompleteRemoves DEF Fewer
    <3>5. OneRunPerCall'
      BY <3>2, <1>1, <1>2 DEF OneRunPerCall
    <3> QED BY <3>2, <3>3, <3>4, <3>5, <1>1
  <2>2. CASE \E a \in Callers : FinishEntry(m, a, aborted)
    <3>1. PICK a \in Callers : FinishEntry(m, a, aborted)
      BY <2>2
    <3> DEFINE q == Complete(rt, m)
    <3>2. rt' = q \/ rt' = DropRest(q, all[a].mids)
      BY <3>1 DEF FinishEntry
    <3>3. q \in Runtime /\ q.pendingRequests[m] = "none"
            /\ \A n \in Msgs \ {m} : q.pendingRequests[n] = rt.pendingRequests[n]
      BY <1>1, CompleteRemoves
    <3> HIDE DEF q
    <3>4. rt' \in Runtime
      BY <3>2, <3>3, DropRestRuntime
    <3>5. Fewer /\ rt'.pendingRequests[m] = "none"
      BY <3>2, <3>3, DropRestRemoves DEF Fewer
    <3>6. /\ run[m].by = a /\ a # "cell"
          /\ \E p \in {"next", "stop"} : all' = [all EXCEPT ![a].pc = p]
      BY <3>1, ExecutionAssumption DEF FinishEntry
    <3>7. all' \in [Callers -> AllType]
      <4>1. all[a] \in AllType
        BY <1>1
      <4>2. \A p \in {"next", "stop"} : [all[a] EXCEPT !.pc = p] \in AllType
        BY <4>1 DEF AllType
      <4> QED BY <1>1, <3>6, <4>2
    <3>8. \A n \in Msgs \ {m} : run[n].pc # "off" => run[n].by # a
      BY <1>1, <3>6 DEF OneRunPerCall
    <3>9. /\ \A b \in Callers \ {a} : all'[b] = all[b]
          /\ all'[a].mids = all[a].mids /\ all[a].pc = "run"
      <4>1. all[a].pc = "run"
        BY <1>1, <3>6 DEF OneRunPerCall
      <4>2. all[a] \in AllType
        BY <1>1
      <4>3. all'[a].mids = all[a].mids
        BY <1>1, <3>6, <4>2 DEF AllType
      <4> QED BY <1>1, <3>6, <4>1, <4>3
    <3>10. \A b \in Callers :
              all'[b].pc # "off" => all'[b].mids \in [DOMAIN Notebook -> Msgs]
      BY <3>9 DEF OneRunPerCall
    <3>11. \A n \in Msgs : run'[n].pc # "off" => n # m /\ run'[n] = run[n]
      BY <1>1, <1>2
    <3>12. \A n \in Msgs : run'[n].pc # "off" /\ run'[n].by # "cell" =>
              all'[run'[n].by].pc = "run"
      <4> SUFFICES ASSUME NEW n \in Msgs, run'[n].pc # "off", run'[n].by # "cell"
                   PROVE  all'[run'[n].by].pc = "run"
        OBVIOUS
      <4>1. n # m /\ run'[n] = run[n] /\ run[n].by # a /\ run[n].by \in Callers
        BY <1>1, <3>8, <3>11 DEF RunType
      <4> QED BY <4>1, <3>9 DEF OneRunPerCall
    <3>13. OneRunPerCall'
      BY <3>10, <3>11, <3>12 DEF OneRunPerCall
    <3> QED BY <3>4, <3>5, <3>7, <3>13
  <2> QED BY <2>1, <2>2 DEF Finish
<1>6. TypeOK'
  BY <1>1, <1>3, <1>4, <1>5 DEF TypeOK, envVars
<1>7. Generations'
  <2>1. epoch \in Nat
    BY DEF TypeOK
  <2> QED BY <1>1, <1>2, <1>5, <2>1 DEF Generations, Fewer
<1>8. SentHasRun'
  BY <1>1, <1>5 DEF SentHasRun, Sent, Fewer
<1>9. AbortedUnregistered'
  BY <1>1, <1>2, <1>5 DEF AbortedUnregistered, Aborted, Fewer
<1> QED BY <1>5, <1>6, <1>7, <1>8, <1>9

(***************************************************************************)
(* runAll.                                                                 *)
(***************************************************************************)
LEMMA LackingFinite ==
    /\ IsFiniteSet(Lacking) /\ Cardinality(Lacking) \in Nat
    /\ \A i \in Lacking : /\ Cardinality({j \in Lacking : j < i}) \in Nat
                          /\ Cardinality({j \in Lacking : j < i}) < Cardinality(Lacking)
<1>1. Len(Notebook) \in Nat /\ DOMAIN Notebook = 1 .. Len(Notebook)
  BY ExecutionAssumption
<1>2. IsFiniteSet(DOMAIN Notebook) /\ Lacking \in SUBSET DOMAIN Notebook
  BY <1>1, FS_Interval DEF Lacking
<1>3. IsFiniteSet(Lacking) /\ Cardinality(Lacking) \in Nat
  BY <1>2, FS_Subset, FS_CardinalityType
<1>4. ASSUME NEW i \in Lacking
      PROVE  /\ Cardinality({j \in Lacking : j < i}) \in Nat
             /\ Cardinality({j \in Lacking : j < i}) < Cardinality(Lacking)
  <2> DEFINE T == {j \in Lacking : j < i}
  <2>1. T \in SUBSET Lacking /\ T # Lacking
    BY <1>1, <1>2
  <2>2. IsFiniteSet(T) /\ Cardinality(T) <= Cardinality(Lacking)
          /\ Cardinality(T) # Cardinality(Lacking)
    BY <1>3, <2>1, FS_Subset
  <2>3. Cardinality(T) \in Nat
    BY <2>2, FS_CardinalityType
  <2> HIDE DEF T
  <2>4. Cardinality(T) < Cardinality(Lacking)
    BY <1>3, <2>2, <2>3
  <2> QED BY <2>3, <2>4 DEF T
<1> QED BY <1>3, <1>4

(* The ids runAll hands out are new, and lie below the next one.            *)
LEMMA EntriesNew ==
    ASSUME nextMsg \in Nat, NEW mids, Entries(mids), NEW i \in Lacking
    PROVE  nextMsg <= mids[i] /\ mids[i] < nextMsg + Cardinality(Lacking)
<1>1. i \in DOMAIN Notebook
  BY DEF Lacking
<1>2. mids[i] = nextMsg + Cardinality({j \in Lacking : j < i})
  BY <1>1 DEF Entries
<1> QED BY <1>2, LackingFinite

LEMMA RunAllStep ==
    ASSUME IInv, NEW a \in Callers, RunAll(a)
    PROVE  IInv'
<1> USE DEF IInv
<1>1. PICK mids \in [DOMAIN Notebook -> Msgs] :
        /\ Entries(mids)
        /\ LET new(m) == {i \in Lacking : mids[i] = m}
               cell(m) == Notebook[CHOOSE i \in new(m) : TRUE]
           IN rt' = [rt EXCEPT
                !.execState = "busy",
                !.pendingRequests =
                    [m \in Msgs |-> IF new(m) # {} THEN "queued" ELSE @[m]],
                !.cellId = [m \in Msgs |-> IF new(m) # {} THEN cell(m) ELSE @[m]],
                !.cellStates = [c \in Cells |->
                    IF \E i \in Lacking : Notebook[i] = c THEN "queued" ELSE @[c]]]
        /\ all' = [all EXCEPT ![a] = [pc |-> "next", mids |-> mids, pos |-> 1]]
  BY DEF RunAll
<1>2. /\ all[a].pc = "off" /\ nextMsg' = nextMsg + Cardinality(Lacking)
      /\ UNCHANGED <<run, epoch, restart, envVars, outputs, hist>>
  BY DEF RunAll
<1>3. /\ rt \in Runtime /\ nextMsg \in Nat \ {0} /\ all \in [Callers -> AllType]
      /\ run \in [Msgs -> RunType] /\ \A n \in Msgs : n \in Nat
  BY DEF TypeOK, Msgs
<1> DEFINE new(m) == {i \in Lacking : mids[i] = m}
           cell(m) == Notebook[CHOOSE i \in new(m) : TRUE]
<1>4. ASSUME NEW m \in Msgs, new(m) # {}
      PROVE  cell(m) \in Cells /\ m >= nextMsg /\ m < nextMsg'
  <2>1. (CHOOSE i \in new(m) : TRUE) \in new(m)
    BY <1>4
  <2>2. cell(m) \in Cells
    BY <2>1, ExecutionAssumption DEF Lacking
  <2>3. PICK i \in Lacking : mids[i] = m
    BY <1>4
  <2>4. m >= nextMsg /\ m < nextMsg'
    BY <1>1, <1>2, <1>3, <2>3, EntriesNew, LackingFinite
  <2> QED BY <2>2, <2>4
<1>5. rt' = [rt EXCEPT
                !.execState = "busy",
                !.pendingRequests =
                    [m \in Msgs |-> IF new(m) # {} THEN "queued" ELSE @[m]],
                !.cellId = [m \in Msgs |-> IF new(m) # {} THEN cell(m) ELSE @[m]],
                !.cellStates = [c \in Cells |->
                    IF \E i \in Lacking : Notebook[i] = c THEN "queued" ELSE @[c]]]
  BY <1>1
<1> HIDE DEF new, cell
<1>6. rt' \in Runtime
  BY <1>3, <1>4, <1>5 DEF Runtime, CellState
<1>7. \A m \in Msgs : rt'.pendingRequests[m] =
                         IF new(m) # {} THEN "queued" ELSE rt.pendingRequests[m]
  BY <1>3, <1>5 DEF Runtime
<1>8. nextMsg' \in Nat \ {0} /\ nextMsg' >= nextMsg
  BY <1>2, <1>3, LackingFinite
<1>9. all' \in [Callers -> AllType]
  <2>1. [pc |-> "next", mids |-> mids, pos |-> 1] \in AllType
    BY DEF AllType
  <2> QED BY <1>1, <1>3, <2>1
<1>10. TypeOK'
  BY <1>2, <1>6, <1>8, <1>9 DEF TypeOK, envVars
<1>11. OneRunPerCall'
  <2>1. all'[a].mids = mids /\ \A b \in Callers \ {a} : all'[b] = all[b]
    BY <1>1, <1>3
  <2>2. \A m \in Msgs : run[m].pc # "off" => run[m].by # a
    BY <1>2, <1>3, ExecutionAssumption DEF OneRunPerCall
  <2> QED BY <1>2, <1>3, <2>1, <2>2 DEF OneRunPerCall, RunType
<1>12. Generations'
  <2>1. ASSUME NEW m \in Msgs, m >= nextMsg'
        PROVE  run'[m].pc = "off" /\ rt'.pendingRequests[m] = "none"
    <3>1. m >= nextMsg /\ new(m) = {}
      BY <2>1, <1>3, <1>4, <1>8
    <3> QED BY <3>1, <1>2, <1>7 DEF Generations
  <2> QED BY <2>1, <1>2 DEF Generations
<1>13. SentHasRun'
  BY <1>2, <1>7 DEF SentHasRun, Sent
<1>14. AbortedUnregistered'
  BY <1>2, <1>4, <1>7 DEF AbortedUnregistered, Aborted, Generations
<1> QED BY <1>10, <1>11, <1>12, <1>13, <1>14

LEMMA RunAllNextStep ==
    ASSUME IInv, NEW a \in Callers, RunAllNext(a)
    PROVE  IInv'
<1> USE DEF IInv
<1>1. PICK i \in DOMAIN Notebook :
        /\ rt.pendingRequests[all[a].mids[i]] = "queued"
        /\ StartRun(rt, all[a].mids[i], Notebook[i], a)
        /\ all' = [all EXCEPT ![a].pc = "run", ![a].pos = i + 1]
  BY DEF RunAllNext
<1>2. /\ all[a].pc = "next"
      /\ UNCHANGED <<nextMsg, epoch, restart, sock, drops, iopub, shell>>
  BY DEF RunAllNext
<1>3. /\ rt \in Runtime /\ nextMsg \in Nat \ {0} /\ all \in [Callers -> AllType]
      /\ run \in [Msgs -> RunType] /\ \A n \in Msgs : n \in Nat
  BY DEF TypeOK, Msgs
<1> DEFINE m == all[a].mids[i]
<1>4. m \in Msgs /\ Notebook[i] \in Cells /\ i + 1 \in Nat
  BY <1>2, ExecutionAssumption DEF OneRunPerCall
<1>5. m < nextMsg
  BY <1>1, <1>3, <1>4 DEF Generations
<1>6. StartRun(rt, m, Notebook[i], a)
  BY <1>1
<1> HIDE DEF m
<1>7. /\ rt' \in Runtime /\ run' \in [Msgs -> RunType]
      /\ hist' \in [normal : SUBSET Msgs, seen : SUBSET Msgs, cut : SUBSET Msgs]
      /\ kernel' \in [queue : Seq(Msgs), printed : BOOLEAN]
      /\ outputs' \in [Cells -> SUBSET Msgs]
      /\ Generations' /\ SentHasRun' /\ AbortedUnregistered'
  BY <1>2, <1>3, <1>4, <1>5, <1>6, StartRunStep
<1>8. all' \in [Callers -> AllType]
  <2>1. all[a] \in AllType
    BY <1>3
  <2>2. [all[a] EXCEPT !.pc = "run", !.pos = i + 1] \in AllType
    BY <1>4, <2>1 DEF AllType
  <2> QED BY <1>1, <1>3, <2>2
<1>9. TypeOK'
  BY <1>2, <1>3, <1>7, <1>8 DEF TypeOK
<1>10. OneRunPerCall'
  <2>1. all[a] \in AllType
    BY <1>3
  <2>2. /\ all'[a].mids = all[a].mids /\ all'[a].pc = "run"
        /\ \A b \in Callers \ {a} : all'[b] = all[b]
    BY <1>1, <1>3, <2>1 DEF AllType
  <2>3. run'[m].by = a /\ \A n \in Msgs \ {m} : run'[n] = run[n]
    BY <1>3, <1>4, <1>6 DEF StartRun, NewRun, NoRun
  <2>4. \A n \in Msgs : run[n].pc # "off" => run[n].by # a
    BY <1>2, ExecutionAssumption DEF OneRunPerCall
  <2>5. \A b \in Callers : all'[b].pc # "off" =>
                            all'[b].mids \in [DOMAIN Notebook -> Msgs]
    BY <1>2, <2>2 DEF OneRunPerCall
  <2>6. ASSUME NEW n \in Msgs, run'[n].pc # "off", run'[n].by # "cell"
        PROVE  all'[run'[n].by].pc = "run"
    <3>1. CASE n = m
      BY <3>1, <2>2, <2>3
    <3>2. CASE n # m
      <4>1. run'[n] = run[n] /\ run[n].by \in Callers \ {a}
        BY <3>2, <2>3, <2>4, <2>6, <1>3 DEF RunType
      <4> QED BY <4>1, <2>2, <2>6 DEF OneRunPerCall
    <3> QED BY <3>1, <3>2
  <2>7. ASSUME NEW n \in Msgs, NEW k \in Msgs, run'[n].pc # "off",
               run'[k].pc # "off", run'[n].by = run'[k].by, run'[n].by # "cell"
        PROVE  n = k
    BY <2>3, <2>4, <2>7 DEF OneRunPerCall
  <2> QED BY <2>5, <2>6, <2>7 DEF OneRunPerCall
<1> QED BY <1>7, <1>9, <1>10

LEMMA RunAllLeaves ==
    ASSUME IInv, NEW a \in Callers, RunAllEnd(a) \/ RunAllStopped(a)
    PROVE  IInv'
<1> USE DEF IInv
<1>1. /\ all[a].pc \in {"next", "stop"} /\ rt' = Settle(rt)
      /\ all' = [all EXCEPT ![a] = AllOff]
      /\ UNCHANGED <<nextMsg, run, epoch, restart, envVars, hist>>
  BY DEF RunAllEnd, RunAllStopped
<1>2. rt \in Runtime /\ all \in [Callers -> AllType] /\ run \in [Msgs -> RunType]
  BY DEF TypeOK
<1>3. rt' \in Runtime /\ rt'.pendingRequests = rt.pendingRequests
  BY <1>1, <1>2 DEF Settle, Runtime
<1>4. outputs' \in [Cells -> SUBSET Msgs]
  BY ZenonT(30) DEF TypeOK, RunAllEnd, RunAllStopped
<1>5. AllOff \in AllType /\ AllOff.pc = "off"
  BY DEF AllOff, AllType
<1>6. TypeOK'
  BY <1>1, <1>2, <1>3, <1>4, <1>5 DEF TypeOK, envVars
<1>7. OneRunPerCall'
  <2>1. \A n \in Msgs : run[n].pc # "off" => run[n].by # a
    BY <1>1, ExecutionAssumption DEF OneRunPerCall
  <2>2. all'[a].pc = "off" /\ \A b \in Callers \ {a} : all'[b] = all[b]
    BY <1>1, <1>2, <1>5
  <2>3. ASSUME NEW n \in Msgs, run'[n].pc # "off", run'[n].by # "cell"
        PROVE  all'[run'[n].by].pc = "run"
    <3>1. run'[n] = run[n] /\ run[n].by \in Callers \ {a}
      BY <1>1, <1>2, <2>1, <2>3 DEF RunType
    <3> QED BY <3>1, <2>2, <2>3 DEF OneRunPerCall
  <2> QED BY <1>1, <2>2, <2>3 DEF OneRunPerCall
<1>8. Generations' /\ SentHasRun' /\ AbortedUnregistered'
  BY <1>1, <1>3, FewerStep DEF Fewer
<1> QED BY <1>6, <1>7, <1>8

LEMMA StutterStep == IInv /\ UNCHANGED vars => IInv'
<1> SUFFICES ASSUME IInv, UNCHANGED vars PROVE IInv' OBVIOUS
<1>1. TypeOK'
  BY DEF IInv, TypeOK, vars
<1> QED BY <1>1, EnvironmentStep DEF IInv, TypeOK, vars

(***************************************************************************)
(* The inductive invariant holds in every reachable state.                 *)
(***************************************************************************)
THEOREM Invariance == Spec => []IInv
<1>1. Init => IInv
  BY InitIInv
<1>2. IInv /\ [Next]_vars => IInv'
  <2> SUFFICES ASSUME IInv, [Next]_vars PROVE IInv' OBVIOUS
  <2>1. CASE Command
    BY <2>1, RunCellQueueStep, RunCellSendStep, RunCellRedispatchStep,
       CancelCellStep, RunAllStep, RestartBeginStep DEF Command
  <2>2. CASE Continuation
    BY <2>2, LoopSteps, FinishStep, RunAllNextStep, RunAllLeaves
       DEF Continuation, FinishNormally, FinishAborted
  <2>3. CASE Viewer
    BY <2>3, LoopSteps, RunAllLeaves DEF Viewer
  <2>4. CASE Kernel
    BY <2>4, KernelSteps DEF Kernel
  <2>5. CASE DeliverShell \/ DeliverIopub
    BY <2>5, DeliverSteps
  <2>6. CASE \E r \in Restarters : RestartStep(r)
    BY <2>6, RestartSteps
  <2>7. CASE SocketLost \/ SocketBack("open") \/ SocketBack("closed")
    BY <2>7, SocketSteps
  <2>8. CASE UNCHANGED vars
    BY <2>8, StutterStep
  <2> QED BY <2>1, <2>2, <2>3, <2>4, <2>5, <2>6, <2>7, <2>8 DEF Next
<1> QED BY <1>1, <1>2, PTL DEF Spec

(* Every field of the shared runtime keeps to its schema.                   *)
THEOREM TypeCorrect == Spec => []TypeOK
<1>1. IInv => TypeOK
  BY DEF IInv
<1> QED BY <1>1, Invariance, PTL

(* No path through the handlers of runCell, runAll, cancelCell and          *)
(* restartKernel leaves a request registered as sent that no run will       *)
(* unregister.                                                              *)
THEOREM NoOrphanedRequest == Spec => []SentHasRun
<1>1. IInv => SentHasRun
  BY DEF IInv
<1> QED BY <1>1, Invariance, PTL

(* However restarts and late finally blocks interleave, a run of an aborted *)
(* generation is registered nowhere.                                        *)
THEOREM AbortedRunsUnregistered == Spec => []AbortedUnregistered
<1>1. IInv => AbortedUnregistered
  BY DEF IInv
<1> QED BY <1>1, Invariance, PTL

(***************************************************************************)
(* execState is never left at "busy" with nothing running.                 *)
(***************************************************************************)
LEMMA BusyStep ==
    ASSUME IInv, BusyHasRun, [Next]_vars, rt'.execState = "busy"
    PROVE  \/ \E m \in Msgs : run'[m].pc # "off"
           \/ \E a \in Callers : all'[a].pc # "off"
<1>1. /\ rt \in Runtime /\ run \in [Msgs -> RunType] /\ all \in [Callers -> AllType]
      /\ iopub \in Seq(Frames) /\ shell \in Seq(Frames)
  BY DEF IInv, TypeOK
<1>2. \A q \in Runtime : Settle(q).execState # "busy"
  BY DEF Settle, Runtime
<1>3. CASE UNCHANGED <<run, all>> /\ rt'.execState = rt.execState
  BY <1>3 DEF BusyHasRun
<1>4. CASE \E c \in Cells : RunCellQueue(c) \/ CancelCell(c)
  BY <1>1, <1>3, <1>4 DEF RunCellQueue, CancelCell, Enqueue, CancelQueued, Runtime
<1>5. ASSUME NEW m \in Msgs, NEW by, run' = [run EXCEPT ![m] = NewRun(by)]
      PROVE  run'[m].pc # "off"
  BY <1>1, <1>5 DEF NewRun, NoRun
<1>6. CASE \E c \in Cells : RunCellSend(c) \/ RunCellRedispatch(c)
  BY <1>5, <1>6 DEF RunCellSend, RunCellRedispatch, StartRun
<1>7. CASE \E a \in Callers : RunAll(a) \/ RunAllNext(a)
  <2>1. PICK a \in Callers : RunAll(a) \/ RunAllNext(a)
    BY <1>7
  <2>2. all[a] \in AllType
    BY <1>1
  <2>3. all'[a].pc \in {"next", "run"}
    <3>1. CASE RunAll(a)
      BY <1>1, <3>1 DEF RunAll
    <3>2. CASE RunAllNext(a)
      BY <1>1, <2>2, <3>2 DEF RunAllNext, AllType
    <3> QED BY <2>1, <3>1, <3>2
  <2> QED BY <2>3
<1>8. CASE \E a \in Callers : RunAllEnd(a) \/ RunAllStopped(a)
  BY <1>1, <1>2, <1>8 DEF RunAllEnd, RunAllStopped
<1>9. CASE \E m \in Msgs : LoopTake(m) \/ LoopWait(m) \/ FlushDone(m)
  <2>1. PICK m \in Msgs : LoopTake(m) \/ LoopWait(m) \/ FlushDone(m)
    BY <1>9
  <2>2. run[m] \in RunType
    BY <1>1
  <2>3. run'[m].pc # "off"
    <3>1. CASE LoopTake(m)
      BY <1>1, <2>2, <3>1 DEF LoopTake, RunType
    <3>2. CASE LoopWait(m) \/ FlushDone(m)
      BY <1>1, <2>2, <3>2 DEF LoopWait, FlushDone, RunType
    <3> QED BY <2>1, <3>1, <3>2
  <2> QED BY <2>3
<1>10. CASE \E m \in Msgs : FinishNormally(m) \/ FinishAborted(m)
  <2>1. PICK m \in Msgs, aborted \in BOOLEAN : Finish(m, aborted)
    BY <1>10 DEF FinishNormally, FinishAborted
  <2>2. CASE FinishCell(m, aborted)
    <3> DEFINE r == IF aborted
                    THEN [rt EXCEPT !.cellStates[rt.cellId[m]] = "aborted"] ELSE rt
    <3>1. r \in Runtime
      BY <1>1 DEF Runtime, CellState
    <3>2. rt' = Settle(Complete(r, m))
      BY <2>2 DEF FinishCell
    <3> HIDE DEF r
    <3> QED BY <1>2, <3>1, <3>2, CompleteRemoves
  <2>3. CASE \E a \in Callers : FinishEntry(m, a, aborted)
    <3>1. PICK a \in Callers : FinishEntry(m, a, aborted)
      BY <2>3
    <3>2. all[a] \in AllType
      BY <1>1
    <3>3. all'[a].pc \in {"next", "stop"}
      BY <1>1, <3>1, <3>2 DEF FinishEntry, AllType
    <3> QED BY <3>3
  <2> QED BY <2>1, <2>2, <2>3 DEF Finish
<1>11. CASE DeliverShell \/ DeliverIopub
  <2>1. \E f \in Frames : Receive(f)
    BY <1>1, <1>11 DEF DeliverShell, DeliverIopub
  <2>2. \A n \in Msgs : run'[n].pc # "off" <=> run[n].pc # "off"
    BY <2>1, ReceiveStep DEF IInv
  <2>3. rt' = rt /\ all' = all
    BY <1>11 DEF DeliverShell, DeliverIopub
  <2> QED BY <2>2, <2>3 DEF BusyHasRun
<1>12. CASE \E r \in Restarters : RestartBegin(r) \/ RestartStep(r)
  <2>1. PICK r \in Restarters : RestartBegin(r) \/ RestartStep(r)
    BY <1>12
  <2>2. AbortAll(rt) \in Runtime
    BY <1>1 DEF AbortAll, Runtime, CellState
  <2>3. ~RestartBegin(r)
    BY <2>2 DEF RestartBegin, Runtime
  <2>4. UNCHANGED <<run, all>> /\ rt'.execState = rt.execState
    BY <1>1, <2>1, <2>3
       DEF RestartStep, RestartRefused, RestartThrows, RestartAccepted,
           RestartReopened, RestartDone, RestartUnanswered, Runtime
  <2> QED BY <1>3, <2>4
<1>13. CASE Kernel \/ SocketLost \/ SocketBack("open") \/ SocketBack("closed")
             \/ UNCHANGED vars
  BY <1>3, <1>13 DEF Kernel, KernelPrint, KernelAnswer, SocketLost, SocketBack, vars
<1> QED BY <1>4, <1>6, <1>7, <1>8, <1>9, <1>10, <1>11, <1>12, <1>13
        DEF Next, Command, Continuation, Viewer

THEOREM NeverStuckBusy == Spec => []BusyHasRun
<1>1. Init => BusyHasRun
  BY DEF Init, BusyHasRun
<1>2. IInv /\ BusyHasRun /\ [Next]_vars => BusyHasRun'
  BY BusyStep DEF BusyHasRun
<1> QED BY <1>1, <1>2, Invariance, PTL DEF Spec

(***************************************************************************)
(* Restarts: no request is registered until the last of them is over,      *)
(* although runs that were aborted, and the runAll calls that wait for     *)
(* them, still have their finally blocks to run.                           *)
(***************************************************************************)
Restarting == \E r \in Restarters : restart[r].pc # "off"

NoneInRestart == Restarting => Live(rt) = {}

LEMMA StillNone ==
    ASSUME NoneInRestart, Fewer, Restarting' => Restarting
    PROVE  NoneInRestart'
<1> SUFFICES ASSUME Restarting', NEW m \in Msgs
             PROVE  rt'.pendingRequests[m] = "none"
  BY DEF NoneInRestart, Live
<1>1. rt.pendingRequests[m] = "none"
  BY DEF NoneInRestart, Live
<1> QED BY <1>1 DEF Fewer

LEMMA NoneStep ==
    ASSUME "runInRestart" \notin Races, IInv, NoneInRestart, [Next]_vars
    PROVE  NoneInRestart'
<1>1. rt \in Runtime /\ all \in [Callers -> AllType]
  BY DEF IInv, TypeOK
<1>2. \A q \in Runtime : Settle(q).pendingRequests = q.pendingRequests
  BY DEF Settle, Runtime
<1>3. (rt'.pendingRequests = rt.pendingRequests) => Fewer
  BY DEF Fewer
<1>4. UNCHANGED restart => (Restarting' => Restarting)
  BY DEF Restarting
<1>5. CASE \/ \E c \in Cells : RunCellQueue(c) \/ RunCellSend(c) \/ RunCellRedispatch(c)
           \/ \E a \in Callers : RunAll(a)
  <2>1. UNCHANGED restart /\ ~Restarting
    BY <1>5 DEF RunCellQueue, RunCellSend, RunCellRedispatch, RunAll, MayRun, Restarting
  <2> QED BY <2>1, <1>4 DEF NoneInRestart
<1>6. CASE \E c \in Cells : CancelCell(c)
  <2>1. PICK m \in Msgs : rt' = CancelQueued(rt, m)
    BY <1>6 DEF CancelCell
  <2>2. Fewer
    BY <1>1, <2>1 DEF CancelQueued, Runtime, Fewer
  <2>3. UNCHANGED restart
    BY <1>6 DEF CancelCell
  <2> QED BY <1>4, <2>2, <2>3, StillNone
<1>7. CASE \E r \in Restarters : RestartBegin(r)
  <2>1. \A m \in Msgs : rt'.pendingRequests[m] = "none"
    BY <1>1, <1>7 DEF RestartBegin, AbortAll, Runtime
  <2> QED BY <2>1 DEF NoneInRestart, Live
<1>8. CASE \E r \in Restarters : RestartStep(r)
  <2>1. PICK r \in Restarters : RestartStep(r)
    BY <1>8
  <2>2. restart[r].pc # "off"
    BY <2>1 DEF RestartStep, RestartRefused, RestartThrows, RestartAccepted,
                RestartReopened, RestartDone, RestartUnanswered
  <2>3. rt'.pendingRequests = rt.pendingRequests
    BY <1>1, <2>1
       DEF RestartStep, RestartRefused, RestartThrows, RestartAccepted,
           RestartReopened, RestartDone, RestartUnanswered, Runtime
  <2>4. Restarting
    BY <2>2 DEF Restarting
  <2> QED BY <1>3, <2>3, <2>4, StillNone
<1>9. CASE \E a \in Callers : RunAllNext(a)
  <2>1. PICK a \in Callers, i \in DOMAIN Notebook :
           /\ all[a].pc = "next"
           /\ rt.pendingRequests[all[a].mids[i]] = "queued"
           /\ UNCHANGED restart
    BY <1>9 DEF RunAllNext
  <2>2. all[a].mids \in [DOMAIN Notebook -> Msgs]
    BY <2>1 DEF IInv, OneRunPerCall
  <2>3. all[a].mids[i] \in Msgs
    BY <2>1, <2>2
  <2>4. ~Restarting
    BY <2>1, <2>3 DEF NoneInRestart, Live
  <2> QED BY <1>4, <2>1, <2>4 DEF NoneInRestart
<1>10. CASE \E a \in Callers : RunAllEnd(a) \/ RunAllStopped(a)
  <2>1. rt' = Settle(rt) /\ UNCHANGED restart
    BY <1>10 DEF RunAllEnd, RunAllStopped
  <2> QED BY <1>1, <1>2, <1>3, <1>4, <2>1, StillNone
<1>11. CASE \E m \in Msgs : LoopTake(m) \/ LoopWait(m) \/ FlushDone(m)
  <2>1. (rt' = rt \/ rt' = Settle(rt)) /\ UNCHANGED restart
    BY <1>11 DEF LoopTake, LoopWait, FlushDone
  <2> QED BY <1>1, <1>2, <1>3, <1>4, <2>1, StillNone
<1>12. CASE \E m \in Msgs : FinishNormally(m) \/ FinishAborted(m)
  <2>1. PICK m \in Msgs, aborted \in BOOLEAN : Finish(m, aborted)
    BY <1>12 DEF FinishNormally, FinishAborted
  <2>2. Fewer
    BY <2>1, FinishStep
  <2>3. UNCHANGED restart
    BY <2>1 DEF Finish
  <2> QED BY <1>4, <2>2, <2>3, StillNone
<1>13. CASE \/ Kernel \/ DeliverShell \/ DeliverIopub \/ SocketLost
            \/ SocketBack("open") \/ SocketBack("closed") \/ UNCHANGED vars
  <2>1. UNCHANGED <<rt, restart>>
    BY <1>13 DEF Kernel, KernelPrint, KernelAnswer, DeliverShell, DeliverIopub,
                 SocketLost, SocketBack, vars
  <2> QED BY <1>3, <1>4, <2>1, StillNone
<1> QED BY <1>5, <1>6, <1>7, <1>8, <1>9, <1>10, <1>11, <1>12, <1>13
        DEF Next, Command, Continuation, Viewer

(* A restart that succeeds, of any number of them and with any losses of    *)
(* the socket, clears the cell states when no request is registered         *)
(* (kernel/restart.ts:218), provided that no cell is run during a restart:  *)
(* no late finally block registers one.                                     *)
THEOREM RestartsFindNothing ==
    ASSUME "runInRestart" \notin Races
    PROVE  Spec => RestartFindsNoRequest
<1>1. Init => NoneInRestart
  BY DEF Init, NoneInRestart, Restarting
<1>2. IInv /\ NoneInRestart /\ [Next]_vars => NoneInRestart'
  BY NoneStep
<1>3. IInv /\ NoneInRestart /\ [Next]_vars =>
        [\A r \in Restarters :
            restart[r].pc = "info" /\ restart'[r].pc = "off" /\ sock' = "open"
               => Live(rt) = {}]_vars
  BY DEF NoneInRestart, Restarting
<1> QED BY <1>1, <1>2, <1>3, Invariance, PTL DEF Spec, RestartFindsNoRequest

(***************************************************************************)
(* The output of a run that ends is complete, for every set of races.  It  *)
(* is the order on the iopub channel that brings it before status:idle,    *)
(* and the two loop conditions that make a run wait for both.              *)
(***************************************************************************)
On(m) == run[m].pc # "off"

(* An id that has been sent nowhere is known to nobody.                     *)
Fresh(m) == m >= nextMsg \/ rt.pendingRequests[m] = "queued"
Known(m) ==
    \/ On(m)
    \/ \E i \in DOMAIN kernel.queue : kernel.queue[i] = m
    \/ \E i \in DOMAIN iopub : iopub[i].msg = m
    \/ \E i \in DOMAIN shell : shell[i].msg = m
Unsent == \A m \in Msgs : Fresh(m) => ~Known(m)

(* The output of request m has been shown, or is next to be; it is on the   *)
(* channel, before place k.                                                 *)
Taken(m) == m \in hist.seen \/ \E i \in DOMAIN run[m].buf : run[m].buf[i].type = "out"
OutAt(m, j) == iopub[j].msg = m /\ iopub[j].type = "out"
IdleAt(m, j) == iopub[j].msg = m /\ iopub[j].type = "idle"
Printing(m) == kernel.queue # <<>> /\ kernel.printed /\ Head(kernel.queue) = m

Follows(m) ==
    On(m) /\ m \notin hist.cut =>
        /\ sock = "open"
        /\ Printing(m) => Taken(m) \/ \E j \in DOMAIN iopub : OutAt(m, j)
        /\ \A i \in DOMAIN iopub : IdleAt(m, i) =>
              Taken(m) \/ \E j \in DOMAIN iopub : j < i /\ OutAt(m, j)
        /\ run[m].idle => Taken(m)

OutputFirst ==
    /\ kernel.queue = <<>> => ~kernel.printed
    /\ \A m \in Msgs : Follows(m)

HistType == [normal : SUBSET Msgs, seen : SUBSET Msgs, cut : SUBSET Msgs]

Printed == Unsent /\ OutputFirst /\ OutputsComplete

LEMMA StillUnsent ==
    ASSUME Unsent, \A m \in Msgs : Fresh(m)' => Fresh(m) /\ (Known(m)' => Known(m))
    PROVE  Unsent'
BY DEF Unsent

(* Ids become fresh no more.                                                *)
LEMMA FewerFresh ==
    ASSUME Fewer, UNCHANGED nextMsg, NEW m \in Msgs, Fresh(m)'
    PROVE  Fresh(m)
BY DEF Fewer, Fresh

LEMMA StillFollows ==
    ASSUME NEW m \in Msgs, Follows(m), UNCHANGED <<kernel, iopub, sock>>,
           m \in hist.cut => m \in hist'.cut, On(m)' => On(m),
           On(m)' /\ Taken(m) => Taken(m)', On(m)' => (run'[m].idle => run[m].idle)
    PROVE  Follows(m)'
BY DEF Follows, Printing, OutAt, IdleAt, On

(* Steps that leave the runs and the messages alone.                        *)
LEMMA QuietPrinted ==
    ASSUME Printed, UNCHANGED <<run, kernel, iopub, shell, sock, hist>>,
           \A m \in Msgs : Fresh(m)' => Fresh(m)
    PROVE  Printed'
<1>1. Unsent'
  BY StillUnsent DEF Printed, Known, On
<1>2. OutputFirst'
  BY StillFollows DEF Printed, OutputFirst, On, Taken
<1>3. OutputsComplete'
  BY DEF Printed, OutputsComplete
<1> QED BY <1>1, <1>2, <1>3 DEF Printed

(* The socket is gone and with it what was on it.                           *)
LEMMA CutPrinted ==
    ASSUME IInv, Printed, Lost, Cut, UNCHANGED <<nextMsg, run>>,
           rt'.pendingRequests = rt.pendingRequests,
           kernel' \in {kernel, NoKernel}
    PROVE  Printed'
<1>1. hist \in HistType /\ hist' = [hist EXCEPT !.cut = @ \cup {m \in Msgs : run[m].pc # "off"}]
  BY DEF IInv, TypeOK, HistType, Cut
<1>2. hist'.cut = hist.cut \cup {m \in Msgs : run[m].pc # "off"}
      /\ hist'.normal = hist.normal /\ hist'.seen = hist.seen
  BY <1>1 DEF HistType
<1>3. Unsent'
  BY StillUnsent DEF Printed, Fresh, Known, On, Lost, NoKernel
<1>4. OutputFirst'
  BY <1>2 DEF Printed, OutputFirst, Follows, On, NoKernel
<1>5. OutputsComplete'
  BY <1>2 DEF Printed, OutputsComplete
<1> QED BY <1>3, <1>4, <1>5 DEF Printed

LEMMA RestartPrinted ==
    ASSUME IInv, Printed, NEW r \in Restarters, RestartBegin(r) \/ RestartStep(r)
    PROVE  Printed'
<1> USE DEF IInv
<1>0. rt \in Runtime /\ run \in [Msgs -> RunType]
  BY DEF TypeOK
<1>1. CASE RestartBegin(r)
  <2>1. UNCHANGED <<nextMsg, kernel, iopub, shell, sock, hist>>
    BY <1>1 DEF RestartBegin, envVars
  <2>2. \A m \in Msgs : rt'.pendingRequests[m] = "none"
    BY <1>0, <1>1 DEF RestartBegin, AbortAll, Runtime
  <2>3. \A m \in Msgs : /\ run'[m].pc # "off" <=> run[m].pc # "off"
                        /\ run'[m].buf = run[m].buf /\ run'[m].idle = run[m].idle
    BY <1>0, <1>1 DEF RestartBegin, RunType
  <2>4. Unsent'
    BY <2>1, <2>2, <2>3, StillUnsent DEF Printed, Fresh, Known, On
  <2>5. OutputFirst'
    BY <2>1, <2>3, StillFollows DEF Printed, OutputFirst, On, Taken
  <2> QED BY <2>1, <2>4, <2>5 DEF Printed, OutputsComplete
<1>2. CASE RestartRefused(r) \/ RestartReopened(r) \/ RestartDone(r)
  <2>1. /\ UNCHANGED <<nextMsg, run, hist, kernel, iopub, shell>>
        /\ rt'.pendingRequests = rt.pendingRequests
        /\ sock' = sock \/ sock' = "open"
    BY <1>0, <1>2 DEF RestartRefused, RestartReopened, RestartDone, envVars, Runtime
  <2>2. Unsent'
    BY <2>1, StillUnsent DEF Printed, Fresh, Known, On
  <2>3. OutputFirst'
    BY <2>1 DEF Printed, OutputFirst, Follows, On, Taken, Printing, OutAt, IdleAt
  <2> QED BY <2>1, <2>2, <2>3 DEF Printed, OutputsComplete
<1>3. CASE RestartThrows(r)
  <2>1. /\ UNCHANGED <<nextMsg, run, hist, iopub, shell, sock>>
        /\ rt'.pendingRequests = rt.pendingRequests
        /\ kernel' \in {kernel, NoKernel}
    BY <1>0, <1>3 DEF RestartThrows, Runtime
  <2>2. Unsent'
    BY <2>1, StillUnsent DEF Printed, Fresh, Known, On, NoKernel
  <2>3. OutputFirst'
    BY <2>1 DEF Printed, OutputFirst, Follows, On, Taken, Printing, OutAt, IdleAt, NoKernel
  <2> QED BY <2>1, <2>2, <2>3 DEF Printed, OutputsComplete
<1>4. CASE RestartAccepted(r) \/ RestartUnanswered(r)
  <2>1. /\ Lost /\ Cut /\ UNCHANGED <<nextMsg, run>>
        /\ rt'.pendingRequests = rt.pendingRequests
        /\ kernel' \in {kernel, NoKernel}
    BY <1>0, <1>4 DEF RestartAccepted, RestartUnanswered, Runtime
  <2> QED BY <2>1, CutPrinted
<1> QED BY <1>1, <1>2, <1>3, <1>4 DEF RestartStep

LEMMA SocketPrinted ==
    ASSUME IInv, Printed, SocketLost \/ SocketBack("open") \/ SocketBack("closed")
    PROVE  Printed'
<1>1. CASE SocketLost
  BY <1>1, CutPrinted DEF SocketLost
<1>2. CASE SocketBack("open") \/ SocketBack("closed")
  <2>1. /\ UNCHANGED <<nextMsg, rt, run, hist, kernel, iopub, shell>>
        /\ sock = "down"
    BY <1>2 DEF SocketBack
  <2>2. Unsent'
    BY <2>1, StillUnsent DEF Printed, Fresh, Known, On
  <2>3. OutputFirst'
    BY <2>1 DEF Printed, OutputFirst, Follows, On
  <2> QED BY <2>1, <2>2, <2>3 DEF Printed, OutputsComplete
<1> QED BY <1>1, <1>2

(* The kernel prints, and then answers, its oldest request.                 *)
LEMMA KernelPrinted ==
    ASSUME IInv, Printed, KernelPrint \/ KernelAnswer
    PROVE  Printed'
<1> USE DEF IInv
<1>1. /\ kernel.queue \in Seq(Msgs) /\ iopub \in Seq(Frames) /\ shell \in Seq(Frames)
      /\ kernel.queue # <<>>
      /\ UNCHANGED <<nextMsg, rt, run, hist, sock>>
  BY DEF TypeOK, KernelPrint, KernelAnswer
<1>2. PICK h \in Msgs : h = Head(kernel.queue)
  BY <1>1
<1>3. 1 \in DOMAIN kernel.queue /\ kernel.queue[1] = h
  BY <1>1, <1>2
<1>4. ~Fresh(h)
  BY <1>3 DEF Printed, Unsent, Known
<1>5. CASE KernelPrint
  <2>1. /\ kernel'.queue = kernel.queue /\ kernel'.printed /\ shell' = shell
        /\ iopub' = IF sock = "open" THEN Append(iopub, [msg |-> h, type |-> "out"]) ELSE iopub
    BY <1>1, <1>2, <1>5 DEF KernelPrint, Emit, TypeOK
  <2>2. \A j \in DOMAIN iopub' : \/ j \in DOMAIN iopub /\ iopub'[j] = iopub[j]
                                 \/ iopub'[j].msg = h /\ iopub'[j].type = "out"
    BY <1>1, <2>1
  <2>3. \A j \in DOMAIN iopub : j \in DOMAIN iopub' /\ iopub'[j] = iopub[j]
    BY <1>1, <2>1
  <2>4. sock = "open" => \E j \in DOMAIN iopub' : iopub'[j].msg = h /\ iopub'[j].type = "out"
    <3> SUFFICES ASSUME sock = "open"
                 PROVE  Len(iopub) + 1 \in DOMAIN iopub' /\ iopub'[Len(iopub) + 1] = [msg |-> h, type |-> "out"]
      OBVIOUS
    <3> QED BY <1>1, <2>1
  <2>5. Unsent'
    <3>1. ASSUME NEW m \in Msgs, Fresh(m)' PROVE Fresh(m) /\ (Known(m)' => Known(m))
      <4>1. Fresh(m) /\ m # h
        BY <1>1, <1>4, <3>1 DEF Fresh
      <4> QED BY <1>1, <2>1, <2>2, <4>1 DEF Known, On
    <3> QED BY <3>1, StillUnsent DEF Printed
  <2>6. OutputFirst'
    <3>1. ASSUME NEW m \in Msgs, On(m), m \notin hist.cut
          PROVE  /\ sock = "open"
                 /\ Printing(m)' => \E j \in DOMAIN iopub' : iopub'[j].msg = m /\ iopub'[j].type = "out"
                 /\ \A i \in DOMAIN iopub' : IdleAt(m, i)' =>
                       Taken(m) \/ \E j \in DOMAIN iopub' : j < i /\ OutAt(m, j)'
                 /\ run[m].idle => Taken(m)
      <4>1. Follows(m)
        BY DEF Printed, OutputFirst
      <4>2. sock = "open" /\ (run[m].idle => Taken(m))
        BY <3>1, <4>1 DEF Follows
      <4>3. Printing(m)' => m = h
        BY <1>2, <2>1 DEF Printing
      <4>4. ASSUME NEW i \in DOMAIN iopub', IdleAt(m, i)'
            PROVE  Taken(m) \/ \E j \in DOMAIN iopub' : j < i /\ OutAt(m, j)'
        <5>1. i \in DOMAIN iopub /\ IdleAt(m, i)
          BY <2>2, <4>4 DEF IdleAt
        <5> QED BY <2>3, <3>1, <4>1, <5>1 DEF Follows, OutAt
      <4> QED BY <2>4, <4>2, <4>3, <4>4
    <3>2. \A m \in Msgs : Follows(m)'
      BY <1>1, <3>1 DEF Follows, On, Taken, OutAt
    <3> QED BY <1>1, <2>1, <3>2 DEF OutputFirst
  <2> QED BY <1>1, <2>5, <2>6 DEF Printed, OutputsComplete
<1>6. CASE KernelAnswer
  <2>1. /\ kernel' = [queue |-> Tail(kernel.queue), printed |-> FALSE]
        /\ kernel.printed
        /\ iopub' = IF sock = "open" THEN Append(iopub, [msg |-> h, type |-> "idle"]) ELSE iopub
        /\ \E s \in {"ok", "error"} : shell' =
              IF sock = "open"
              THEN Append(shell, [msg |-> h, type |-> "reply", status |-> s]) ELSE shell
    BY <1>1, <1>2, <1>6 DEF KernelAnswer, Emit, TypeOK
  <2>2. \A j \in DOMAIN iopub' :
           \/ j \in DOMAIN iopub /\ iopub'[j] = iopub[j]
           \/ j = Len(iopub) + 1 /\ iopub'[j].msg = h
    BY <1>1, <2>1
  <2>3. \A j \in DOMAIN iopub : j \in DOMAIN iopub' /\ iopub'[j] = iopub[j] /\ j < Len(iopub) + 1
    BY <1>1, <2>1
  <2>4. \A j \in DOMAIN shell' :
           \/ j \in DOMAIN shell /\ shell'[j] = shell[j]
           \/ shell'[j].msg = h
    BY <1>1, <2>1
  <2>5. \A j \in DOMAIN kernel'.queue :
           j + 1 \in DOMAIN kernel.queue /\ kernel'.queue[j] = kernel.queue[j + 1]
    BY <1>1, <2>1
  <2>6. Unsent'
    <3>1. ASSUME NEW m \in Msgs, Fresh(m)' PROVE Fresh(m) /\ (Known(m)' => Known(m))
      <4>1. Fresh(m) /\ m # h
        BY <1>1, <1>4, <3>1 DEF Fresh
      <4> QED BY <1>1, <2>2, <2>4, <2>5, <4>1 DEF Known, On
    <3> QED BY <3>1, StillUnsent DEF Printed
  <2>7. OutputFirst'
    <3>1. ASSUME NEW m \in Msgs, On(m), m \notin hist.cut
          PROVE  /\ sock = "open"
                 /\ \A i \in DOMAIN iopub' : IdleAt(m, i)' =>
                       Taken(m) \/ \E j \in DOMAIN iopub' : j < i /\ OutAt(m, j)'
                 /\ run[m].idle => Taken(m)
      <4>1. Follows(m)
        BY DEF Printed, OutputFirst
      <4>2. sock = "open" /\ (run[m].idle => Taken(m))
        BY <3>1, <4>1 DEF Follows
      <4>4. ASSUME NEW i \in DOMAIN iopub', IdleAt(m, i)'
            PROVE  Taken(m) \/ \E j \in DOMAIN iopub' : j < i /\ OutAt(m, j)'
        <5>1. CASE i \in DOMAIN iopub /\ iopub'[i] = iopub[i]
          BY <2>3, <3>1, <4>1, <4>4, <5>1 DEF Follows, OutAt, IdleAt
        <5>2. CASE i = Len(iopub) + 1 /\ iopub'[i].msg = h
          <6>1. m = h /\ Printing(m)
            BY <1>1, <1>2, <2>1, <4>4, <5>2 DEF IdleAt, Printing
          <6>2. Taken(m) \/ \E j \in DOMAIN iopub : OutAt(m, j)
            BY <3>1, <4>1, <6>1 DEF Follows
          <6> QED BY <2>3, <5>2, <6>2 DEF OutAt
        <5> QED BY <2>2, <5>1, <5>2
      <4> QED BY <4>2, <4>4
    <3>2. \A m \in Msgs : ~Printing(m)'
      BY <2>1 DEF Printing
    <3>3. \A m \in Msgs : Follows(m)'
      BY <1>1, <3>1, <3>2 DEF Follows, On, Taken, OutAt
    <3> QED BY <1>1, <2>1, <3>3 DEF OutputFirst
  <2> QED BY <1>1, <2>6, <2>7 DEF Printed, OutputsComplete
<1> QED BY <1>5, <1>6

(* A request is sent: it is the last of the queue, or is known to be lost.  *)
LEMMA StartPrinted ==
    ASSUME IInv, Printed, NEW r, NEW m \in Msgs, NEW c, NEW by,
           StartRun(r, m, c, by), Fresh(m), UNCHANGED <<iopub, shell, sock>>,
           \A n \in Msgs : Fresh(n)' => Fresh(n) /\ n # m
    PROVE  Printed'
<1> USE DEF IInv
<1>1. /\ run \in [Msgs -> RunType] /\ kernel.queue \in Seq(Msgs)
      /\ kernel \in [queue : Seq(Msgs), printed : BOOLEAN]
      /\ hist \in HistType /\ iopub \in Seq(Frames)
  BY DEF TypeOK, HistType
<1>2. run' = [run EXCEPT ![m] = NewRun(by)]
  BY DEF StartRun
<1>3. /\ \A n \in Msgs : n # m => run'[n] = run[n]
      /\ run'[m].pc = "wait" /\ ~run'[m].idle
  BY <1>1, <1>2 DEF NewRun, NoRun
<1>4. ~Known(m)
  BY DEF Printed, Unsent
<1>5. \/ sock = "open" /\ kernel' = [kernel EXCEPT !.queue = Append(@, m)] /\ hist' = hist
      \/ sock # "open" /\ kernel' = kernel /\ hist' = [hist EXCEPT !.cut = @ \cup {m}]
  BY DEF StartRun, Send
<1>6. /\ hist'.normal = hist.normal /\ hist'.seen = hist.seen /\ hist.cut \subseteq hist'.cut
      /\ sock # "open" => m \in hist'.cut
  BY <1>1, <1>5 DEF HistType
<1>7. /\ kernel'.printed = kernel.printed
      /\ \A i \in DOMAIN kernel'.queue :
            \/ i \in DOMAIN kernel.queue /\ kernel'.queue[i] = kernel.queue[i]
            \/ kernel'.queue[i] = m
      /\ kernel.queue # <<>> => kernel'.queue # <<>> /\ Head(kernel'.queue) = Head(kernel.queue)
  <2>1. CASE sock # "open"
    BY <1>5, <2>1
  <2>2. CASE sock = "open"
    <3>1. PICK q \in Seq(Msgs) : q = kernel.queue
      BY <1>1
    <3>2. kernel'.queue = Append(q, m) /\ kernel'.printed = kernel.printed
      BY <1>1, <1>5, <2>2, <3>1
    <3>3. \A i \in DOMAIN Append(q, m) :
            (i \in DOMAIN q /\ Append(q, m)[i] = q[i]) \/ Append(q, m)[i] = m
      BY <3>1
    <3>4. q # <<>> => Append(q, m) # <<>> /\ Head(Append(q, m)) = Head(q)
      BY <3>1
    <3> QED BY <3>1, <3>2, <3>3, <3>4
  <2> QED BY <2>1, <2>2
<1>8. Unsent'
  <2>1. ASSUME NEW n \in Msgs, Fresh(n)' PROVE Fresh(n) /\ (Known(n)' => Known(n))
    <3>1. Fresh(n) /\ n # m
      BY <2>1
    <3> QED BY <1>3, <1>7, <3>1 DEF Known, On
  <2> QED BY <2>1, StillUnsent DEF Printed
<1>9. (kernel'.queue = <<>> => ~kernel'.printed) /\ (kernel.printed => kernel.queue # <<>>)
  BY <1>7 DEF Printed, OutputFirst
<1>10. \A n \in Msgs : Printing(n)' => Printing(n)
  BY <1>7, <1>9 DEF Printing
<1>11. ~Printing(m)
  <2>1. kernel.queue # <<>> => 1 \in DOMAIN kernel.queue /\ kernel.queue[1] = Head(kernel.queue)
    BY <1>1
  <2> QED BY <1>4, <2>1 DEF Printing, Known
<1>12. ASSUME NEW n \in Msgs PROVE Follows(n)'
  <2>1. CASE n = m
    BY <1>3, <1>4, <1>6, <1>10, <1>11, <2>1 DEF Follows, IdleAt, Known
  <2>2. CASE n # m
    <3>1. Follows(n)
      BY DEF Printed, OutputFirst
    <3> QED BY <1>3, <1>6, <1>10, <2>2, <3>1 DEF Follows, On, Taken, OutAt, IdleAt
  <2> QED BY <2>1, <2>2
<1>13. OutputsComplete'
  BY <1>6 DEF Printed, OutputsComplete
<1> QED BY <1>8, <1>9, <1>12, <1>13 DEF Printed, OutputFirst

(* What runAll does to pendingRequests.                                     *)
LEMMA RunAllEntries ==
    ASSUME IInv, NEW a \in Callers, RunAll(a)
    PROVE  \E mids \in [DOMAIN Notebook -> Msgs] :
             /\ Entries(mids)
             /\ \A n \in Msgs : rt'.pendingRequests[n] =
                   IF {i \in Lacking : mids[i] = n} # {} THEN "queued" ELSE rt.pendingRequests[n]
<1>1. PICK mids \in [DOMAIN Notebook -> Msgs] :
        /\ Entries(mids)
        /\ LET new(m) == {i \in Lacking : mids[i] = m}
               cell(m) == Notebook[CHOOSE i \in new(m) : TRUE]
           IN rt' = [rt EXCEPT
                !.execState = "busy",
                !.pendingRequests =
                    [m \in Msgs |-> IF new(m) # {} THEN "queued" ELSE @[m]],
                !.cellId = [m \in Msgs |-> IF new(m) # {} THEN cell(m) ELSE @[m]],
                !.cellStates = [c \in Cells |->
                    IF \E i \in Lacking : Notebook[i] = c THEN "queued" ELSE @[c]]]
  BY DEF RunAll
<1>2. rt \in Runtime
  BY DEF IInv, TypeOK
<1>3. rt'.pendingRequests =
        [m \in Msgs |-> IF {i \in Lacking : mids[i] = m} # {} THEN "queued"
                        ELSE rt.pendingRequests[m]]
  BY <1>1, <1>2 DEF Runtime
<1> QED BY <1>1, <1>3

LEMMA CommandPrinted ==
    ASSUME IInv, Printed,
           \/ \E c \in Cells : \/ RunCellQueue(c) \/ RunCellSend(c)
                               \/ RunCellRedispatch(c) \/ CancelCell(c)
           \/ \E a \in Callers : RunAll(a) \/ RunAllNext(a)
    PROVE  Printed'
<1> USE DEF IInv
<1>0. rt \in Runtime /\ nextMsg \in Nat \ {0} /\ (\A n \in Msgs : n \in Nat)
  BY DEF TypeOK, Msgs
<1>1. ASSUME NEW c \in Cells, RunCellQueue(c) PROVE Printed'
  <2>1. /\ nextMsg \in Msgs /\ rt' = Enqueue(rt, nextMsg, c) /\ nextMsg' = nextMsg + 1
        /\ UNCHANGED <<run, kernel, iopub, shell, sock, hist>>
    BY <1>1 DEF RunCellQueue, envVars
  <2>2. \A n \in Msgs : rt'.pendingRequests[n] =
                         IF n = nextMsg THEN "queued" ELSE rt.pendingRequests[n]
    BY <1>0, <2>1 DEF Enqueue, Runtime
  <2>3. \A n \in Msgs : Fresh(n)' => Fresh(n)
    <3> SUFFICES ASSUME NEW n \in Msgs, Fresh(n)' PROVE Fresh(n)
      OBVIOUS
    <3>1. n >= nextMsg + 1 \/ n = nextMsg \/ rt.pendingRequests[n] = "queued"
      BY <2>1, <2>2 DEF Fresh
    <3> QED BY <1>0, <3>1 DEF Fresh
  <2> QED BY <2>1, <2>3, QuietPrinted
<1>2. ASSUME NEW c \in Cells, RunCellSend(c) PROVE Printed'
  <2>1. PICK q : q = Refreshed(c)
    OBVIOUS
  <2>2. PICK e : e = Enqueue(q, nextMsg, c)
    OBVIOUS
  <2>3. PICK r : r = [e EXCEPT !.execState = "busy"]
    OBVIOUS
  <2>4. /\ nextMsg \in Msgs /\ nextMsg' = nextMsg + 1
        /\ StartRun(r, nextMsg, c, "cell")
        /\ UNCHANGED <<sock, iopub, shell>>
    BY <1>2, <2>1, <2>2, <2>3 DEF RunCellSend
  <2>5. q \in Runtime /\ q.pendingRequests = rt.pendingRequests
    BY <1>0, <2>1 DEF Refreshed, Runtime, CellState
  <2>6. e \in Runtime /\ (\A n \in Msgs \ {nextMsg} :
                           e.pendingRequests[n] = rt.pendingRequests[n])
    <3>1. e \in Runtime
      BY <2>2, <2>4, <2>5, RuntimeFunctions
    <3> QED BY <2>2, <2>4, <2>5, <3>1 DEF Enqueue, Runtime
  <2>7. r \in Runtime /\ r.pendingRequests = e.pendingRequests
    BY <2>3, <2>6 DEF Runtime
  <2>8. /\ rt'.pendingRequests[nextMsg] = "sent"
        /\ \A n \in Msgs \ {nextMsg} : rt'.pendingRequests[n] = rt.pendingRequests[n]
    BY <2>4, <2>6, <2>7 DEF StartRun, MarkSent, Runtime
  <2>9. Fresh(nextMsg)
    BY <1>0 DEF Fresh
  <2>10. ASSUME NEW n \in Msgs, Fresh(n)' PROVE Fresh(n) /\ n # nextMsg
    <3>1. n >= nextMsg' \/ rt'.pendingRequests[n] = "queued"
      BY <2>10 DEF Fresh
    <3>2. CASE n = nextMsg
      <4>1. n >= nextMsg + 1
        BY <2>4, <2>8, <3>1, <3>2
      <4> QED BY <1>0, <3>2, <4>1
    <3>3. CASE n # nextMsg
      <4>1. n >= nextMsg + 1 \/ rt.pendingRequests[n] = "queued"
        BY <2>4, <2>8, <3>1, <3>3
      <4> QED BY <1>0, <3>3, <4>1 DEF Fresh
    <3> QED BY <3>2, <3>3
  <2> QED BY <2>4, <2>9, <2>10, StartPrinted
<1>3. ASSUME NEW c \in Cells, RunCellRedispatch(c) PROVE Printed'
  <2>1. PICK r : r = [rt EXCEPT !.execState = "busy"]
    OBVIOUS
  <2>2. PICK m \in Msgs : First(m, Queued(rt, c)) /\ StartRun(r, m, c, "cell")
    BY <1>3, <2>1 DEF RunCellRedispatch
  <2>3. UNCHANGED <<nextMsg, sock, iopub, shell>>
    BY <1>3 DEF RunCellRedispatch
  <2>4. r \in Runtime /\ r.pendingRequests = rt.pendingRequests
    BY <1>0, <2>1 DEF Runtime
  <2>5. /\ rt'.pendingRequests[m] = "sent"
        /\ \A n \in Msgs \ {m} : rt'.pendingRequests[n] = rt.pendingRequests[n]
    BY <2>2, <2>4 DEF StartRun, MarkSent, Runtime
  <2>6. rt.pendingRequests[m] = "queued" /\ m < nextMsg
    BY <1>0, <2>2 DEF First, Queued, Generations
  <2>7. Fresh(m) /\ (\A n \in Msgs : Fresh(n)' => Fresh(n) /\ n # m)
    BY <1>0, <2>3, <2>5, <2>6 DEF Fresh
  <2> QED BY <2>2, <2>3, <2>7, StartPrinted
<1>4. ASSUME NEW c \in Cells, CancelCell(c) PROVE Printed'
  <2>1. PICK m \in Msgs : rt' = CancelQueued(rt, m)
    BY <1>4 DEF CancelCell
  <2>2. UNCHANGED <<nextMsg, run, kernel, iopub, shell, sock, hist>>
    BY <1>4 DEF CancelCell, envVars
  <2>3. Fewer
    BY <1>0, <2>1 DEF CancelQueued, Runtime, Fewer
  <2> QED BY <2>2, <2>3, FewerFresh, QuietPrinted
<1>5. ASSUME NEW a \in Callers, RunAll(a) PROVE Printed'
  <2>1. UNCHANGED <<run, kernel, iopub, shell, sock, hist>>
        /\ nextMsg' = nextMsg + Cardinality(Lacking)
    BY <1>5 DEF RunAll, envVars
  <2>2. \A n \in Msgs : Fresh(n)' => Fresh(n)
    <3>1. PICK mids \in [DOMAIN Notebook -> Msgs] :
            /\ Entries(mids)
            /\ \A n \in Msgs : rt'.pendingRequests[n] =
                  IF {i \in Lacking : mids[i] = n} # {} THEN "queued" ELSE rt.pendingRequests[n]
      BY <1>5, RunAllEntries
    <3>2. \A i \in Lacking : mids[i] >= nextMsg
      BY <1>0, <3>1, EntriesNew
    <3>3. nextMsg' >= nextMsg /\ nextMsg' \in Nat
      BY <1>0, <2>1, LackingFinite
    <3> QED BY <1>0, <3>1, <3>2, <3>3 DEF Fresh
  <2> QED BY <2>1, <2>2, QuietPrinted
<1>6. ASSUME NEW a \in Callers, RunAllNext(a) PROVE Printed'
  <2>1. PICK i \in DOMAIN Notebook :
          /\ rt.pendingRequests[all[a].mids[i]] = "queued"
          /\ StartRun(rt, all[a].mids[i], Notebook[i], a)
    BY <1>6 DEF RunAllNext
  <2>2. all[a].pc = "next" /\ UNCHANGED <<nextMsg, sock, iopub, shell>>
    BY <1>6 DEF RunAllNext
  <2>3. PICK m \in Msgs : m = all[a].mids[i]
    BY <2>2 DEF OneRunPerCall
  <2>4. /\ rt'.pendingRequests[m] = "sent"
        /\ \A n \in Msgs \ {m} : rt'.pendingRequests[n] = rt.pendingRequests[n]
    BY <1>0, <2>1, <2>3 DEF StartRun, MarkSent, Runtime
  <2>5. m < nextMsg
    BY <1>0, <2>1, <2>3 DEF Generations
  <2>6. Fresh(m) /\ (\A n \in Msgs : Fresh(n)' => Fresh(n) /\ n # m)
    BY <1>0, <2>1, <2>2, <2>3, <2>4, <2>5 DEF Fresh
  <2> QED BY <2>1, <2>2, <2>3, <2>6, StartPrinted
<1> QED BY <1>1, <1>2, <1>3, <1>4, <1>5, <1>6

(* Only replies come on the shell channel, and none on iopub.               *)
Channels ==
    /\ \A i \in DOMAIN shell : shell[i].type = "reply"
    /\ \A i \in DOMAIN iopub : iopub[i].type # "reply"

LEMMA ChannelsStep ==
    ASSUME IInv, Channels, [Next]_vars
    PROVE  Channels'
<1>1. iopub \in Seq(Frames) /\ shell \in Seq(Frames)
  BY DEF IInv, TypeOK
<1>2. CASE UNCHANGED <<iopub, shell>> \/ Lost
  BY <1>2 DEF Channels, Lost
<1>3. CASE KernelPrint \/ KernelAnswer
  <2>1. PICK h \in Msgs : h = Head(kernel.queue)
    BY <1>3 DEF KernelPrint, KernelAnswer, IInv, TypeOK
  <2>2. \/ iopub' = iopub
        \/ \E x \in Frames : x.type # "reply" /\ iopub' = Append(iopub, x)
    <3>1. \A t \in {"out", "idle"} : [msg |-> h, type |-> t] \in Frames
      BY DEF Frames
    <3> QED BY <1>3, <2>1, <3>1 DEF KernelPrint, KernelAnswer, Emit
  <2>3. \/ shell' = shell
        \/ \E x \in Frames : x.type = "reply" /\ shell' = Append(shell, x)
    <3>1. \A t \in {"ok", "error"} : [msg |-> h, type |-> "reply", status |-> t] \in Frames
      BY DEF Frames
    <3> QED BY <1>3, <2>1, <3>1 DEF KernelPrint, KernelAnswer, Emit
  <2>4. \A q \in Seq(Frames), x \in Frames : \A i \in DOMAIN Append(q, x) :
           (i \in DOMAIN q /\ Append(q, x)[i] = q[i]) \/ Append(q, x)[i] = x
    OBVIOUS
  <2>5. \A i \in DOMAIN iopub' : iopub'[i].type # "reply"
    BY <1>1, <2>2, <2>4 DEF Channels
  <2>6. \A i \in DOMAIN shell' : shell'[i].type = "reply"
    BY <1>1, <2>3, <2>4 DEF Channels
  <2> QED BY <2>5, <2>6 DEF Channels
<1>4. CASE DeliverShell \/ DeliverIopub
  <2>1. /\ shell' = shell \/ (shell # <<>> /\ shell' = Tail(shell))
        /\ iopub' = iopub \/ (iopub # <<>> /\ iopub' = Tail(iopub))
    BY <1>4 DEF DeliverShell, DeliverIopub
  <2>2. \A q \in Seq(Frames) : q # <<>> =>
          \A i \in DOMAIN Tail(q) : i + 1 \in DOMAIN q /\ Tail(q)[i] = q[i + 1]
    OBVIOUS
  <2> QED BY <1>1, <2>1, <2>2, SMTT(30) DEF Channels
<1>5. Kernel \/ DeliverShell \/ DeliverIopub \/ UNCHANGED <<iopub, shell>> \/ Lost
  <2>1. CASE Command
    BY <2>1 DEF Command, RunCellQueue, RunCellSend, RunCellRedispatch, CancelCell, RunAll,
                RestartBegin, envVars
  <2>2. CASE Continuation \/ Viewer
    BY <2>2 DEF Continuation, Viewer, LoopTake, LoopWait, FinishNormally, FinishAborted,
                Finish, RunAllNext, RunAllEnd, FlushDone, RunAllStopped, envVars
  <2>3. CASE \E r \in Restarters : RestartStep(r)
    BY <2>3 DEF RestartStep, RestartRefused, RestartThrows, RestartAccepted,
                RestartReopened, RestartDone, RestartUnanswered, envVars
  <2>4. CASE SocketLost \/ SocketBack("open") \/ SocketBack("closed") \/ UNCHANGED vars
    BY <2>4 DEF SocketLost, SocketBack, vars
  <2> QED BY <2>1, <2>2, <2>3, <2>4 DEF Next
<1> QED BY <1>2, <1>3, <1>4, <1>5 DEF Kernel

(* What the handler makes of frame f.                                       *)
LEMMA Received ==
    ASSUME TypeOK, NEW f \in Frames, Receive(f), NEW n \in Msgs
    PROVE  /\ n # f.msg \/ run[n].pc = "off" => run'[n] = run[n]
           /\ n = f.msg /\ run[n].pc # "off" =>
                 /\ run'[n].buf = Append(run[n].buf, f)
                 /\ run'[n].reply <=> run[n].reply \/ f.type = "reply"
                 /\ run'[n].idle <=> run[n].idle \/ f.type = "idle"
                 /\ run'[n].at = run[n].at /\ run'[n].by = run[n].by
                 /\ run'[n].epoch = run[n].epoch
                 /\ run'[n].pc = IF run[n].pc = "wait" THEN "resume" ELSE run[n].pc
<1>1. run \in [Msgs -> RunType] /\ run[n] \in RunType
  BY DEF TypeOK
<1>2. PICK m \in Msgs : m = f.msg
  BY DEF Frames
<1>3. CASE run[m].pc = "off"
  BY <1>2, <1>3 DEF Receive
<1>4. CASE run[m].pc # "off"
  <2>1. PICK g : g = [run[m] EXCEPT !.reply = @ \/ f.type = "reply",
                                    !.idle  = @ \/ f.type = "idle",
                                    !.buf   = Append(@, f),
                                    !.pc    = IF @ = "wait" THEN "resume" ELSE @]
    OBVIOUS
  <2>2. run' = [run EXCEPT ![m] = g]
    BY <1>1, <1>2, <1>4, <2>1 DEF Receive, RunType
  <2>3. CASE n # m
    BY <1>1, <1>2, <2>2, <2>3
  <2>4. CASE n = m
    <3>1. run'[n] = g /\ run[m] \in RunType
      BY <1>1, <2>2, <2>4
    <3>2. /\ g.buf = Append(run[m].buf, f) /\ g.at = run[m].at /\ g.by = run[m].by
          /\ g.epoch = run[m].epoch
          /\ g.pc = IF run[m].pc = "wait" THEN "resume" ELSE run[m].pc
      BY <2>1, <3>1 DEF RunType
    <3>3. /\ g.reply = (run[m].reply \/ f.type = "reply")
          /\ g.idle = (run[m].idle \/ f.type = "idle")
      BY <2>1, <3>1 DEF RunType
    <3> QED BY <1>2, <1>4, <2>4, <3>1, <3>2, <3>3
  <2> QED BY <2>3, <2>4
<1> QED BY <1>3, <1>4

LEMMA DeliverPrinted ==
    ASSUME IInv, Channels, Printed, DeliverShell \/ DeliverIopub
    PROVE  Printed'
<1> USE DEF IInv
<1>1. /\ run \in [Msgs -> RunType] /\ iopub \in Seq(Frames) /\ shell \in Seq(Frames)
      /\ \A m \in Msgs : run[m].buf \in Seq(Frames)
  BY DEF TypeOK, RunType
<1>2. UNCHANGED <<rt, nextMsg, kernel, sock, hist>>
  BY DEF DeliverShell, DeliverIopub
<1>3. \A q \in Seq(Frames) : q # <<>> =>
        /\ Head(q) \in Frames /\ 1 \in DOMAIN q /\ q[1] = Head(q)
        /\ \A i \in DOMAIN Tail(q) : i + 1 \in DOMAIN q /\ Tail(q)[i] = q[i + 1]
        /\ \A i \in DOMAIN q : i # 1 => i - 1 \in DOMAIN Tail(q) /\ Tail(q)[i - 1] = q[i]
  OBVIOUS
<1>4. PICK f \in Frames :
        /\ Receive(f)
        /\ \/ shell # <<>> /\ f = Head(shell) /\ shell' = Tail(shell) /\ iopub' = iopub
           \/ iopub # <<>> /\ f = Head(iopub) /\ iopub' = Tail(iopub) /\ shell' = shell
  BY <1>1, <1>3 DEF DeliverShell, DeliverIopub
<1>5. \A m \in Msgs : /\ On(m)' <=> On(m)
                      /\ Taken(m) => Taken(m)'
  <2> SUFFICES ASSUME NEW m \in Msgs PROVE (On(m)' <=> On(m)) /\ (Taken(m) => Taken(m)')
    OBVIOUS
  <2>1. CASE m # f.msg \/ run[m].pc = "off"
    BY <1>2, <1>4, <2>1, Received DEF On, Taken
  <2>2. CASE m = f.msg /\ run[m].pc # "off"
    <3>1. PICK b \in Seq(Frames) : b = run[m].buf
      BY <1>1
    <3>2. run'[m].buf = Append(b, f) /\ run'[m].pc # "off"
      BY <1>4, <2>2, <3>1, Received
    <3>3. \A i \in DOMAIN b : i \in DOMAIN Append(b, f) /\ Append(b, f)[i] = b[i]
      BY <3>1
    <3> QED BY <1>2, <2>2, <3>1, <3>2, <3>3 DEF On, Taken
  <2> QED BY <2>1, <2>2
<1>6. \A i \in DOMAIN iopub' : \E j \in DOMAIN iopub : iopub'[i] = iopub[j]
  BY <1>1, <1>3, <1>4
<1>7. \A i \in DOMAIN shell' : \E j \in DOMAIN shell : shell'[i] = shell[j]
  BY <1>1, <1>3, <1>4, SMTT(30)
<1>8. Unsent'
  <2>1. ASSUME NEW m \in Msgs, Fresh(m)' PROVE Fresh(m) /\ (Known(m)' => Known(m))
    <3>1. Fresh(m)
      BY <1>2, <2>1 DEF Fresh
    <3> QED BY <1>2, <1>5, <1>6, <1>7, <3>1 DEF Known
  <2> QED BY <2>1, StillUnsent DEF Printed
<1>9. ASSUME NEW m \in Msgs, On(m), m \notin hist.cut
      PROVE  /\ sock = "open"
             /\ Printing(m) => Taken(m)' \/ \E j \in DOMAIN iopub' : OutAt(m, j)'
             /\ \A i \in DOMAIN iopub' : IdleAt(m, i)' =>
                   Taken(m)' \/ \E j \in DOMAIN iopub' : j < i /\ OutAt(m, j)'
             /\ run'[m].idle => Taken(m)'
  <2>1. Follows(m)
    BY DEF Printed, OutputFirst
  <2>2. CASE shell # <<>> /\ f = Head(shell) /\ shell' = Tail(shell) /\ iopub' = iopub
    <3>1. f.type = "reply"
      BY <1>1, <1>3, <2>2 DEF Channels
    <3>2. run'[m].idle <=> run[m].idle
      BY <1>4, <1>9, <3>1, Received DEF On
    <3> QED BY <1>5, <1>9, <2>1, <2>2, <3>2 DEF Follows, OutAt, IdleAt
  <2>3. CASE iopub # <<>> /\ f = Head(iopub) /\ iopub' = Tail(iopub) /\ shell' = shell
    <3>1. \A j \in DOMAIN iopub : OutAt(m, j) => Taken(m)' \/ (j - 1 \in DOMAIN iopub' /\ OutAt(m, j - 1)')
      <4> SUFFICES ASSUME NEW j \in DOMAIN iopub, OutAt(m, j)
                   PROVE  Taken(m)' \/ (j - 1 \in DOMAIN iopub' /\ OutAt(m, j - 1)')
        OBVIOUS
      <4>1. CASE j = 1
        <5>1. f.msg = m /\ f.type = "out"
          BY <1>1, <1>3, <2>3, <4>1 DEF OutAt
        <5>2. PICK b \in Seq(Frames) : b = run[m].buf
          BY <1>1
        <5>3. run'[m].buf = Append(b, f)
          BY <1>4, <1>9, <5>1, <5>2, Received DEF On
        <5>4. Len(b) + 1 \in DOMAIN Append(b, f) /\ Append(b, f)[Len(b) + 1] = f
          BY <5>2
        <5> QED BY <5>1, <5>3, <5>4 DEF Taken
      <4>2. CASE j # 1
        BY <1>1, <1>3, <2>3, <4>2 DEF OutAt
      <4> QED BY <4>1, <4>2
    <3>2. Printing(m) => Taken(m)' \/ \E j \in DOMAIN iopub' : OutAt(m, j)'
      BY <1>5, <1>9, <2>1, <3>1 DEF Follows
    <3>3. ASSUME NEW i \in DOMAIN iopub', IdleAt(m, i)'
          PROVE  Taken(m)' \/ \E j \in DOMAIN iopub' : j < i /\ OutAt(m, j)'
      <4>1. i \in Nat /\ i + 1 \in DOMAIN iopub /\ IdleAt(m, i + 1)
        BY <1>1, <1>3, <2>3, <3>3 DEF IdleAt
      <4>2. Taken(m) \/ \E j \in DOMAIN iopub : j < i + 1 /\ OutAt(m, j)
        BY <1>9, <2>1, <4>1 DEF Follows
      <4>3. \A j \in DOMAIN iopub : j \in Nat
        BY <1>1
      <4> QED BY <1>5, <3>1, <4>1, <4>2, <4>3
    <3>4. run'[m].idle => Taken(m)'
      <4>1. CASE f.msg = m /\ f.type = "idle"
        <5>1. IdleAt(m, 1) /\ 1 \in DOMAIN iopub /\ \A j \in DOMAIN iopub : ~(j < 1)
          BY <1>1, <1>3, <2>3, <4>1 DEF IdleAt
        <5> QED BY <1>5, <1>9, <2>1, <5>1 DEF Follows
      <4>2. CASE ~(f.msg = m /\ f.type = "idle")
        <5>1. run'[m].idle <=> run[m].idle
          BY <1>4, <1>9, <4>2, Received DEF On
        <5> QED BY <1>5, <1>9, <2>1, <5>1 DEF Follows
      <4> QED BY <4>1, <4>2
    <3> QED BY <1>9, <2>1, <3>2, <3>3, <3>4 DEF Follows
  <2> QED BY <1>4, <2>2, <2>3
<1>10. OutputFirst'
  <2>1. \A m \in Msgs : Follows(m)'
    BY <1>2, <1>5, <1>9 DEF Follows, Printing
  <2> QED BY <1>2, <2>1 DEF Printed, OutputFirst
<1> QED BY <1>2, <1>8, <1>10 DEF Printed, OutputsComplete

(* What a run does with its frames.                                    *)
LEMMA LoopPrinted ==
    ASSUME IInv, Printed, NEW m \in Msgs, LoopTake(m) \/ LoopWait(m) \/ FlushDone(m)
    PROVE  Printed'
<1> USE DEF IInv
<1>1. /\ run \in [Msgs -> RunType] /\ run[m] \in RunType /\ rt \in Runtime
      /\ hist \in HistType
  BY DEF TypeOK, HistType
<1>2. UNCHANGED <<nextMsg, kernel, iopub, shell, sock>>
  BY DEF LoopTake, LoopWait, FlushDone, envVars
<1>3. rt'.pendingRequests = rt.pendingRequests
  BY <1>1 DEF LoopTake, LoopWait, FlushDone, Settle, Runtime
<1>4. /\ run[m].pc # "off" /\ \A n \in Msgs \ {m} : run'[n] = run[n]
      /\ run'[m].pc # "off" /\ (run'[m].idle <=> run[m].idle)
      /\ hist'.normal = hist.normal /\ hist'.cut = hist.cut /\ hist.seen \subseteq hist'.seen
      /\ Taken(m) => Taken(m)'
  <2>1. CASE LoopTake(m)
    <3>0. PICK b \in Seq(Frames) : b = run[m].buf
      BY <1>1 DEF RunType
    <3>1. PICK h : b = run[m].buf /\ h = Head(b)
      BY <3>0
    <3>2. PICK g : g = [run[m] EXCEPT !.buf = Tail(@),
                       !.pc = IF Awaits(run[m], h.type) THEN "flush" ELSE @,
                       !.at = h.type,
                       !.status = IF h.type = "reply" THEN h.status ELSE @]
      OBVIOUS
    <3>3. /\ run[m].pc = "resume" /\ b # <<>> /\ run' = [run EXCEPT ![m] = g]
          /\ IF h.type = "out" THEN hist' = [hist EXCEPT !.seen = @ \cup {m}]
             ELSE hist' = hist
      BY <2>1, <3>1, <3>2 DEF LoopTake
    <3>4. g.buf = Tail(b) /\ g.pc # "off" /\ (g.idle <=> run[m].idle)
      BY <1>1, <3>1, <3>2, <3>3 DEF RunType
    <3>5. /\ hist'.normal = hist.normal /\ hist'.cut = hist.cut /\ hist.seen \subseteq hist'.seen
          /\ h.type = "out" => m \in hist'.seen
      BY <1>1, <3>3 DEF HistType
    <3>6. \A i \in DOMAIN b : b[i].type = "out" => \/ h.type = "out"
                                                   \/ i - 1 \in DOMAIN Tail(b) /\ Tail(b)[i - 1].type = "out"
      <4> SUFFICES ASSUME NEW i \in DOMAIN b, b[i].type = "out"
                   PROVE  \/ h.type = "out"
                          \/ i - 1 \in DOMAIN Tail(b) /\ Tail(b)[i - 1].type = "out"
        OBVIOUS
      <4>1. CASE i = 1
        BY <3>1, <3>3, <4>1
      <4>2. CASE i # 1
        <5>1. i - 1 \in DOMAIN Tail(b) /\ Tail(b)[i - 1] = b[i]
          BY <3>3, <4>2
        <5> QED BY <5>1
      <4> QED BY <4>1, <4>2
    <3>7. run'[m] = g /\ \A n \in Msgs \ {m} : run'[n] = run[n]
      BY <1>1, <3>3
    <3>8. Taken(m) => Taken(m)'
      BY <3>1, <3>4, <3>5, <3>6, <3>7 DEF Taken
    <3> QED BY <3>3, <3>4, <3>5, <3>7, <3>8
  <2>2. CASE LoopWait(m) \/ FlushDone(m)
    <3>1. PICK pc \in {"wait", "resume"} : run' = [run EXCEPT ![m].pc = pc]
      BY <2>2 DEF LoopWait, FlushDone
    <3>2. hist' = hist /\ run[m].pc # "off"
      BY <2>2 DEF LoopWait, FlushDone
    <3>3. /\ \A n \in Msgs \ {m} : run'[n] = run[n]
          /\ run'[m].pc = pc /\ (run'[m].idle <=> run[m].idle) /\ run'[m].buf = run[m].buf
      BY <1>1, <3>1 DEF RunType
    <3> QED BY <3>2, <3>3 DEF Taken
  <2> QED BY <2>1, <2>2
<1>5. Unsent'
  BY <1>2, <1>3, <1>4, StillUnsent DEF Printed, Fresh, Known, On
<1>6. ASSUME NEW n \in Msgs PROVE Follows(n)'
  <2>1. /\ On(n)' => On(n)
        /\ Taken(n) => Taken(n)' /\ (run'[n].idle => run[n].idle)
    <3>1. CASE n = m
      BY <1>4, <3>1 DEF On
    <3>2. CASE n # m
      BY <1>4, <3>2 DEF On, Taken
    <3> QED BY <3>1, <3>2
  <2>2. Follows(n)
    BY DEF Printed, OutputFirst
  <2> QED BY <1>2, <1>4, <2>1, <2>2, StillFollows
<1>7. OutputFirst' /\ OutputsComplete'
  BY <1>2, <1>4, <1>6 DEF Printed, OutputFirst, OutputsComplete
<1> QED BY <1>5, <1>7 DEF Printed

(* A run that ends without an error has seen status:idle, and taken all     *)
(* that came before it.                                                     *)
LEMMA FinishPrinted ==
    ASSUME IInv, Printed, NEW m \in Msgs, FinishNormally(m) \/ FinishAborted(m)
    PROVE  Printed'
<1> USE DEF IInv
<1>1. PICK aborted \in BOOLEAN :
        Finish(m, aborted) /\ (~aborted => ~Streaming(run[m]))
  BY DEF FinishNormally, FinishAborted
<1>2. /\ run \in [Msgs -> RunType] /\ hist \in HistType
  BY DEF TypeOK, HistType
<1>3. /\ UNCHANGED <<nextMsg, kernel, iopub, shell, sock>>
      /\ run[m].pc = "resume" /\ run' = [run EXCEPT ![m] = NoRun]
      /\ hist' = IF aborted THEN hist ELSE [hist EXCEPT !.normal = @ \cup {m}]
  BY <1>1 DEF Finish, envVars
<1>4. /\ run'[m].pc = "off" /\ \A n \in Msgs \ {m} : run'[n] = run[n]
      /\ hist'.seen = hist.seen /\ hist'.cut = hist.cut
      /\ hist'.normal = IF aborted THEN hist.normal ELSE hist.normal \cup {m}
  BY <1>2, <1>3 DEF NoRun, HistType
<1>5. Fewer
  BY <1>1, FinishStep
<1>6. Unsent'
  <2>1. ASSUME NEW n \in Msgs, Fresh(n)' PROVE Fresh(n) /\ (Known(n)' => Known(n))
    <3>1. Fresh(n)
      BY <1>3, <1>5, <2>1, FewerFresh
    <3> QED BY <1>3, <1>4, <3>1 DEF Known, On
  <2> QED BY <2>1, StillUnsent DEF Printed
<1>7. ASSUME NEW n \in Msgs PROVE Follows(n)'
  <2>1. CASE n = m
    BY <1>4, <2>1 DEF Follows, On
  <2>2. CASE n # m
    BY <1>3, <1>4, <2>2, StillFollows DEF Printed, OutputFirst, On, Taken
  <2> QED BY <2>1, <2>2
<1>8. OutputsComplete'
  <2>1. CASE aborted
    BY <1>4, <2>1 DEF Printed, OutputsComplete
  <2>2. CASE ~aborted
    <3>1. run[m].idle /\ run[m].buf = <<>>
      BY <1>1, <2>2 DEF Streaming
    <3>2. m \in hist.cut \/ m \in hist.seen
      BY <1>3, <3>1 DEF Printed, OutputFirst, Follows, On, Taken
    <3> QED BY <1>4, <2>2, <3>2 DEF Printed, OutputsComplete
  <2> QED BY <2>1, <2>2
<1> QED BY <1>3, <1>6, <1>7, <1>8 DEF Printed, OutputFirst

LEMMA PrintedStep ==
    ASSUME IInv, Channels, Printed, [Next]_vars
    PROVE  Printed'
<1>1. CASE Command
  BY <1>1, CommandPrinted, RestartPrinted DEF Command
<1>2. CASE Continuation \/ Viewer
  <2>1. ASSUME NEW a \in Callers, RunAllEnd(a) \/ RunAllStopped(a) PROVE Printed'
    <3>1. UNCHANGED <<nextMsg, run, kernel, iopub, shell, sock, hist>>
      BY <2>1 DEF RunAllEnd, RunAllStopped, envVars
    <3>2. rt'.pendingRequests = rt.pendingRequests
      BY <2>1 DEF RunAllEnd, RunAllStopped, Settle, IInv, TypeOK, Runtime
    <3> QED BY <3>1, <3>2, QuietPrinted DEF Fresh
  <2> QED BY <1>2, <2>1, CommandPrinted, LoopPrinted, FinishPrinted DEF Continuation, Viewer
<1>3. CASE Kernel
  BY <1>3, KernelPrinted DEF Kernel
<1>4. CASE DeliverShell \/ DeliverIopub
  BY <1>4, DeliverPrinted
<1>5. CASE \E r \in Restarters : RestartStep(r)
  BY <1>5, RestartPrinted
<1>6. CASE SocketLost \/ SocketBack("open") \/ SocketBack("closed")
  BY <1>6, SocketPrinted
<1>7. CASE UNCHANGED vars
  BY <1>7, QuietPrinted DEF vars, Fresh
<1> QED BY <1>1, <1>2, <1>3, <1>4, <1>5, <1>6, <1>7 DEF Next

(* Under every set of races: a run that ends without an error has seen the  *)
(* output its request printed, unless its socket was lost or was not open   *)
(* (kernel/execute.ts:112-160).                                              *)
THEOREM OutputSeen == Spec => []OutputsComplete
<1>1. Init => Channels /\ Printed
  BY DEF Init, Channels, Printed, Unsent, Known, On, OutputFirst, Follows, OutputsComplete,
         NoRun, NoKernel
<1>2. IInv /\ Channels /\ [Next]_vars => Channels'
  BY ChannelsStep
<1>3. IInv /\ Channels /\ Printed /\ [Next]_vars => Printed'
  BY PrintedStep
<1>4. Printed => OutputsComplete
  BY DEF Printed
<1> QED BY <1>1, <1>2, <1>3, <1>4, Invariance, PTL DEF Spec


(***************************************************************************)
(* With no race.  First the order in which the client hears of a request:  *)
(* status:idle is the last of its frames, and comes after the reply.       *)
(***************************************************************************)
Held(m) == \E i \in DOMAIN kernel.queue : kernel.queue[i] = m
OnShell(m) == \E j \in DOMAIN shell : shell[j].msg = m
OnIopub(m) == \E j \in DOMAIN iopub : iopub[j].msg = m

HeldOnce ==
    \A i, j \in DOMAIN kernel.queue : kernel.queue[i] = kernel.queue[j] => i = j

(* status:idle is on its way, at place i of the channel.                    *)
IdleLast(m, i) ==
    /\ \A j \in DOMAIN iopub : iopub[j].msg = m => j <= i
    /\ On(m) => ~run[m].idle /\ (run[m].reply \/ OnShell(m))

(* A run that has received status:idle will receive nothing more, and one   *)
(* that has taken it has taken everything.                                  *)
IdleEnds(m) ==
    /\ run[m].idle => run[m].reply /\ ~OnIopub(m) /\ ~OnShell(m)
    /\ \A i \in DOMAIN run[m].buf : run[m].buf[i].type = "idle" =>
          i = Len(run[m].buf) /\ run[m].idle
    /\ run[m].at = "idle" => run[m].idle /\ run[m].buf = <<>>

Order(m) ==
    /\ Held(m) => /\ ~OnShell(m) /\ (On(m) => ~run[m].idle)
                  /\ \A i \in DOMAIN iopub : ~IdleAt(m, i)
    /\ \A i \in DOMAIN iopub : IdleAt(m, i) => IdleLast(m, i)
    /\ On(m) => IdleEnds(m)

Ordered == HeldOnce /\ \A m \in Msgs : Order(m)

(* Steps that leave the messages alone, and what a run knows of its own.    *)
LEMMA StillOrdered ==
    ASSUME NEW m \in Msgs, Order(m), UNCHANGED <<kernel, iopub, shell>>,
           On(m)' => /\ On(m) /\ (run'[m].idle <=> run[m].idle)
                     /\ (run'[m].reply <=> run[m].reply)
                     /\ run'[m].buf = run[m].buf /\ run'[m].at = run[m].at
    PROVE  Order(m)'
BY DEF Order, Held, OnShell, OnIopub, IdleAt, IdleLast, IdleEnds

LEMMA QuietOrdered ==
    ASSUME Ordered, UNCHANGED <<run, kernel, iopub, shell>>
    PROVE  Ordered'
BY StillOrdered DEF Ordered, HeldOnce, On

LEMMA LostOrdered ==
    ASSUME Ordered, UNCHANGED run, Lost \/ UNCHANGED <<iopub, shell>>,
           kernel' \in {kernel, NoKernel}
    PROVE  Ordered'
<1>1. ASSUME NEW m \in Msgs, Lost PROVE Order(m)'
  <2>1. Held(m)' => Held(m)
    BY DEF Held, NoKernel
  <2> QED BY <1>1, <2>1 DEF Ordered, Order, OnShell, OnIopub, IdleAt, IdleEnds, Lost, On
<1>2. ASSUME NEW m \in Msgs, UNCHANGED <<iopub, shell>> PROVE Order(m)'
  <2>1. Held(m)' => Held(m)
    BY DEF Held, NoKernel
  <2> QED BY <1>2, <2>1 DEF Ordered, Order, OnShell, OnIopub, IdleAt, IdleLast, IdleEnds, On
<1>3. HeldOnce'
  BY DEF Ordered, HeldOnce, NoKernel
<1> QED BY <1>1, <1>2, <1>3 DEF Ordered

LEMMA KernelOrdered ==
    ASSUME IInv, Ordered, KernelPrint \/ KernelAnswer
    PROVE  Ordered'
<1> USE DEF IInv
<1>1. /\ kernel.queue \in Seq(Msgs) /\ iopub \in Seq(Frames) /\ shell \in Seq(Frames)
      /\ kernel.queue # <<>> /\ run' = run
  BY DEF TypeOK, KernelPrint, KernelAnswer
<1>2. PICK h \in Msgs : h = Head(kernel.queue)
  BY <1>1
<1>3. 1 \in DOMAIN kernel.queue /\ kernel.queue[1] = h
  BY <1>1, <1>2
<1>4. Held(h)
  BY <1>3 DEF Held
<1>5. CASE KernelPrint
  <2>1. /\ kernel'.queue = kernel.queue /\ shell' = shell
        /\ iopub' = IF sock = "open" THEN Append(iopub, [msg |-> h, type |-> "out"]) ELSE iopub
    BY <1>1, <1>2, <1>5 DEF KernelPrint, Emit, TypeOK
  <2>2. \A j \in DOMAIN iopub' : \/ j \in DOMAIN iopub /\ iopub'[j] = iopub[j]
                                 \/ iopub'[j].msg = h /\ iopub'[j].type = "out"
    BY <1>1, <2>1
  <2>3. ASSUME NEW m \in Msgs PROVE Order(m)'
    <3>1. \A i \in DOMAIN iopub' : IdleAt(m, i)' => i \in DOMAIN iopub /\ IdleAt(m, i)
      BY <2>2 DEF IdleAt
    <3>2. (Held(m)' <=> Held(m)) /\ (OnShell(m)' <=> OnShell(m))
      BY <2>1 DEF Held, OnShell
    <3>3. CASE m = h
      BY <1>1, <1>4, <3>1, <3>2, <3>3 DEF Ordered, Order, IdleEnds, On
    <3>4. CASE m # h
      <4>1. \A j \in DOMAIN iopub' : iopub'[j].msg = m => j \in DOMAIN iopub /\ iopub[j].msg = m
        BY <2>2, <3>4
      <4> QED BY <1>1, <3>1, <3>2, <4>1
              DEF Ordered, Order, IdleEnds, IdleLast, OnIopub, On
    <3> QED BY <3>3, <3>4
  <2> QED BY <2>1, <2>3 DEF Ordered, HeldOnce
<1>6. CASE KernelAnswer
  <2>1. /\ kernel'.queue = Tail(kernel.queue)
        /\ iopub' = IF sock = "open" THEN Append(iopub, [msg |-> h, type |-> "idle"]) ELSE iopub
        /\ \E s \in {"ok", "error"} : shell' =
              IF sock = "open"
              THEN Append(shell, [msg |-> h, type |-> "reply", status |-> s]) ELSE shell
    BY <1>1, <1>2, <1>6 DEF KernelAnswer, Emit, TypeOK
  <2>2. \A j \in DOMAIN iopub' :
           \/ j \in DOMAIN iopub /\ iopub'[j] = iopub[j]
           \/ sock = "open" /\ j = Len(iopub) + 1 /\ iopub'[j].msg = h
    BY <1>1, <2>1
  <2>3. \A j \in DOMAIN shell' :
           \/ j \in DOMAIN shell /\ shell'[j] = shell[j]
           \/ shell'[j].msg = h
    BY <1>1, <2>1
  <2>4. sock = "open" => OnShell(h)'
    <3> SUFFICES ASSUME sock = "open"
                 PROVE  Len(shell) + 1 \in DOMAIN shell' /\ shell'[Len(shell) + 1].msg = h
      BY DEF OnShell
    <3> QED BY <1>1, <2>1
  <2>5. \A j \in DOMAIN kernel'.queue :
           j \in Nat /\ j + 1 \in DOMAIN kernel.queue /\ kernel'.queue[j] = kernel.queue[j + 1]
    BY <1>1, <2>1
  <2>6. HeldOnce' /\ ~Held(h)' /\ \A m \in Msgs : Held(m)' => Held(m)
    <3>1. HeldOnce'
      <4> SUFFICES ASSUME NEW i \in DOMAIN kernel'.queue, NEW j \in DOMAIN kernel'.queue,
                          kernel'.queue[i] = kernel'.queue[j]
                   PROVE  i = j
        BY DEF HeldOnce
      <4>1. i + 1 = j + 1
        BY <2>5 DEF Ordered, HeldOnce
      <4> QED BY <2>5, <4>1
    <3>2. ASSUME NEW j \in DOMAIN kernel'.queue, kernel'.queue[j] = h PROVE FALSE
      <4>1. j \in Nat /\ j + 1 = 1
        BY <1>3, <2>5, <3>2 DEF Ordered, HeldOnce
      <4>2. j = 0
        BY <4>1
      <4>3. DOMAIN kernel'.queue = 1 .. Len(kernel'.queue)
        BY <1>1, <2>1
      <4> QED BY <4>2, <4>3
    <3> QED BY <2>5, <3>1, <3>2 DEF Held
  <2>7. ASSUME NEW m \in Msgs PROVE Order(m)'
    <3>1. CASE m = h
      <4>1. /\ ~OnShell(m) /\ (On(m) => ~run[m].idle) /\ \A i \in DOMAIN iopub : ~IdleAt(m, i)
        BY <1>4, <3>1 DEF Ordered, Order
      <4>2. ASSUME NEW i \in DOMAIN iopub', IdleAt(m, i)' PROVE IdleLast(m, i)'
        <5>1. sock = "open" /\ i = Len(iopub) + 1
          BY <2>2, <4>1, <4>2 DEF IdleAt
        <5>2. \A j \in DOMAIN iopub' : j <= i
          BY <1>1, <2>1, <5>1
        <5> QED BY <1>1, <2>4, <3>1, <4>1, <5>1, <5>2 DEF IdleLast, On
      <4>3. On(m)' => IdleEnds(m)'
        BY <1>1, <4>1 DEF Ordered, Order, IdleEnds, On
      <4> QED BY <2>6, <3>1, <4>2, <4>3 DEF Order
    <3>2. CASE m # h
      <4>1. /\ \A j \in DOMAIN iopub' : iopub'[j].msg = m => j \in DOMAIN iopub /\ iopub'[j] = iopub[j]
            /\ OnIopub(m)' => OnIopub(m)
            /\ \A i \in DOMAIN iopub' : IdleAt(m, i)' => i \in DOMAIN iopub /\ IdleAt(m, i)
        BY <2>2, <3>2 DEF OnIopub, IdleAt
      <4>2. OnShell(m)' <=> OnShell(m)
        <5>1. OnShell(m)' => OnShell(m)
          BY <2>3, <3>2 DEF OnShell
        <5>2. \A j \in DOMAIN shell : j \in DOMAIN shell' /\ shell'[j] = shell[j]
          BY <1>1, <2>1
        <5> QED BY <5>1, <5>2 DEF OnShell
      <4> QED BY <1>1, <2>6, <4>1, <4>2 DEF Ordered, Order, IdleEnds, IdleLast, On
    <3> QED BY <3>1, <3>2
  <2> QED BY <2>6, <2>7 DEF Ordered
<1> QED BY <1>5, <1>6

LEMMA StartOrdered ==
    ASSUME IInv, Printed, Ordered, NEW r, NEW m \in Msgs, NEW c, NEW by,
           StartRun(r, m, c, by), Fresh(m), UNCHANGED <<iopub, shell, sock>>
    PROVE  Ordered'
<1> USE DEF IInv
<1>1. run \in [Msgs -> RunType] /\ kernel.queue \in Seq(Msgs)
      /\ kernel \in [queue : Seq(Msgs), printed : BOOLEAN]
  BY DEF TypeOK
<1>2. /\ \A n \in Msgs : n # m => run'[n] = run[n]
      /\ run'[m].pc = "wait" /\ ~run'[m].idle /\ run'[m].buf = <<>> /\ run'[m].at = "reply"
  BY <1>1 DEF StartRun, NewRun, NoRun
<1>3. ~Known(m)
  BY DEF Printed, Unsent
<1>4. kernel'.queue = kernel.queue \/ kernel'.queue = Append(kernel.queue, m)
  BY <1>1 DEF StartRun, Send
<1>5. \A i \in DOMAIN kernel'.queue :
        \/ i \in DOMAIN kernel.queue /\ kernel'.queue[i] = kernel.queue[i]
        \/ i = Len(kernel.queue) + 1 /\ kernel'.queue[i] = m
  BY <1>1, <1>4
<1>6. HeldOnce'
  BY <1>3, <1>5 DEF Ordered, HeldOnce, Known
<1>7. ASSUME NEW n \in Msgs PROVE Order(n)'
  <2>1. CASE n = m
    BY <1>2, <1>3, <2>1 DEF Order, Known, OnShell, IdleAt, IdleEnds
  <2>2. CASE n # m
    <3>1. Held(n)' => Held(n)
      BY <1>5, <2>2 DEF Held
    <3> QED BY <1>2, <2>2, <3>1 DEF Ordered, Order, OnShell, OnIopub, IdleAt, IdleLast, IdleEnds, On
  <2> QED BY <2>1, <2>2
<1> QED BY <1>6, <1>7 DEF Ordered

LEMMA DeliverOrdered ==
    ASSUME "idleFirst" \notin Races, IInv, Channels, Ordered, DeliverShell \/ DeliverIopub
    PROVE  Ordered'
<1> USE DEF IInv
<1>1. /\ iopub \in Seq(Frames) /\ shell \in Seq(Frames)
      /\ \A m \in Msgs : run[m].buf \in Seq(Frames)
      /\ kernel' = kernel
  BY DEF TypeOK, RunType, DeliverShell, DeliverIopub
<1>2. \A q \in Seq(Frames) : q # <<>> =>
        /\ Head(q) \in Frames /\ 1 \in DOMAIN q /\ q[1] = Head(q)
        /\ \A i \in DOMAIN Tail(q) : i \in Nat /\ i + 1 \in DOMAIN q /\ Tail(q)[i] = q[i + 1]
        /\ \A i \in DOMAIN q : i # 1 => i - 1 \in DOMAIN Tail(q) /\ Tail(q)[i - 1] = q[i]
  OBVIOUS
<1>3. \A q \in Seq(Frames), f \in Frames :
        /\ Len(Append(q, f)) = Len(q) + 1
        /\ \A i \in DOMAIN Append(q, f) :
              \/ i \in DOMAIN q /\ Append(q, f)[i] = q[i]
              \/ i = Len(q) + 1 /\ Append(q, f)[i] = f
  OBVIOUS
<1>4. HeldOnce' /\ \A m \in Msgs : Held(m)' <=> Held(m)
  BY <1>1 DEF Ordered, HeldOnce, Held
<1>5. CASE DeliverShell
  <2>1. PICK f \in Frames : Receive(f) /\ f = Head(shell)
    BY <1>1, <1>2, <1>5 DEF DeliverShell
  <2>2. shell # <<>> /\ shell' = Tail(shell) /\ iopub' = iopub
    BY <1>5 DEF DeliverShell
  <2>3. f.type = "reply" /\ OnShell(f.msg)
    BY <1>1, <1>2, <2>1, <2>2 DEF Channels, OnShell
  <2>4. ASSUME NEW m \in Msgs PROVE Order(m)'
    <3>1. /\ OnShell(m)' => OnShell(m)
          /\ OnShell(m) => OnShell(m)' \/ m = f.msg
      <4>1. \A j \in DOMAIN shell' : j + 1 \in DOMAIN shell /\ shell'[j] = shell[j + 1]
        BY <1>1, <1>2, <2>2
      <4>2. \A j \in DOMAIN shell : shell[j] = f \/ (j - 1 \in DOMAIN shell' /\ shell'[j - 1] = shell[j])
        BY <1>1, <1>2, <2>1, <2>2
      <4> QED BY <4>1, <4>2 DEF OnShell
    <3>2. /\ On(m)' <=> On(m)
          /\ run'[m].idle <=> run[m].idle
          /\ run[m].reply => run'[m].reply
          /\ run'[m].at = run[m].at
          /\ m = f.msg /\ On(m) => run'[m].reply /\ run'[m].buf = Append(run[m].buf, f)
          /\ m # f.msg => run'[m] = run[m]
      BY <2>1, <2>3, Received DEF On
    <3>3. ASSUME NEW i \in DOMAIN iopub, IdleAt(m, i)' PROVE IdleLast(m, i)'
      <4>1. IdleLast(m, i)
        BY <2>2, <3>3 DEF Ordered, Order, IdleAt
      <4> QED BY <2>2, <3>1, <3>2, <4>1 DEF IdleLast
    <3>4. ASSUME On(m)' PROVE IdleEnds(m)'
      <4>1. IdleEnds(m)
        BY <3>2, <3>4 DEF Ordered, Order
      <4>2. CASE m # f.msg
        BY <2>2, <3>1, <3>2, <4>1, <4>2 DEF IdleEnds, OnIopub
      <4>3. CASE m = f.msg
        <5>1. ~run[m].idle
          BY <2>3, <4>1, <4>3 DEF IdleEnds
        <5>2. \A i \in DOMAIN run[m].buf : run[m].buf[i].type # "idle"
          BY <4>1, <5>1 DEF IdleEnds
        <5>3. PICK b \in Seq(Frames) : b = run[m].buf
          BY <1>1
        <5>4. \A i \in DOMAIN Append(b, f) : Append(b, f)[i].type # "idle"
          BY <1>3, <2>3, <5>2, <5>3
        <5>5. \A i \in DOMAIN run'[m].buf : run'[m].buf[i].type # "idle"
          BY <3>2, <3>4, <4>3, <5>3, <5>4
        <5> QED BY <3>2, <4>1, <5>1, <5>5 DEF IdleEnds
      <4> QED BY <4>2, <4>3
    <3> QED BY <1>4, <2>2, <3>1, <3>2, <3>3, <3>4 DEF Ordered, Order, IdleAt
  <2> QED BY <1>4, <2>4 DEF Ordered
<1>6. CASE DeliverIopub
  <2>1. PICK f \in Frames : Receive(f) /\ f = Head(iopub)
    BY <1>1, <1>2, <1>6 DEF DeliverIopub
  <2>2. /\ iopub # <<>> /\ iopub' = Tail(iopub) /\ shell' = shell
        /\ f.type = "idle" => ~OnShell(f.msg)
    BY <1>6, <2>1 DEF DeliverIopub, OnShell
  <2>3. f.type # "reply" /\ 1 \in DOMAIN iopub /\ iopub[1] = f
    BY <1>1, <1>2, <2>1, <2>2 DEF Channels
  <2>4. ASSUME NEW m \in Msgs PROVE Order(m)'
    <3>1. /\ OnIopub(m)' => OnIopub(m)
          /\ \A i \in DOMAIN iopub' : IdleAt(m, i)' =>
                i \in Nat /\ i + 1 \in DOMAIN iopub /\ IdleAt(m, i + 1)
      BY <1>1, <1>2, <2>2 DEF OnIopub, IdleAt
    <3>2. /\ On(m)' <=> On(m)
          /\ run'[m].reply <=> run[m].reply
          /\ run'[m].at = run[m].at
          /\ m = f.msg /\ On(m) => /\ run'[m].buf = Append(run[m].buf, f)
                                   /\ run'[m].idle <=> run[m].idle \/ f.type = "idle"
          /\ m # f.msg => run'[m] = run[m]
      BY <2>1, <2>3, Received DEF On
    <3>3. f.type = "idle" /\ m = f.msg => IdleAt(m, 1) /\ IdleLast(m, 1)
      BY <2>3 DEF Ordered, Order, IdleAt
    <3>4. ~(f.type = "idle" /\ m = f.msg) /\ On(m) => (run'[m].idle <=> run[m].idle)
      BY <3>2
    <3>5. f.type = "idle" /\ m = f.msg => ~OnIopub(m)'
      <4>1. ASSUME f.type = "idle", m = f.msg, NEW j \in DOMAIN iopub', iopub'[j].msg = m
            PROVE  FALSE
        <5>1. j \in Nat /\ j + 1 \in DOMAIN iopub /\ iopub[j + 1].msg = m
          BY <1>1, <1>2, <2>2, <4>1
        <5>2. j + 1 <= 1
          BY <3>3, <4>1, <5>1 DEF IdleLast
        <5>3. j # 0
          BY <1>1, <2>2, <4>1
        <5> QED BY <5>1, <5>2, <5>3
      <4> QED BY <4>1 DEF OnIopub
    <3>6. ASSUME Held(m)' PROVE /\ ~OnShell(m)' /\ (On(m)' => ~run'[m].idle)
                                /\ \A i \in DOMAIN iopub' : ~IdleAt(m, i)'
      <4>1. Held(m)
        BY <1>4, <3>6
      <4>2. /\ ~OnShell(m) /\ (On(m) => ~run[m].idle)
            /\ \A i \in DOMAIN iopub : ~IdleAt(m, i)
        BY <4>1 DEF Ordered, Order
      <4>3. ~(f.type = "idle" /\ m = f.msg)
        BY <2>3, <3>3, <4>2
      <4> QED BY <2>2, <3>1, <3>2, <3>4, <4>2, <4>3 DEF OnShell
    <3>7. ASSUME NEW i \in DOMAIN iopub', IdleAt(m, i)' PROVE IdleLast(m, i)'
      <4>1. i \in Nat /\ i + 1 \in DOMAIN iopub /\ IdleLast(m, i + 1)
        BY <3>1, <3>7 DEF Ordered, Order
      <4>2. ~(f.type = "idle" /\ m = f.msg)
        BY <3>5, <3>7 DEF OnIopub, IdleAt
      <4>3. \A j \in DOMAIN iopub' : iopub'[j].msg = m => j <= i
        <5> SUFFICES ASSUME NEW j \in DOMAIN iopub', iopub'[j].msg = m PROVE j <= i
          OBVIOUS
        <5>1. j \in Nat /\ j + 1 \in DOMAIN iopub /\ iopub[j + 1].msg = m
          BY <1>1, <1>2, <2>2
        <5>2. j + 1 <= i + 1
          BY <4>1, <5>1 DEF IdleLast
        <5> QED BY <4>1, <5>1, <5>2
      <4> QED BY <2>2, <3>2, <3>4, <4>1, <4>2, <4>3 DEF IdleLast, OnShell
    <3>8. ASSUME On(m)' PROVE IdleEnds(m)'
      <4>1. IdleEnds(m) /\ On(m)
        BY <3>2, <3>8 DEF Ordered, Order
      <4>2. CASE m # f.msg
        BY <2>2, <3>1, <3>2, <4>1, <4>2 DEF IdleEnds, OnShell
      <4>3. CASE m = f.msg
        <5>1. ~run[m].idle
          BY <2>3, <4>1, <4>3 DEF IdleEnds, OnIopub
        <5>2. run'[m].buf = Append(run[m].buf, f) /\ (run'[m].idle <=> f.type = "idle")
          BY <3>2, <4>1, <4>3, <5>1
        <5>3. \A i \in DOMAIN run'[m].buf : run'[m].buf[i].type = "idle" =>
                 i = Len(run'[m].buf) /\ run'[m].idle
          BY <1>1, <1>3, <2>1, <4>1, <5>1, <5>2 DEF IdleEnds
        <5>4. run'[m].idle => run'[m].reply /\ ~OnIopub(m)' /\ ~OnShell(m)'
          BY <2>2, <3>2, <3>3, <3>5, <4>1, <4>3, <5>2 DEF IdleLast, OnShell
        <5>5. run'[m].at # "idle"
          BY <3>2, <4>1, <5>1 DEF IdleEnds
        <5> QED BY <5>3, <5>4, <5>5 DEF IdleEnds
      <4> QED BY <4>2, <4>3
    <3> QED BY <3>6, <3>7, <3>8 DEF Order
  <2> QED BY <1>4, <2>4 DEF Ordered
<1> QED BY <1>5, <1>6

(* A run takes its frames in order, so that status:idle is the last.        *)
LEMMA LoopOrdered ==
    ASSUME IInv, Ordered, NEW m \in Msgs, LoopTake(m) \/ LoopWait(m) \/ FlushDone(m)
    PROVE  Ordered'
<1> USE DEF IInv
<1>1. run \in [Msgs -> RunType] /\ run[m] \in RunType
  BY DEF TypeOK
<1>2. UNCHANGED <<kernel, iopub, shell>> /\ run[m].pc # "off"
  BY DEF LoopTake, LoopWait, FlushDone, envVars
<1>3. CASE LoopWait(m) \/ FlushDone(m)
  <2>1. PICK pc \in {"wait", "resume"} : run' = [run EXCEPT ![m].pc = pc]
    BY <1>3 DEF LoopWait, FlushDone
  <2>2. /\ \A n \in Msgs \ {m} : run'[n] = run[n]
        /\ (run'[m].idle <=> run[m].idle) /\ (run'[m].reply <=> run[m].reply)
        /\ run'[m].buf = run[m].buf /\ run'[m].at = run[m].at
    BY <1>1, <2>1 DEF RunType
  <2>3. ASSUME NEW n \in Msgs PROVE Order(n)'
    <3>1. Order(n) /\ (On(n)' => On(n))
      BY <1>2, <2>2 DEF Ordered, On
    <3> QED BY <1>2, <2>2, <3>1, StillOrdered
  <2> QED BY <1>2, <2>3 DEF Ordered, HeldOnce
<1>4. CASE LoopTake(m)
  <2>1. PICK b \in Seq(Frames) : b = run[m].buf
    BY <1>1 DEF RunType
  <2>2. b # <<>> /\ Head(b) \in Frames /\ b[1] = Head(b) /\ 1 \in DOMAIN b
    BY <1>4, <2>1 DEF LoopTake
  <2>3. PICK h \in Frames : h = Head(b)
    BY <2>2
  <2>4. PICK g : g = [run[m] EXCEPT !.buf = Tail(@),
                       !.pc = IF Awaits(run[m], h.type) THEN "flush" ELSE @,
                       !.at = h.type,
                       !.status = IF h.type = "reply" THEN h.status ELSE @]
    OBVIOUS
  <2>5. run' = [run EXCEPT ![m] = g]
    BY <1>4, <2>1, <2>3, <2>4 DEF LoopTake
  <2>6. /\ g.buf = Tail(b) /\ g.at = h.type
        /\ (g.idle <=> run[m].idle) /\ (g.reply <=> run[m].reply)
    BY <1>1, <2>1, <2>4 DEF RunType
  <2>7. run'[m] = g /\ \A n \in Msgs \ {m} : run'[n] = run[n]
    BY <1>1, <2>5
  <2>8. Order(m) /\ IdleEnds(m)
    BY <1>2 DEF Ordered, Order, On
  <2>9. \A i \in DOMAIN b : b[i].type = "idle" => i = Len(b) /\ run[m].idle
    BY <2>1, <2>8 DEF IdleEnds
  <2>10. /\ Len(Tail(b)) = Len(b) - 1
         /\ \A i \in DOMAIN Tail(b) : i \in Nat /\ i + 1 \in DOMAIN b /\ Tail(b)[i] = b[i + 1]
         /\ Len(b) = 1 => Tail(b) = <<>>
    <3>1. /\ Tail(b) \in Seq(Frames) /\ Len(Tail(b)) = Len(b) - 1
          /\ \A i \in DOMAIN Tail(b) : i \in Nat /\ i + 1 \in DOMAIN b /\ Tail(b)[i] = b[i + 1]
      BY <2>1, <2>2
    <3>2. \A q \in Seq(Frames) : Len(q) = 0 => q = <<>>
      OBVIOUS
    <3>3. Len(b) = 1 => Len(Tail(b)) = 0
      BY <3>1
    <3> QED BY <3>1, <3>2, <3>3
  <2>11. \A i \in DOMAIN Tail(b) : Tail(b)[i].type = "idle" =>
            i = Len(Tail(b)) /\ run[m].idle
    <3> SUFFICES ASSUME NEW i \in DOMAIN Tail(b), Tail(b)[i].type = "idle"
                 PROVE  i = Len(Tail(b)) /\ run[m].idle
      OBVIOUS
    <3>1. i \in Nat /\ i + 1 = Len(b) /\ run[m].idle
      BY <2>9, <2>10
    <3> QED BY <2>10, <3>1
  <2>12. h.type = "idle" => run[m].idle /\ Tail(b) = <<>>
    BY <2>2, <2>3, <2>9, <2>10
  <2>13. IdleEnds(m)'
    BY <1>2, <2>6, <2>7, <2>8, <2>11, <2>12 DEF IdleEnds, OnIopub, OnShell
  <2>14. Order(m)'
    BY <1>2, <2>6, <2>7, <2>8, <2>13
       DEF Order, Held, OnShell, OnIopub, IdleAt, IdleLast, On
  <2>15. ASSUME NEW n \in Msgs \ {m} PROVE Order(n)'
    BY <1>2, <2>7, StillOrdered DEF Ordered, On
  <2> QED BY <1>2, <2>14, <2>15 DEF Ordered, HeldOnce
<1> QED BY <1>3, <1>4

(* runCell starts a run for a request that was sent nowhere yet, of its     *)
(* cell.                                                                    *)
LEMMA CellStarts ==
    ASSUME IInv, NEW c \in Cells, RunCellSend(c) \/ RunCellRedispatch(c)
    PROVE  \E r \in Runtime, m \in Msgs :
             /\ StartRun(r, m, c, "cell") /\ Fresh(m)
             /\ r.execState = "busy" /\ r.cellId[m] = c
             /\ \/ rt.pendingRequests[m] = "queued" /\ rt.cellId[m] = c
                \/ /\ rt.pendingRequests[m] = "none" /\ rt.cellStates[c] # "busy"
                   /\ rt.cellStates[c] = "queued" => Queued(rt, c) = {}
             /\ \A n \in Msgs \ {m} : /\ r.pendingRequests[n] = rt.pendingRequests[n]
                                      /\ r.cellId[n] = rt.cellId[n]
             /\ \A d \in Cells \ {c} : r.cellStates[d] = rt.cellStates[d]
             /\ nextMsg <= nextMsg' /\ m < nextMsg'
             /\ UNCHANGED <<all, epoch, restart, sock, iopub, shell>>
<1> USE DEF IInv
<1>1. rt \in Runtime /\ nextMsg \in Nat \ {0} /\ (\A n \in Msgs : n \in Nat)
  BY DEF TypeOK, Msgs
<1>2. CASE RunCellSend(c)
  <2>1. PICK q : q = Refreshed(c)
    OBVIOUS
  <2>2. PICK e : e = Enqueue(q, nextMsg, c)
    OBVIOUS
  <2>3. PICK r : r = [e EXCEPT !.execState = "busy"]
    OBVIOUS
  <2>4. /\ nextMsg \in Msgs /\ nextMsg' = nextMsg + 1
        /\ StartRun(r, nextMsg, c, "cell")
        /\ UNCHANGED <<all, epoch, restart, sock, iopub, shell>>
    BY <1>2, <2>1, <2>2, <2>3 DEF RunCellSend
  <2>5. /\ q \in Runtime /\ q.pendingRequests = rt.pendingRequests /\ q.cellId = rt.cellId
        /\ \A d \in Cells \ {c} : q.cellStates[d] = rt.cellStates[d]
    BY <1>1, <2>1 DEF Refreshed, Runtime, CellState
  <2>6. /\ e \in Runtime /\ e.cellId[nextMsg] = c
        /\ \A n \in Msgs \ {nextMsg} : /\ e.pendingRequests[n] = rt.pendingRequests[n]
                                       /\ e.cellId[n] = rt.cellId[n]
        /\ \A d \in Cells \ {c} : e.cellStates[d] = rt.cellStates[d]
    <3>1. e \in Runtime
      BY <2>2, <2>4, <2>5, RuntimeFunctions
    <3> QED BY <2>2, <2>4, <2>5, <3>1 DEF Enqueue, Runtime
  <2>7. /\ r \in Runtime /\ r.pendingRequests = e.pendingRequests /\ r.execState = "busy"
        /\ r.cellId = e.cellId /\ r.cellStates = e.cellStates
    BY <2>3, <2>6 DEF Runtime
  <2>8. Fresh(nextMsg) /\ nextMsg <= nextMsg' /\ nextMsg < nextMsg'
    BY <1>1, <2>4 DEF Fresh
  <2>9. /\ rt.pendingRequests[nextMsg] = "none" /\ rt.cellStates[c] # "busy"
        /\ rt.cellStates[c] = "queued" => Queued(rt, c) = {}
    BY <1>1, <1>2, <2>4 DEF RunCellSend, Generations
  <2> QED BY <2>4, <2>6, <2>7, <2>8, <2>9
<1>3. CASE RunCellRedispatch(c)
  <2>1. PICK r : r = [rt EXCEPT !.execState = "busy"]
    OBVIOUS
  <2>2. PICK m \in Msgs : First(m, Queued(rt, c)) /\ StartRun(r, m, c, "cell")
    BY <1>3, <2>1 DEF RunCellRedispatch
  <2>3. UNCHANGED <<nextMsg, all, epoch, restart, sock, iopub, shell>>
    BY <1>3 DEF RunCellRedispatch
  <2>4. /\ r \in Runtime /\ r.pendingRequests = rt.pendingRequests
        /\ r.execState = "busy" /\ r.cellId = rt.cellId /\ r.cellStates = rt.cellStates
    BY <1>1, <2>1 DEF Runtime
  <2>5. rt.pendingRequests[m] = "queued" /\ rt.cellId[m] = c /\ m < nextMsg
    BY <1>1, <2>2 DEF First, Queued, Generations
  <2>6. Fresh(m) /\ nextMsg <= nextMsg' /\ m < nextMsg'
    BY <1>1, <2>3, <2>5 DEF Fresh
  <2> QED BY <2>2, <2>3, <2>4, <2>5, <2>6
<1> QED BY <1>2, <1>3

LEMMA CallStarts ==
    ASSUME IInv, NEW a \in Callers, RunAllNext(a)
    PROVE  \E i \in DOMAIN Notebook, m \in Msgs :
             /\ m = all[a].mids[i] /\ rt.pendingRequests[m] = "queued"
             /\ StartRun(rt, m, Notebook[i], a) /\ Fresh(m) /\ m < nextMsg
             /\ all' = [all EXCEPT ![a].pc = "run", ![a].pos = i + 1]
             /\ all[a].pc = "next"
             /\ UNCHANGED <<nextMsg, epoch, restart, sock, iopub, shell>>
<1> USE DEF IInv
<1>1. nextMsg \in Nat \ {0} /\ (\A n \in Msgs : n \in Nat)
  BY DEF TypeOK, Msgs
<1>2. PICK i \in DOMAIN Notebook :
        /\ rt.pendingRequests[all[a].mids[i]] = "queued"
        /\ StartRun(rt, all[a].mids[i], Notebook[i], a)
        /\ all' = [all EXCEPT ![a].pc = "run", ![a].pos = i + 1]
  BY DEF RunAllNext
<1>3. all[a].pc = "next" /\ UNCHANGED <<nextMsg, epoch, restart, sock, iopub, shell>>
  BY DEF RunAllNext
<1>4. PICK m \in Msgs : m = all[a].mids[i]
  BY <1>3 DEF OneRunPerCall
<1>5. m < nextMsg
  BY <1>1, <1>2, <1>4 DEF Generations
<1>6. Fresh(m)
  BY <1>2, <1>4 DEF Fresh
<1> QED BY <1>2, <1>3, <1>4, <1>5, <1>6

LEMMA FinishOrdered ==
    ASSUME IInv, Ordered, NEW m \in Msgs, NEW aborted \in BOOLEAN, Finish(m, aborted)
    PROVE  Ordered'
<1>1. UNCHANGED <<kernel, iopub, shell>> /\ run' = [run EXCEPT ![m] = NoRun]
  BY DEF Finish, envVars
<1>2. run'[m].pc = "off" /\ \A n \in Msgs \ {m} : run'[n] = run[n]
  BY <1>1 DEF IInv, TypeOK, NoRun
<1>3. ASSUME NEW n \in Msgs PROVE Order(n)'
  <2>1. Order(n)
    BY DEF Ordered
  <2> QED BY <1>1, <1>2, <2>1, StillOrdered DEF On
<1> QED BY <1>1, <1>3 DEF Ordered, HeldOnce

LEMMA RestartOrdered ==
    ASSUME IInv, Ordered, NEW r \in Restarters, RestartBegin(r) \/ RestartStep(r)
    PROVE  Ordered'
<1>1. CASE RestartBegin(r)
  <2>1. UNCHANGED <<kernel, iopub, shell>>
    BY <1>1 DEF RestartBegin, envVars
  <2>2. \A m \in Msgs : /\ (run'[m].pc # "off" <=> run[m].pc # "off")
                        /\ (run'[m].idle <=> run[m].idle) /\ (run'[m].reply <=> run[m].reply)
                        /\ run'[m].buf = run[m].buf /\ run'[m].at = run[m].at
    BY <1>1 DEF RestartBegin, IInv, TypeOK, RunType
  <2>3. ASSUME NEW m \in Msgs PROVE Order(m)'
    <3>1. Order(m)
      BY DEF Ordered
    <3> QED BY <2>1, <2>2, <3>1, StillOrdered DEF On
  <2> QED BY <2>1, <2>3 DEF Ordered, HeldOnce
<1>2. CASE RestartStep(r)
  BY <1>2, LostOrdered
     DEF RestartStep, RestartRefused, RestartThrows, RestartAccepted, RestartReopened,
         RestartDone, RestartUnanswered, envVars
<1> QED BY <1>1, <1>2

LEMMA OrderedStep ==
    ASSUME "idleFirst" \notin Races, IInv, Channels, Printed, Ordered, [Next]_vars
    PROVE  Ordered'
<1>1. CASE UNCHANGED <<run, kernel, iopub, shell>>
  BY <1>1, QuietOrdered
<1>2. CASE Command
  <2>1. CASE \E c \in Cells : RunCellSend(c) \/ RunCellRedispatch(c)
    BY <2>1, CellStarts, StartOrdered
  <2>2. CASE \E c \in Cells : RunCellQueue(c) \/ CancelCell(c)
    BY <1>1, <2>2 DEF RunCellQueue, CancelCell, envVars
  <2>3. CASE \E a \in Callers : RunAll(a)
    <3>1. UNCHANGED <<run, kernel, iopub, shell>>
      BY <2>3 DEF RunAll, envVars
    <3> QED BY <1>1, <3>1
  <2> QED BY <1>2, <2>1, <2>2, <2>3, RestartOrdered DEF Command
<1>3. CASE Continuation \/ Viewer
  <2>1. CASE \E a \in Callers : RunAllNext(a)
    BY <2>1, CallStarts, StartOrdered
  <2>2. CASE \E a \in Callers : RunAllEnd(a) \/ RunAllStopped(a)
    BY <1>1, <2>2 DEF RunAllEnd, RunAllStopped, envVars
  <2> QED BY <1>3, <2>1, <2>2, LoopOrdered, FinishOrdered
          DEF Continuation, Viewer, FinishNormally, FinishAborted
<1>4. CASE Kernel
  BY <1>4, KernelOrdered DEF Kernel
<1>5. CASE DeliverShell \/ DeliverIopub
  BY <1>5, DeliverOrdered
<1>6. CASE \E r \in Restarters : RestartStep(r)
  BY <1>6, RestartOrdered
<1>7. CASE SocketLost \/ SocketBack("open") \/ SocketBack("closed")
  BY <1>7, LostOrdered DEF SocketLost, SocketBack
<1>8. CASE UNCHANGED vars
  BY <1>1, <1>8 DEF vars
<1> QED BY <1>2, <1>3, <1>4, <1>5, <1>6, <1>7, <1>8 DEF Next

(***************************************************************************)
(* The kernel has one worker at a time: a run of runCell, or a runAll call *)
(* and the run it waits for.  While a restart is in progress nothing is    *)
(* registered, and the worker it interrupted is gone when it ends.         *)
(***************************************************************************)
Running == {m \in Msgs : On(m)}
Calling == {a \in Callers : all[a].pc # "off"}

(* An aborted run is woken, and a call waits for a run it started.          *)
Waits ==
    /\ \A m \in Msgs : run[m].pc = "wait" => ~Aborted(m)
    /\ \A a \in Callers : all[a].pc = "run" => \E m \in Running : run[m].by = a

(* runCell frees the kernel when it has taken status:idle, and has only its *)
(* finally block left.                                                      *)
Freed(m) == run[m].by = "cell" /\ run[m].at = "idle" /\ run[m].pc = "resume"

OneJob ==
    /\ \A m, n \in Running : m = n
    /\ \A a, b \in Calling : a = b
    /\ \A m \in Running : run[m].by = "cell" => Calling = {}
    /\ \A m \in Running : ~Aborted(m) /\ rt.pendingRequests[m] = "sent"
    /\ rt.execState # "restarting"
    /\ Calling # {} => rt.execState = "busy"
    /\ \A m \in Running : rt.execState = "busy" \/ Freed(m)

Leftovers == Running # {} \/ Calling # {}
RestartHolds ==
    /\ rt.execState # "busy"
    /\ \A m \in Running : Aborted(m)
    /\ Leftovers => \E r \in Restarters : restart[r].pc # "off" /\ restart[r].epoch = epoch

Alternate == IF Restarting THEN RestartHolds ELSE OneJob

Jobs == Waits /\ NoneInRestart /\ Alternate

(* Nothing runs when a command may start a run, and nothing is left when    *)
(* the answers of the viewer have come and no continuation is due.          *)
LEMMA NothingRuns ==
    ASSUME "runInRestart" \notin Races, IInv, Jobs, MayRun, rt.execState # "busy"
    PROVE  Running = {} /\ Calling = {} /\ ~Restarting /\ OneJob
<1>1. ~Restarting /\ OneJob
  BY DEF MayRun, Restarting, Jobs, Alternate
<1>2. Calling = {} /\ Running = {}
  BY <1>1 DEF OneJob, Freed, MayRun, Quiescent, Running
<1> QED BY <1>1, <1>2

LEMMA NothingLeft ==
    ASSUME Races = {}, IInv, Jobs, Restarting, Quiescent, Flushed
    PROVE  Running = {} /\ Calling = {}
<1>1. Running = {}
  <2> SUFFICES ASSUME NEW m \in Msgs PROVE run[m].pc = "off"
    BY DEF Running, On
  <2>1. run[m].pc \in {"off", "wait", "resume", "flush"}
    BY DEF IInv, TypeOK, RunType
  <2>2. run[m].pc = "wait" => ~Aborted(m) /\ On(m)
    BY DEF Jobs, Waits, On
  <2>3. On(m) => Aborted(m)
    BY DEF Jobs, Alternate, RestartHolds, Running
  <2> QED BY <2>1, <2>2, <2>3 DEF Quiescent, Flushed
<1>2. ASSUME NEW a \in Callers PROVE all[a].pc = "off"
  <2>1. all[a].pc \in {"off", "next", "run", "stop"}
    BY DEF IInv, TypeOK, AllType
  <2>2. all[a].pc # "run"
    BY <1>1 DEF Jobs, Waits
  <2> QED BY <2>1, <2>2 DEF Quiescent, Flushed
<1> QED BY <1>1, <1>2 DEF Calling

(* The run a job consists of belongs to the call, if there is one.          *)
LEMMA JobOfCall ==
    ASSUME IInv, OneJob, NEW a \in Callers, all[a].pc \in {"next", "stop"}
    PROVE  Running = {}
<1>1. a \in Calling
  BY DEF Calling
<1> SUFFICES ASSUME NEW m \in Running PROVE FALSE
  OBVIOUS
<1>2. run[m].by # "cell" /\ run[m].by \in Callers
  BY <1>1 DEF OneJob, Running, IInv, TypeOK, RunType
<1>3. all[run[m].by].pc = "run"
  BY <1>2 DEF IInv, OneRunPerCall, Running, On
<1>4. run[m].by = a
  BY <1>1, <1>2, <1>3 DEF OneJob, Calling
<1> QED BY <1>3, <1>4

(* Waits, under any races.                                                  *)
LEMMA StillWaits ==
    ASSUME Waits, UNCHANGED epoch,
           \A m \in Msgs : /\ run'[m].epoch = run[m].epoch
                           /\ run'[m].by = run[m].by
                           /\ run'[m].pc # "off" <=> run[m].pc # "off"
                           /\ run'[m].pc = "wait" => run[m].pc = "wait" \/ ~Aborted(m),
           \A a \in Callers : all'[a].pc = "run" => all[a].pc = "run"
    PROVE  Waits'
<1>1. \A m \in Msgs : run'[m].pc = "wait" => ~Aborted(m)'
  BY DEF Waits, Aborted
<1>2. \A a \in Callers : all'[a].pc = "run" => \E m \in Running' : run'[m].by = a
  BY DEF Waits, Running, On
<1> QED BY <1>1, <1>2 DEF Waits

(* What starting a run does.                                                *)
LEMMA Started ==
    ASSUME TypeOK, NEW r \in Runtime, NEW m \in Msgs, NEW c \in Cells, NEW by,
           StartRun(r, m, c, by)
    PROVE  /\ run'[m] = NewRun(by) /\ \A n \in Msgs \ {m} : run'[n] = run[n]
           /\ run'[m].pc = "wait" /\ run'[m].by = by /\ run'[m].epoch = epoch
           /\ rt'.pendingRequests[m] = "sent"
           /\ \A n \in Msgs \ {m} : rt'.pendingRequests[n] = r.pendingRequests[n]
           /\ rt'.execState = r.execState /\ rt'.cellId = r.cellId
           /\ rt'.cellStates[r.cellId[m]] = "busy"
           /\ \A d \in Cells \ {r.cellId[m]} : rt'.cellStates[d] = r.cellStates[d]
           /\ outputs'[c] = {} /\ \A d \in Cells \ {c} : outputs'[d] = outputs[d]
<1>1. run \in [Msgs -> RunType] /\ outputs \in [Cells -> SUBSET Msgs]
  BY DEF TypeOK
<1>2. run' = [run EXCEPT ![m] = NewRun(by)] /\ rt' = MarkSent(r, m)
        /\ outputs' = [outputs EXCEPT ![c] = {}]
  BY DEF StartRun
<1>3. NewRun(by).pc = "wait" /\ NewRun(by).by = by /\ NewRun(by).epoch = epoch
  BY DEF NewRun, NoRun
<1>4. /\ run'[m] = NewRun(by) /\ \A n \in Msgs \ {m} : run'[n] = run[n]
      /\ outputs'[c] = {} /\ \A d \in Cells \ {c} : outputs'[d] = outputs[d]
  BY <1>1, <1>2
<1>5. /\ rt'.pendingRequests[m] = "sent"
      /\ \A n \in Msgs \ {m} : rt'.pendingRequests[n] = r.pendingRequests[n]
      /\ rt'.execState = r.execState /\ rt'.cellId = r.cellId
  BY <1>2 DEF MarkSent, Runtime
<1>6. r.cellId[m] \in Cells
  BY DEF Runtime
<1>7. /\ rt'.cellStates[r.cellId[m]] = "busy"
      /\ \A d \in Cells \ {r.cellId[m]} : rt'.cellStates[d] = r.cellStates[d]
  BY <1>2, <1>6 DEF MarkSent, Runtime
<1> QED BY <1>3, <1>4, <1>5, <1>7

LEMMA WaitsStep ==
    ASSUME IInv, Printed, Waits, [Next]_vars
    PROVE  Waits'
<1>0. run \in [Msgs -> RunType] /\ all \in [Callers -> AllType] /\ "cell" \notin Callers
  BY ExecutionAssumption DEF IInv, TypeOK
<1>1. CASE UNCHANGED <<run, epoch>> /\ \A a \in Callers : all'[a].pc = "run" => all[a].pc = "run"
  BY <1>1, StillWaits
<1>2. ASSUME NEW r \in Runtime, NEW m \in Msgs, NEW c \in Cells, NEW by,
             StartRun(r, m, c, by), Fresh(m), UNCHANGED epoch,
             \A a \in Callers : all'[a].pc = "run" => all[a].pc = "run" \/ a = by
      PROVE  Waits'
  <2>1. /\ \A n \in Msgs \ {m} : run'[n] = run[n]
        /\ run'[m].pc = "wait" /\ run'[m].by = by /\ run'[m].epoch = epoch
    BY <1>2, Started DEF IInv
  <2>2. ~On(m) /\ epoch \in Nat
    BY <1>2 DEF Printed, Unsent, Known, IInv, TypeOK
  <2>3. ASSUME NEW n \in Msgs, run'[n].pc = "wait" PROVE ~Aborted(n)'
    <3>1. CASE n = m
      BY <1>2, <2>1, <2>2, <3>1 DEF Aborted
    <3>2. CASE n # m
      BY <1>2, <2>1, <2>3, <3>2 DEF Waits, Aborted
    <3> QED BY <3>1, <3>2
  <2>4. ASSUME NEW a \in Callers, all'[a].pc = "run"
        PROVE  \E n \in Running' : run'[n].by = a
    <3>1. CASE a = by
      <4>1. m \in Running' /\ run'[m].by = a
        BY <2>1, <3>1 DEF Running, On
      <4> QED BY <4>1
    <3>2. CASE a # by
      <4>1. PICK n \in Running : run[n].by = a
        BY <1>2, <2>4, <3>2 DEF Waits
      <4>2. n \in Running' /\ run'[n].by = a
        BY <2>1, <2>2, <4>1 DEF Running, On
      <4> QED BY <4>2
    <3> QED BY <3>1, <3>2
  <2> QED BY <2>3, <2>4 DEF Waits
<1>3. CASE Command
  <2>1. ASSUME NEW c \in Cells, RunCellSend(c) \/ RunCellRedispatch(c) PROVE Waits'
    BY <1>2, <2>1, CellStarts
  <2>2. CASE \E c \in Cells : RunCellQueue(c) \/ CancelCell(c)
    BY <1>1, <2>2 DEF RunCellQueue, CancelCell
  <2>3. ASSUME NEW a \in Callers, RunAll(a) PROVE Waits'
    <3>1. \A b \in Callers : all'[b].pc = "run" => all[b].pc = "run"
      BY <1>0, <2>3 DEF RunAll
    <3>2. UNCHANGED <<run, epoch>>
      BY <2>3 DEF RunAll
    <3> QED BY <1>1, <3>1, <3>2
  <2>4. ASSUME NEW r \in Restarters, RestartBegin(r) PROVE Waits'
    <3>1. \A m \in Msgs : /\ run'[m].pc # "wait" /\ run'[m].by = run[m].by
                          /\ run'[m].pc # "off" <=> run[m].pc # "off"
      BY <1>0, <2>4 DEF RestartBegin, RunType
    <3>2. all' = all
      BY <2>4 DEF RestartBegin
    <3> QED BY <3>1, <3>2 DEF Waits, Running, On
  <2> QED BY <1>3, <2>1, <2>2, <2>3, <2>4 DEF Command
<1>4. ASSUME NEW m \in Msgs, LoopTake(m) \/ LoopWait(m) \/ FlushDone(m) PROVE Waits'
  <2>1. PICK g : /\ run' = [run EXCEPT ![m] = g]
                 /\ g.by = run[m].by /\ g.epoch = run[m].epoch /\ g.pc # "off"
                 /\ g.pc = "wait" => run[m].pc = "wait" \/ ~Aborted(m)
    <3>1. CASE LoopTake(m)
      <4>1. PICK h : h = Head(run[m].buf)
        OBVIOUS
      <4>2. PICK g : g = [run[m] EXCEPT !.buf = Tail(@),
                       !.pc = IF Awaits(run[m], h.type) THEN "flush" ELSE @,
                       !.at = h.type,
                       !.status = IF h.type = "reply" THEN h.status ELSE @]
        OBVIOUS
      <4>3. run' = [run EXCEPT ![m] = g] /\ run[m].pc = "resume"
        BY <3>1, <4>1, <4>2 DEF LoopTake
      <4>4. g.by = run[m].by /\ g.epoch = run[m].epoch /\ g.pc \in {"flush", "resume"}
        BY <1>0, <4>2, <4>3 DEF RunType
      <4> QED BY <4>3, <4>4
    <3>2. CASE LoopWait(m)
      <4>1. PICK g : g = [run[m] EXCEPT !.pc = "wait"]
        OBVIOUS
      <4>2. run' = [run EXCEPT ![m] = g] /\ ~Aborted(m)
        BY <1>0, <3>2, <4>1 DEF LoopWait
      <4>3. g.by = run[m].by /\ g.epoch = run[m].epoch /\ g.pc = "wait"
        BY <1>0, <4>1 DEF RunType
      <4> QED BY <4>2, <4>3
    <3>3. CASE FlushDone(m)
      <4>1. PICK g : g = [run[m] EXCEPT !.pc = "resume"]
        OBVIOUS
      <4>2. run' = [run EXCEPT ![m] = g]
        BY <1>0, <3>3, <4>1 DEF FlushDone
      <4>3. g.by = run[m].by /\ g.epoch = run[m].epoch /\ g.pc = "resume"
        BY <1>0, <4>1 DEF RunType
      <4> QED BY <4>2, <4>3
    <3> QED BY <1>4, <3>1, <3>2, <3>3
  <2>2. run[m].pc # "off" /\ UNCHANGED <<all, epoch>>
    BY <1>4 DEF LoopTake, LoopWait, FlushDone
  <2>3. run'[m] = g /\ \A n \in Msgs \ {m} : run'[n] = run[n]
    BY <1>0, <2>1
  <2> QED BY <2>1, <2>2, <2>3, StillWaits
<1>5. ASSUME NEW m \in Msgs, NEW aborted \in BOOLEAN, Finish(m, aborted) PROVE Waits'
  <2>1. /\ run'[m].pc = "off" /\ \A n \in Msgs \ {m} : run'[n] = run[n]
        /\ UNCHANGED epoch
    BY <1>0, <1>5 DEF Finish, NoRun
  <2>2. ASSUME NEW a \in Callers, all'[a].pc = "run" PROVE all[a].pc = "run" /\ run[m].by # a
    <3>1. CASE FinishCell(m, aborted)
      BY <1>0, <2>2, <3>1 DEF FinishCell
    <3>2. CASE \E b \in Callers : FinishEntry(m, b, aborted)
      <4>1. PICK b \in Callers : FinishEntry(m, b, aborted)
        BY <3>2
      <4>2. run[m].by = b /\ (all' = [all EXCEPT ![b].pc = "stop"] \/ all' = [all EXCEPT ![b].pc = "next"])
        BY <4>1 DEF FinishEntry
      <4>3. all'[b].pc # "run" /\ (a # b => all'[a] = all[a])
        BY <1>0, <4>2 DEF AllType
      <4> QED BY <2>2, <4>2, <4>3
    <3> QED BY <1>5, <3>1, <3>2 DEF Finish
  <2>3. ASSUME NEW a \in Callers, all'[a].pc = "run" PROVE \E n \in Running' : run'[n].by = a
    <3>1. all[a].pc = "run" /\ run[m].by # a
      BY <2>2, <2>3
    <3>2. PICK n \in Running : run[n].by = a
      BY <3>1 DEF Waits
    <3>3. n \in Running' /\ run'[n].by = a
      BY <2>1, <3>1, <3>2 DEF Running, On
    <3> QED BY <3>3
  <2> QED BY <2>1, <2>3 DEF Waits, Aborted
<1>6. CASE Continuation \/ Viewer
  <2>1. ASSUME NEW a \in Callers, RunAllNext(a) PROVE Waits'
    <3>1. PICK i \in DOMAIN Notebook, m \in Msgs :
             /\ StartRun(rt, m, Notebook[i], a) /\ Fresh(m) /\ UNCHANGED epoch
             /\ all' = [all EXCEPT ![a].pc = "run", ![a].pos = i + 1]
      BY <2>1, CallStarts
    <3>2. rt \in Runtime /\ Notebook[i] \in Cells
      BY ExecutionAssumption DEF IInv, TypeOK
    <3>3. \A b \in Callers : all'[b].pc = "run" => all[b].pc = "run" \/ b = a
      BY <1>0, <3>1
    <3> QED BY <1>2, <3>1, <3>2, <3>3
  <2>2. ASSUME NEW a \in Callers, RunAllEnd(a) \/ RunAllStopped(a) PROVE Waits'
    <3>1. \A b \in Callers : all'[b].pc = "run" => all[b].pc = "run"
      BY <1>0, <2>2 DEF RunAllEnd, RunAllStopped, AllOff
    <3>2. UNCHANGED <<run, epoch>>
      BY <2>2 DEF RunAllEnd, RunAllStopped
    <3> QED BY <1>1, <3>1, <3>2
  <2> QED BY <1>4, <1>5, <1>6, <2>1, <2>2
          DEF Continuation, Viewer, FinishNormally, FinishAborted
<1>7. CASE DeliverShell \/ DeliverIopub
  <2>1. iopub \in Seq(Frames) /\ shell \in Seq(Frames)
    BY DEF IInv, TypeOK
  <2>2. PICK f \in Frames : Receive(f)
    BY <1>7, <2>1 DEF DeliverShell, DeliverIopub
  <2>3. UNCHANGED <<all, epoch>>
    BY <1>7 DEF DeliverShell, DeliverIopub
  <2>4. \A n \in Msgs : /\ run'[n].by = run[n].by /\ run'[n].epoch = run[n].epoch
                        /\ run'[n].pc # "off" <=> run[n].pc # "off"
                        /\ run'[n].pc = "wait" => run[n].pc = "wait"
    <3> SUFFICES ASSUME NEW n \in Msgs
                 PROVE  /\ run'[n].by = run[n].by /\ run'[n].epoch = run[n].epoch
                        /\ run'[n].pc # "off" <=> run[n].pc # "off"
                        /\ run'[n].pc = "wait" => run[n].pc = "wait"
      OBVIOUS
    <3> QED BY <2>2, Received DEF IInv
  <2> QED BY <2>3, <2>4, StillWaits
<1>8. CASE \/ Kernel \/ SocketLost \/ SocketBack("open") \/ SocketBack("closed")
           \/ UNCHANGED vars \/ \E r \in Restarters : RestartStep(r)
  BY <1>1, <1>8 DEF Kernel, KernelPrint, KernelAnswer, SocketLost, SocketBack, vars,
       RestartStep, RestartRefused, RestartThrows, RestartAccepted, RestartReopened,
       RestartDone, RestartUnanswered
<1> QED BY <1>3, <1>6, <1>7, <1>8 DEF Next

(* Steps within a job, or within a restart, that neither start a run nor    *)
(* change execState.                                                        *)
LEMMA StillAlternate ==
    ASSUME Alternate, UNCHANGED <<epoch, restart>>, rt'.execState = rt.execState,
           Calling' \subseteq Calling,
           \A m \in Msgs : run'[m].pc # "off" =>
              /\ run[m].pc # "off" /\ run'[m].by = run[m].by /\ run'[m].epoch = run[m].epoch
              /\ ~Restarting => /\ rt.pendingRequests[m] = "sent" => rt'.pendingRequests[m] = "sent"
                                /\ rt.execState # "busy" /\ Freed(m) => Freed(m)'
    PROVE  Alternate'
<1>1. Running' \subseteq Running /\ (Restarting' <=> Restarting)
  BY DEF Running, On, Restarting
<1>2. \A m \in Running' : Aborted(m)' <=> Aborted(m)
  BY DEF Running, On, Aborted
<1>3. CASE Restarting
  <2>1. RestartHolds'
    BY <1>1, <1>2, <1>3 DEF Alternate, RestartHolds, Leftovers
  <2> QED BY <1>1, <1>3, <2>1 DEF Alternate
<1>4. CASE ~Restarting
  <2>1. OneJob
    BY <1>4 DEF Alternate
  <2>2. \A m \in Running' : rt'.execState = "busy" \/ Freed(m)'
    BY <1>1, <1>4, <2>1 DEF OneJob, Running, On
  <2>3. \A m \in Running' : ~Aborted(m)' /\ rt'.pendingRequests[m] = "sent"
    BY <1>1, <1>2, <1>4, <2>1 DEF OneJob, Running, On
  <2>4. \A m \in Running' : run'[m].by = "cell" => Calling' = {}
    BY <1>1, <2>1 DEF OneJob, Running, On
  <2>5. OneJob'
    BY <1>1, <2>1, <2>2, <2>3, <2>4 DEF OneJob
  <2> QED BY <1>1, <1>4, <2>5 DEF Alternate
<1> QED BY <1>3, <1>4

(* A job begins with a run that runCell starts, or with a runAll call.      *)
LEMMA CellBegins ==
    ASSUME "runInRestart" \notin Races, IInv, Printed, Jobs,
           NEW c \in Cells, RunCellSend(c) \/ RunCellRedispatch(c)
    PROVE  Alternate'
<1>1. MayRun /\ rt.execState # "busy"
  BY DEF RunCellSend, RunCellRedispatch
<1>2. Running = {} /\ Calling = {} /\ ~Restarting
  BY <1>1, NothingRuns
<1>3. PICK r \in Runtime, m \in Msgs :
        /\ StartRun(r, m, c, "cell") /\ r.execState = "busy"
        /\ UNCHANGED <<all, epoch, restart>>
  BY CellStarts
<1>4. /\ run'[m].by = "cell" /\ run'[m].epoch = epoch
      /\ \A n \in Msgs \ {m} : run'[n] = run[n]
      /\ rt'.pendingRequests[m] = "sent" /\ rt'.execState = "busy"
  BY <1>3, Started DEF IInv
<1>5. Calling' = {} /\ Running' \subseteq {m} /\ ~Restarting'
  BY <1>2, <1>3, <1>4 DEF Calling, Running, On, Restarting
<1>6. ~Aborted(m)'
  BY <1>3, <1>4 DEF Aborted, IInv, TypeOK
<1>7. OneJob'
  BY <1>4, <1>5, <1>6 DEF OneJob
<1> QED BY <1>5, <1>7 DEF Alternate

LEMMA CallBegins ==
    ASSUME "runInRestart" \notin Races, IInv, Jobs, NEW a \in Callers, RunAll(a)
    PROVE  Alternate'
<1>1. MayRun /\ rt.execState # "busy"
  BY DEF RunAll
<1>2. Running = {} /\ Calling = {} /\ ~Restarting
  BY <1>1, NothingRuns
<1>3. /\ UNCHANGED <<run, restart>>
      /\ \E x : all' = [all EXCEPT ![a] = x]
  BY DEF RunAll
<1>4. rt'.execState = "busy"
  BY DEF RunAll, IInv, TypeOK, Runtime
<1>5. Running' = {} /\ ~Restarting' /\ Calling' \subseteq {a}
  BY <1>2, <1>3 DEF Running, On, Restarting, Calling, IInv, TypeOK
<1>6. OneJob'
  BY <1>4, <1>5 DEF OneJob
<1> QED BY <1>5, <1>6 DEF Alternate

(* runAll starts its next run when the one before it has ended.             *)
LEMMA CallGoesOn ==
    ASSUME "runInRestart" \notin Races, IInv, Printed, Jobs, NEW a \in Callers, RunAllNext(a)
    PROVE  Running = {} /\ ~Restarting /\ OneJob /\ Alternate'
<1>1. PICK i \in DOMAIN Notebook, m \in Msgs :
        /\ rt.pendingRequests[m] = "queued" /\ StartRun(rt, m, Notebook[i], a)
        /\ all' = [all EXCEPT ![a].pc = "run", ![a].pos = i + 1] /\ all[a].pc = "next"
        /\ UNCHANGED <<epoch, restart>>
  BY CallStarts
<1>2. ~Restarting
  BY <1>1 DEF Jobs, NoneInRestart, Live
<1>3. OneJob /\ Running = {}
  BY <1>1, <1>2, JobOfCall DEF Jobs, Alternate
<1>4. Calling = {a} /\ rt.execState = "busy"
  BY <1>1, <1>3 DEF OneJob, Calling
<1>5. rt \in Runtime /\ Notebook[i] \in Cells /\ all \in [Callers -> AllType] /\ a # "cell"
  BY ExecutionAssumption DEF IInv, TypeOK
<1>6. /\ run'[m].by = a /\ run'[m].epoch = epoch
      /\ \A n \in Msgs \ {m} : run'[n] = run[n]
      /\ rt'.pendingRequests[m] = "sent" /\ rt'.execState = "busy"
  BY <1>1, <1>4, <1>5, Started DEF IInv
<1>7. Running' \subseteq {m} /\ ~Restarting'
  BY <1>1, <1>2, <1>3, <1>6 DEF Running, On, Restarting
<1>8. Calling' \subseteq {a}
  BY <1>1, <1>4, <1>5 DEF Calling
<1>9. ~Aborted(m)'
  BY <1>1, <1>6 DEF Aborted, IInv, TypeOK
<1>10. OneJob'
  BY <1>5, <1>6, <1>7, <1>8, <1>9 DEF OneJob
<1> QED BY <1>2, <1>3, <1>7, <1>10 DEF Alternate

LEMMA CallEnds ==
    ASSUME IInv, Jobs, NEW a \in Callers, RunAllEnd(a) \/ RunAllStopped(a)
    PROVE  Alternate'
<1>1. /\ rt' = Settle(rt) /\ UNCHANGED <<run, epoch, restart>>
      /\ all' = [all EXCEPT ![a] = AllOff] /\ all[a].pc \in {"next", "stop"}
  BY DEF RunAllEnd, RunAllStopped
<1>2. /\ rt'.pendingRequests = rt.pendingRequests
      /\ rt'.execState = IF rt.execState = "busy" THEN "idle" ELSE rt.execState
  BY <1>1 DEF Settle, IInv, TypeOK, Runtime
<1>3. Calling' = Calling \ {a}
  BY <1>1 DEF Calling, AllOff, IInv, TypeOK
<1>4. CASE Restarting
  <2>1. rt'.execState = rt.execState
    BY <1>2, <1>4 DEF Jobs, Alternate, RestartHolds
  <2> QED BY <1>1, <1>3, <1>4, <2>1, StillAlternate DEF Jobs
<1>5. CASE ~Restarting
  <2>1. OneJob /\ Running = {}
    BY <1>1, <1>5, JobOfCall DEF Jobs, Alternate
  <2>2. Calling' = {}
    BY <1>1, <1>3, <2>1 DEF OneJob, Calling
  <2>3. Running' = {} /\ ~Restarting'
    BY <1>1, <1>5, <2>1 DEF Running, On, Restarting
  <2>4. OneJob'
    BY <1>2, <2>1, <2>2, <2>3 DEF OneJob
  <2> QED BY <2>3, <2>4 DEF Alternate
<1> QED BY <1>4, <1>5

(* runCell frees the kernel once, when nothing of its run is outstanding.   *)
LEMMA LoopAlternate ==
    ASSUME IInv, Ordered, Jobs, NEW m \in Msgs, LoopTake(m) \/ LoopWait(m) \/ FlushDone(m)
    PROVE  Alternate'
<1>1. run \in [Msgs -> RunType] /\ run[m] \in RunType /\ rt \in Runtime
  BY DEF IInv, TypeOK
<1>2. UNCHANGED <<all, epoch, restart>> /\ run[m].pc # "off"
  BY DEF LoopTake, LoopWait, FlushDone
<1>3. Calling' = Calling
  BY <1>2 DEF Calling
<1>4. CASE LoopTake(m) \/ LoopWait(m)
  <2>1. ~Freed(m)
    <3>1. IdleEnds(m)
      BY <1>2 DEF Ordered, Order, On
    <3>2. run[m].at = "idle" => run[m].idle /\ run[m].reply /\ run[m].buf = <<>>
      BY <3>1 DEF IdleEnds
    <3> QED BY <1>4, <3>2 DEF Freed, LoopTake, LoopWait, Streaming
  <2>2. rt' = rt
    BY <1>4 DEF LoopTake, LoopWait
  <2>3. /\ run'[m].by = run[m].by /\ run'[m].epoch = run[m].epoch
        /\ \A n \in Msgs \ {m} : run'[n] = run[n]
    <3>1. CASE LoopTake(m)
      <4>1. PICK h : h = Head(run[m].buf)
        OBVIOUS
      <4>2. PICK g : g = [run[m] EXCEPT !.buf = Tail(@),
                       !.pc = IF Awaits(run[m], h.type) THEN "flush" ELSE @,
                       !.at = h.type,
                       !.status = IF h.type = "reply" THEN h.status ELSE @]
        OBVIOUS
      <4>3. run' = [run EXCEPT ![m] = g]
        BY <3>1, <4>1, <4>2 DEF LoopTake
      <4>4. g.by = run[m].by /\ g.epoch = run[m].epoch
        BY <1>1, <4>2 DEF RunType
      <4> QED BY <1>1, <4>3, <4>4
    <3>2. CASE LoopWait(m)
      BY <1>1, <3>2 DEF LoopWait, RunType
    <3> QED BY <1>4, <3>1, <3>2
  <2>4. \A n \in Msgs \ {m} : Freed(n)' <=> Freed(n)
    BY <2>3 DEF Freed
  <2>5. ASSUME NEW n \in Msgs, run'[n].pc # "off"
        PROVE  /\ run[n].pc # "off" /\ run'[n].by = run[n].by /\ run'[n].epoch = run[n].epoch
               /\ Freed(n) => Freed(n)'
    <3>1. CASE n = m
      BY <1>2, <2>1, <2>3, <3>1
    <3>2. CASE n # m
      BY <2>3, <2>4, <2>5, <3>2
    <3> QED BY <3>1, <3>2
  <2> QED BY <1>2, <1>3, <2>2, <2>5, StillAlternate DEF Jobs
<1>5. CASE FlushDone(m)
  <2>1. /\ run[m].pc = "flush" /\ run' = [run EXCEPT ![m].pc = "resume"]
        /\ rt' = IF run[m].by = "cell" /\ run[m].at = "idle" THEN Settle(rt) ELSE rt
    BY <1>5 DEF FlushDone
  <2>2. /\ run'[m].by = run[m].by /\ run'[m].epoch = run[m].epoch
        /\ run'[m].at = run[m].at /\ run'[m].pc = "resume"
        /\ \A n \in Msgs \ {m} : run'[n] = run[n]
    BY <1>1, <2>1 DEF RunType
  <2>3. ~Freed(m) /\ \A n \in Msgs \ {m} : Freed(n)' <=> Freed(n)
    BY <2>1, <2>2 DEF Freed
  <2>4. /\ rt'.pendingRequests = rt.pendingRequests
        /\ rt' = rt \/ (run[m].by = "cell" /\ run[m].at = "idle" /\
              rt'.execState = IF rt.execState = "busy" THEN "idle" ELSE rt.execState)
    BY <1>1, <2>1 DEF Settle, Runtime
  <2>5. ASSUME NEW n \in Msgs, run'[n].pc # "off"
        PROVE  /\ run[n].pc # "off" /\ run'[n].by = run[n].by /\ run'[n].epoch = run[n].epoch
               /\ Freed(n) => Freed(n)'
    <3>1. CASE n = m
      BY <1>2, <2>2, <2>3, <3>1
    <3>2. CASE n # m
      BY <2>2, <2>3, <2>5, <3>2
    <3> QED BY <3>1, <3>2
  <2>6. CASE rt'.execState = rt.execState
    BY <1>2, <1>3, <2>4, <2>5, <2>6, StillAlternate DEF Jobs
  <2>7. CASE rt'.execState # rt.execState
    <3>1. run[m].by = "cell" /\ run[m].at = "idle" /\ rt.execState = "busy" /\ rt'.execState = "idle"
      BY <2>4, <2>7
    <3>2. ~Restarting /\ OneJob /\ ~Restarting'
      BY <1>2, <3>1 DEF Jobs, Alternate, RestartHolds, Restarting
    <3>3. Running = {m} /\ Running' = {m} /\ Calling' = {}
      BY <1>2, <1>3, <2>2, <3>1, <3>2 DEF OneJob, Running, On
    <3>4. Freed(m)'
      BY <2>2, <3>1 DEF Freed
    <3>5. ~Aborted(m)' /\ rt'.pendingRequests[m] = "sent"
      BY <1>2, <2>2, <2>4, <3>2, <3>3 DEF OneJob, Aborted
    <3>6. OneJob'
      BY <3>1, <3>3, <3>4, <3>5 DEF OneJob
    <3> QED BY <3>2, <3>6 DEF Alternate
  <2> QED BY <2>6, <2>7
<1> QED BY <1>4, <1>5

LEMMA FinishAlternate ==
    ASSUME IInv, Jobs, NEW m \in Msgs, NEW aborted \in BOOLEAN, Finish(m, aborted)
    PROVE  Alternate'
<1>1. run \in [Msgs -> RunType] /\ rt \in Runtime /\ all \in [Callers -> AllType]
        /\ "cell" \notin Callers
  BY ExecutionAssumption DEF IInv, TypeOK
<1>2. /\ UNCHANGED <<epoch, restart>> /\ m \in Running
      /\ run'[m].pc = "off" /\ \A n \in Msgs \ {m} : run'[n] = run[n]
  BY <1>1 DEF Finish, NoRun, Running, On
<1>3. Restarting' <=> Restarting
  BY <1>2 DEF Restarting
<1>4. Calling' \subseteq Calling /\ (Calling' = {} \/ rt'.execState = rt.execState)
        /\ rt'.execState \in {rt.execState, "idle"}
        /\ (rt'.execState # rt.execState => rt.execState = "busy")
  <2>1. CASE FinishCell(m, aborted)
    <3>1. PICK r : r = IF aborted THEN [rt EXCEPT !.cellStates[rt.cellId[m]] = "aborted"] ELSE rt
      OBVIOUS
    <3>2. rt' = Settle(Complete(r, m)) /\ run[m].by = "cell" /\ all' = all
      BY <2>1, <3>1 DEF FinishCell
    <3>3. r \in Runtime /\ r.execState = rt.execState
      BY <1>1, <3>1 DEF Runtime, CellState
    <3>4. Complete(r, m) \in Runtime /\ Complete(r, m).execState = r.execState
      BY <3>3, CompleteRemoves DEF Complete, Runtime
    <3>5. \A q \in Runtime : Settle(q).execState = IF q.execState = "busy" THEN "idle" ELSE q.execState
      BY DEF Settle, Runtime
    <3>6. rt'.execState = IF rt.execState = "busy" THEN "idle" ELSE rt.execState
      BY <3>2, <3>3, <3>4, <3>5
    <3>7. rt.execState = "busy" => Calling = {}
      BY <1>2, <3>2 DEF Jobs, Alternate, RestartHolds, OneJob
    <3> QED BY <3>2, <3>6, <3>7 DEF Calling
  <2>2. CASE \E a \in Callers : FinishEntry(m, a, aborted)
    <3>1. PICK a \in Callers : FinishEntry(m, a, aborted)
      BY <2>2
    <3>2. rt' = Complete(rt, m) \/ rt' = DropRest(Complete(rt, m), all[a].mids)
      BY <3>1 DEF FinishEntry
    <3>3. \A q \in Runtime : \A x : DropRest(q, x).execState = q.execState
      BY DEF DropRest, Runtime
    <3>4. Complete(rt, m) \in Runtime /\ Complete(rt, m).execState = rt.execState
      BY <1>1, CompleteRemoves DEF Complete, Runtime
    <3>5. rt'.execState = rt.execState
      BY <3>2, <3>3, <3>4
    <3>6. run[m].by = a /\ (all' = [all EXCEPT ![a].pc = "stop"] \/ all' = [all EXCEPT ![a].pc = "next"])
      BY <3>1 DEF FinishEntry
    <3>7. all[a].pc = "run"
      BY <1>1, <1>2, <3>6 DEF IInv, OneRunPerCall, Running, On
    <3>8. Calling' \subseteq Calling
      BY <1>1, <3>6, <3>7 DEF Calling
    <3> QED BY <3>5, <3>8
  <2> QED BY <2>1, <2>2 DEF Finish
<1>5. CASE Restarting
  <2>1. rt'.execState = rt.execState
    BY <1>4, <1>5 DEF Jobs, Alternate, RestartHolds
  <2> QED BY <1>2, <1>4, <1>5, <2>1, StillAlternate DEF Jobs
<1>6. CASE ~Restarting
  <2>1. OneJob /\ Running' = {}
    BY <1>2, <1>6 DEF Jobs, Alternate, OneJob, Running, On
  <2>2. OneJob'
    BY <1>4, <2>1 DEF OneJob
  <2> QED BY <1>3, <1>6, <2>2 DEF Alternate
<1> QED BY <1>5, <1>6

LEMMA DeliverAlternate ==
    ASSUME IInv, Jobs, DeliverShell \/ DeliverIopub
    PROVE  Alternate'
<1>1. iopub \in Seq(Frames) /\ shell \in Seq(Frames)
  BY DEF IInv, TypeOK
<1>2. PICK f \in Frames : Receive(f)
  BY <1>1 DEF DeliverShell, DeliverIopub
<1>3. UNCHANGED <<rt, all, epoch, restart>>
  BY DEF DeliverShell, DeliverIopub
<1>4. ASSUME NEW n \in Msgs
      PROVE  /\ run'[n].by = run[n].by /\ run'[n].epoch = run[n].epoch
             /\ run'[n].pc # "off" => run[n].pc # "off"
             /\ Freed(n) => Freed(n)'
  <2>1. CASE n # f.msg \/ run[n].pc = "off"
    BY <1>2, <2>1, Received DEF IInv, Freed
  <2>2. CASE n = f.msg /\ run[n].pc # "off"
    BY <1>2, <2>2, Received DEF IInv, Freed
  <2> QED BY <2>1, <2>2
<1>5. Calling' = Calling
  BY <1>3 DEF Calling
<1> QED BY <1>3, <1>4, <1>5, StillAlternate DEF Jobs

(* A restart ends its job: every run is aborted, and gone when the restart  *)
(* that is the last to have begun ends.                                     *)
LEMMA RestartAlternate ==
    ASSUME Races = {}, IInv, Jobs, NEW r \in Restarters, RestartBegin(r) \/ RestartStep(r)
    PROVE  Alternate'
<1>1. /\ rt \in Runtime /\ run \in [Msgs -> RunType]
      /\ restart \in [Restarters -> [pc : {"off", "rest", "open", "info"}, epoch : Nat]]
      /\ epoch \in Nat
  BY DEF IInv, TypeOK
<1>2. CASE RestartBegin(r)
  <2>1. epoch' = epoch + 1 /\ restart' = [restart EXCEPT ![r] = [pc |-> "rest", epoch |-> epoch + 1]]
    BY <1>2 DEF RestartBegin, MoveTo
  <2>2. rt'.execState = "restarting"
    BY <1>1, <1>2, RuntimeFunctions DEF RestartBegin, Runtime, AbortAll
  <2>3. restart'[r].pc # "off" /\ restart'[r].epoch = epoch'
    BY <1>1, <2>1
  <2>4. ASSUME NEW m \in Running' PROVE Aborted(m)'
    <3>1. run'[m].epoch = run[m].epoch
      BY <1>1, <1>2 DEF RestartBegin, Running, RunType
    <3>2. run[m].epoch <= epoch /\ run[m].epoch \in Nat
      BY <1>1 DEF IInv, Generations, Running, RunType
    <3> QED BY <1>1, <2>1, <3>1, <3>2 DEF Aborted
  <2>5. RestartHolds'
    BY <2>2, <2>3, <2>4 DEF RestartHolds
  <2> QED BY <2>3, <2>5 DEF Alternate, Restarting
<1>3. CASE RestartStep(r)
  <2>1. restart[r].pc # "off" /\ UNCHANGED <<run, all, epoch>>
    BY <1>3 DEF RestartStep, RestartRefused, RestartThrows, RestartAccepted,
                RestartReopened, RestartDone, RestartUnanswered
  <2>2. Restarting /\ RestartHolds
    BY <2>1 DEF Restarting, Jobs, Alternate
  <2>3. Running' = Running /\ Calling' = Calling /\ \A m \in Running : Aborted(m)' <=> Aborted(m)
    BY <2>1 DEF Running, On, Calling, Aborted
  <2>4. CASE RestartAccepted(r) \/ RestartReopened(r)
    <3>1. PICK pc \in {"open", "info"} : restart' = [restart EXCEPT ![r] = [pc |-> pc, epoch |-> epoch]]
      BY <2>4 DEF RestartAccepted, RestartReopened, MoveTo
    <3>2. restart'[r].pc # "off" /\ restart'[r].epoch = epoch' /\ rt' = rt
      BY <1>1, <2>1, <2>4, <3>1 DEF RestartAccepted, RestartReopened
    <3>3. RestartHolds'
      BY <2>2, <2>3, <3>2 DEF RestartHolds
    <3> QED BY <3>2, <3>3 DEF Alternate, Restarting
  <2>5. CASE RestartRefused(r) \/ RestartThrows(r) \/ RestartDone(r) \/ RestartUnanswered(r)
    <3>1. restart' = [restart EXCEPT ![r] = [pc |-> "off", epoch |-> epoch]]
      BY <2>5 DEF RestartRefused, RestartThrows, RestartDone, RestartUnanswered, MoveTo
    <3>2. restart'[r].pc = "off" /\ \A s \in Restarters \ {r} : restart'[s] = restart[s]
      BY <1>1, <3>1
    <3>3. rt'.execState = "idle"
      <4>1. rt.execState \in {"idle", "restarting"}
        BY <1>1, <2>2 DEF RestartHolds, Runtime
      <4> QED BY <1>1, <2>5, <4>1
              DEF RestartRefused, RestartThrows, RestartDone, RestartUnanswered, Runtime
    <3>4. Leftovers => restart[r].epoch # epoch
      <4>1. Quiescent /\ Flushed => ~Leftovers
        BY <2>2, NothingLeft DEF Leftovers
      <4> QED BY <2>5, <4>1 DEF RestartRefused, RestartThrows, RestartDone, RestartUnanswered
    <3>5. Leftovers => \E s \in Restarters : restart'[s].pc # "off" /\ restart'[s].epoch = epoch
      BY <2>2, <3>2, <3>4 DEF RestartHolds
    <3>6. CASE Restarting'
      <4>1. RestartHolds'
        BY <2>1, <2>2, <2>3, <3>3, <3>5 DEF RestartHolds, Leftovers
      <4> QED BY <3>6, <4>1 DEF Alternate
    <3>7. CASE ~Restarting'
      <4>1. Running' = {} /\ Calling' = {}
        BY <2>3, <3>5, <3>7 DEF Restarting, Leftovers
      <4>2. OneJob'
        BY <3>3, <4>1 DEF OneJob
      <4> QED BY <3>7, <4>2 DEF Alternate
    <3> QED BY <3>6, <3>7
  <2> QED BY <1>3, <2>4, <2>5 DEF RestartStep
<1> QED BY <1>2, <1>3

LEMMA JobsStep ==
    ASSUME Races = {}, IInv, Printed, Ordered, Jobs, [Next]_vars
    PROVE  Jobs'
<1>1. Waits' /\ NoneInRestart'
  BY WaitsStep, NoneStep DEF Jobs
<1> SUFFICES Alternate'
  BY <1>1 DEF Jobs
<1>2. rt \in Runtime /\ nextMsg \in Nat \ {0}
  BY DEF IInv, TypeOK
<1>0. "runInRestart" \notin Races /\ Alternate
  BY DEF Jobs
<1>3. ASSUME UNCHANGED <<run, all, epoch, restart>>, rt'.execState = rt.execState,
             \A m \in Msgs : rt.pendingRequests[m] = "sent" => rt'.pendingRequests[m] = "sent"
      PROVE  Alternate'
  <2>1. Calling' = Calling /\ \A m \in Msgs : Freed(m)' <=> Freed(m)
    BY <1>3 DEF Calling, Freed
  <2> QED BY <1>0, <1>3, <2>1, StillAlternate
<1>4. ASSUME NEW c \in Cells, RunCellQueue(c) PROVE Alternate'
  <2>1. /\ nextMsg \in Msgs /\ rt' = Enqueue(rt, nextMsg, c)
        /\ UNCHANGED <<run, all, epoch, restart>>
    BY <1>4 DEF RunCellQueue
  <2>2. /\ rt'.execState = rt.execState
        /\ \A m \in Msgs \ {nextMsg} : rt'.pendingRequests[m] = rt.pendingRequests[m]
    BY <1>2, <2>1 DEF Enqueue, Runtime
  <2>3. rt.pendingRequests[nextMsg] = "none"
    BY <1>2, <2>1 DEF IInv, Generations
  <2>4. \A m \in Msgs : rt.pendingRequests[m] = "sent" => rt'.pendingRequests[m] = "sent"
    BY <2>2, <2>3
  <2> QED BY <1>3, <2>1, <2>2, <2>4
<1>5. ASSUME NEW c \in Cells, CancelCell(c) PROVE Alternate'
  <2>1. PICK m \in Msgs : First(m, Queued(rt, c)) /\ rt' = CancelQueued(rt, m)
    BY <1>5 DEF CancelCell
  <2>2. UNCHANGED <<run, all, epoch, restart>>
    BY <1>5 DEF CancelCell
  <2>3. /\ rt'.execState = rt.execState /\ rt.pendingRequests[m] = "queued"
        /\ \A n \in Msgs \ {m} : rt'.pendingRequests[n] = rt.pendingRequests[n]
    BY <1>2, <2>1 DEF CancelQueued, Runtime, First, Queued
  <2>4. \A n \in Msgs : rt.pendingRequests[n] = "sent" => rt'.pendingRequests[n] = "sent"
    BY <2>3
  <2> QED BY <1>3, <2>2, <2>3, <2>4
<1>6. CASE Command
  BY <1>0, <1>4, <1>5, <1>6, CellBegins, CallBegins, RestartAlternate DEF Command
<1>7. CASE Continuation \/ Viewer
  BY <1>0, <1>7, CallGoesOn, CallEnds, LoopAlternate, FinishAlternate
     DEF Continuation, Viewer, FinishNormally, FinishAborted
<1>8. CASE DeliverShell \/ DeliverIopub
  BY <1>8, DeliverAlternate
<1>9. CASE \E r \in Restarters : RestartStep(r)
  BY <1>9, RestartAlternate
<1>10. CASE Kernel \/ SocketLost \/ SocketBack("open") \/ SocketBack("closed") \/ UNCHANGED vars
  BY <1>3, <1>10 DEF Kernel, KernelPrint, KernelAnswer, SocketLost, SocketBack, vars
<1> QED BY <1>6, <1>7, <1>8, <1>9, <1>10 DEF Next

(***************************************************************************)
(* The functions of session/pending-requests.ts keep the entries and the   *)
(* states of the cells paired.                                             *)
(***************************************************************************)
Paired(r) ==
    /\ \A m, n \in Live(r) : r.cellId[m] = r.cellId[n] => m = n
    /\ \A m \in Live(r) : r.cellStates[r.cellId[m]] =
            IF r.pendingRequests[m] = "sent" THEN "busy" ELSE "queued"
    /\ \A c \in Cells : r.cellStates[c] \in {"queued", "busy"} =>
            \E m \in Live(r) : r.cellId[m] = c

LEMMA SamePaired ==
    ASSUME NEW q, NEW r, Paired(r), q.cellStates = r.cellStates,
           q.pendingRequests = r.pendingRequests, q.cellId = r.cellId
    PROVE  Paired(q)
BY DEF Paired, Live

LEMMA EnqueuePairs ==
    ASSUME NEW r \in Runtime, Paired(r), NEW m \in Msgs, NEW c \in Cells,
           r.pendingRequests[m] = "none", r.cellStates[c] \notin {"queued", "busy"}
    PROVE  Paired(Enqueue(r, m, c))
<1>1. PICK q : q = Enqueue(r, m, c)
  OBVIOUS
<1>2. /\ q.pendingRequests[m] = "queued" /\ q.cellId[m] = c /\ q.cellStates[c] = "queued"
      /\ \A n \in Msgs \ {m} : /\ q.pendingRequests[n] = r.pendingRequests[n]
                               /\ q.cellId[n] = r.cellId[n]
      /\ \A d \in Cells \ {c} : q.cellStates[d] = r.cellStates[d]
  BY <1>1 DEF Enqueue, Runtime
<1>3. /\ \A n \in Live(r) : n # m /\ r.cellId[n] # c /\ r.cellId[n] \in Cells
      /\ Live(q) = Live(r) \cup {m}
  BY <1>2 DEF Paired, Live, Runtime
<1>4. Paired(q)
  BY <1>2, <1>3 DEF Paired, Live
<1> QED BY <1>1, <1>4

LEMMA MarkSentPairs ==
    ASSUME NEW r \in Runtime, Paired(r), NEW m \in Live(r)
    PROVE  Paired(MarkSent(r, m))
<1>1. PICK q : q = MarkSent(r, m)
  OBVIOUS
<1>2. /\ m \in Msgs /\ r.cellId[m] \in Cells /\ q.cellId = r.cellId
      /\ q.pendingRequests[m] = "sent" /\ q.cellStates[r.cellId[m]] = "busy"
      /\ \A n \in Msgs \ {m} : q.pendingRequests[n] = r.pendingRequests[n]
      /\ \A d \in Cells \ {r.cellId[m]} : q.cellStates[d] = r.cellStates[d]
  BY <1>1 DEF MarkSent, Runtime, Live
<1>3. Live(q) = Live(r) /\ \A n \in Live(r) : n # m => r.cellId[n] \in Cells \ {r.cellId[m]}
  BY <1>2 DEF Paired, Live, Runtime
<1>4. Paired(q)
  BY <1>2, <1>3 DEF Paired, Live
<1> QED BY <1>1, <1>4

(* What removes an entry leaves the state of its cell neither queued nor    *)
(* busy, and the states of the other cells alone.                           *)
LEMMA RemovalPairs ==
    ASSUME NEW r \in Runtime, Paired(r), NEW q, q.cellId = r.cellId,
           \A n \in Msgs : q.pendingRequests[n] \in {r.pendingRequests[n], "none"},
           \A d \in Cells : \/ /\ q.cellStates[d] = r.cellStates[d]
                               /\ \A n \in Live(r) : r.cellId[n] = d => n \in Live(q)
                            \/ /\ q.cellStates[d] \notin {"queued", "busy"}
                               /\ \A n \in Live(r) : r.cellId[n] = d => n \notin Live(q)
    PROVE  Paired(q)
<1>1. /\ Live(q) \subseteq Live(r)
      /\ \A n \in Live(q) : q.pendingRequests[n] = r.pendingRequests[n] /\ r.cellId[n] \in Cells
  BY DEF Live, Runtime
<1>2. \A m, n \in Live(q) : q.cellId[m] = q.cellId[n] => m = n
  BY <1>1 DEF Paired
<1>3. ASSUME NEW m \in Live(q)
      PROVE  q.cellStates[q.cellId[m]] = IF q.pendingRequests[m] = "sent" THEN "busy" ELSE "queued"
  <2>1. q.cellStates[r.cellId[m]] = r.cellStates[r.cellId[m]]
    BY <1>1, <1>3
  <2> QED BY <1>1, <1>3, <2>1 DEF Paired
<1>4. ASSUME NEW c \in Cells, q.cellStates[c] \in {"queued", "busy"}
      PROVE  \E m \in Live(q) : q.cellId[m] = c
  <2>1. /\ q.cellStates[c] = r.cellStates[c]
        /\ \A n \in Live(r) : r.cellId[n] = c => n \in Live(q)
    BY <1>4
  <2>2. PICK m \in Live(r) : r.cellId[m] = c
    BY <1>4, <2>1 DEF Paired
  <2> QED BY <2>1, <2>2
<1> QED BY <1>2, <1>3, <1>4 DEF Paired

LEMMA CompletePairs ==
    ASSUME NEW r \in Runtime, Paired(r), NEW m \in Msgs,
           r.pendingRequests[m] \in {"none", "sent"}
    PROVE  Paired(Complete(r, m))
<1>1. CASE r.pendingRequests[m] = "none"
  BY <1>1 DEF Complete
<1>2. CASE r.pendingRequests[m] = "sent"
  <2>1. PICK q : q = Complete(r, m)
    OBVIOUS
  <2>2. m \in Live(r) /\ r.cellId[m] \in Cells
    BY <1>2 DEF Live, Runtime
  <2>3. r.cellStates[r.cellId[m]] = "busy"
    BY <1>2, <2>2 DEF Paired
  <2>4. /\ q.cellId = r.cellId /\ q.pendingRequests[m] = "none"
        /\ \A n \in Msgs \ {m} : q.pendingRequests[n] = r.pendingRequests[n]
        /\ q.cellStates[r.cellId[m]] = "idle"
        /\ \A d \in Cells \ {r.cellId[m]} : q.cellStates[d] = r.cellStates[d]
    BY <1>2, <2>1, <2>2, <2>3 DEF Complete, Runtime
  <2>5. \A n \in Live(r) : r.cellId[n] = r.cellId[m] => n = m
    BY <2>2 DEF Paired
  <2>6. \A n \in Live(r) : n # m => n \in Live(q)
    BY <2>4 DEF Live
  <2>7. m \notin Live(q)
    BY <2>4 DEF Live
  <2>8. Paired(q)
    BY <2>4, <2>5, <2>6, <2>7, RemovalPairs
  <2> QED BY <2>1, <2>8
<1> QED BY <1>1, <1>2

LEMMA CancelPairs ==
    ASSUME NEW r \in Runtime, Paired(r), NEW m \in Live(r)
    PROVE  Paired(CancelQueued(r, m))
<1>1. PICK q : q = CancelQueued(r, m)
  OBVIOUS
<1>2. /\ m \in Msgs /\ r.cellId[m] \in Cells
      /\ q.cellId = r.cellId /\ q.pendingRequests[m] = "none"
      /\ \A n \in Msgs \ {m} : q.pendingRequests[n] = r.pendingRequests[n]
      /\ q.cellStates[r.cellId[m]] = "idle"
      /\ \A d \in Cells \ {r.cellId[m]} : q.cellStates[d] = r.cellStates[d]
  BY <1>1 DEF CancelQueued, Runtime, Live
<1>3. \A n \in Live(r) : r.cellId[n] = r.cellId[m] => n = m
  BY DEF Paired
<1>4. m \notin Live(q) /\ \A n \in Live(r) : n # m => n \in Live(q)
  BY <1>2 DEF Live
<1>5. Paired(q)
  BY <1>2, <1>3, <1>4, RemovalPairs
<1> QED BY <1>1, <1>5

LEMMA AbortPairs ==
    ASSUME NEW r \in Runtime, Paired(r)
    PROVE  Paired(AbortAll(r))
<1>1. PICK q : q = AbortAll(r)
  OBVIOUS
<1>2. /\ q.cellId = r.cellId
      /\ \A n \in Msgs : q.pendingRequests[n] = "none"
      /\ \A d \in Cells : q.cellStates[d] = IF \E m \in Live(r) : r.cellId[m] = d
                                            THEN "aborted" ELSE r.cellStates[d]
  BY <1>1 DEF AbortAll, Runtime
<1>3. Live(q) = {}
  BY <1>2 DEF Live
<1>4. Paired(q)
  BY <1>2, <1>3, RemovalPairs
<1> QED BY <1>1, <1>4

LEMMA DropPairs ==
    ASSUME NEW r \in Runtime, Paired(r), NEW mids \in [DOMAIN Notebook -> Msgs],
           \A i \in DOMAIN Notebook : r.cellId[mids[i]] = Notebook[i]
    PROVE  Paired(DropRest(r, mids))
<1> DEFINE rest == {i \in DOMAIN Notebook : r.pendingRequests[mids[i]] # "none"}
<1>1. PICK q : q = DropRest(r, mids)
  OBVIOUS
<1>2. /\ q.cellId = r.cellId
      /\ \A n \in Msgs : q.pendingRequests[n] =
            IF \E i \in rest : mids[i] = n THEN "none" ELSE r.pendingRequests[n]
      /\ \A d \in Cells : q.cellStates[d] =
            IF \E i \in rest : Notebook[i] = d THEN "idle" ELSE r.cellStates[d]
  BY <1>1 DEF DropRest, Runtime
<1>3. ASSUME NEW d \in Cells, \E i \in rest : Notebook[i] = d
      PROVE  /\ q.cellStates[d] = "idle"
             /\ \A n \in Live(r) : r.cellId[n] = d => n \notin Live(q)
  <2>1. PICK i \in rest : Notebook[i] = d
    BY <1>3
  <2>2. mids[i] \in Live(r) /\ r.cellId[mids[i]] = d
    BY <2>1 DEF Live
  <2>3. \A n \in Live(r) : r.cellId[n] = d => n = mids[i]
    BY <2>2 DEF Paired
  <2> QED BY <1>2, <1>3, <2>1, <2>2, <2>3 DEF Live
<1>4. ASSUME NEW d \in Cells, ~\E i \in rest : Notebook[i] = d
      PROVE  /\ q.cellStates[d] = r.cellStates[d]
             /\ \A n \in Live(r) : r.cellId[n] = d => n \in Live(q)
  <2>1. \A n \in Live(r) : r.cellId[n] = d => ~\E i \in rest : mids[i] = n
    BY <1>4
  <2> QED BY <1>2, <1>4, <2>1 DEF Live
<1>5. \A n \in Msgs : q.pendingRequests[n] \in {r.pendingRequests[n], "none"}
  BY <1>2
<1> HIDE DEF rest
<1>6. Paired(q)
  BY <1>2, <1>3, <1>4, <1>5, RemovalPairs
<1> QED BY <1>1, <1>6

(* The entries of a runAll call stay the entries of its cells.              *)
Assigned ==
    \A a \in Calling : \A i \in DOMAIN Notebook :
        all[a].mids[i] < nextMsg /\ rt.cellId[all[a].mids[i]] = Notebook[i]

Entered == Paired(rt) /\ Assigned

LEMMA StillAssigned ==
    ASSUME IInv, Assigned, nextMsg <= nextMsg', nextMsg' \in Nat,
           \A m \in Msgs : m < nextMsg => rt'.cellId[m] = rt.cellId[m],
           \A a \in Callers : all'[a].pc # "off" =>
              all[a].pc # "off" /\ all'[a].mids = all[a].mids
    PROVE  Assigned'
<1> SUFFICES ASSUME NEW a \in Calling', NEW i \in DOMAIN Notebook
             PROVE  /\ all'[a].mids[i] < nextMsg'
                    /\ rt'.cellId[all'[a].mids[i]] = Notebook[i]
  BY DEF Assigned
<1>1. a \in Calling /\ all'[a].mids = all[a].mids
  BY DEF Calling
<1>2. PICK m \in Msgs : m = all[a].mids[i]
  BY <1>1 DEF Calling, IInv, OneRunPerCall
<1>3. m < nextMsg /\ rt.cellId[m] = Notebook[i] /\ m \in Nat /\ nextMsg \in Nat
  BY <1>1, <1>2 DEF Assigned, Msgs, IInv, TypeOK
<1> QED BY <1>1, <1>2, <1>3

LEMMA QueueEntered ==
    ASSUME IInv, Entered, NEW c \in Cells, RunCellQueue(c)
    PROVE  Entered'
<1>1. rt \in Runtime /\ nextMsg \in Nat \ {0} /\ (\A m \in Msgs : m \in Nat)
  BY DEF IInv, TypeOK, Msgs
<1>2. /\ rt.cellStates[c] \notin {"busy", "queued"} /\ nextMsg \in Msgs
      /\ rt' = Enqueue(rt, nextMsg, c) /\ nextMsg' = nextMsg + 1 /\ all' = all
  BY DEF RunCellQueue
<1>3. rt.pendingRequests[nextMsg] = "none"
  BY <1>1, <1>2 DEF IInv, Generations
<1>4. Paired(rt')
  BY <1>1, <1>2, <1>3, EnqueuePairs DEF Entered
<1>5. \A m \in Msgs : m < nextMsg => rt'.cellId[m] = rt.cellId[m]
  BY <1>1, <1>2 DEF Enqueue, Runtime
<1>6. Assigned'
  BY <1>1, <1>2, <1>5, StillAssigned DEF Entered
<1> QED BY <1>4, <1>6 DEF Entered, Paired, Live

LEMMA SendEntered ==
    ASSUME "runInRestart" \notin Races, IInv, Jobs, Entered,
           NEW c \in Cells, RunCellSend(c) \/ RunCellRedispatch(c)
    PROVE  Entered'
<1>1. rt \in Runtime
  BY DEF IInv, TypeOK
<1>2. MayRun /\ rt.execState # "busy"
  BY DEF RunCellSend, RunCellRedispatch
<1>3. Calling = {}
  BY <1>2, NothingRuns
<1>4. PICK r \in Runtime, m \in Msgs :
        /\ StartRun(r, m, c, "cell") /\ r.cellId[m] = c
        /\ \/ rt.pendingRequests[m] = "queued" /\ rt.cellId[m] = c
           \/ /\ rt.pendingRequests[m] = "none" /\ rt.cellStates[c] # "busy"
              /\ rt.cellStates[c] = "queued" => Queued(rt, c) = {}
        /\ \A n \in Msgs \ {m} : /\ r.pendingRequests[n] = rt.pendingRequests[n]
                                 /\ r.cellId[n] = rt.cellId[n]
        /\ \A d \in Cells \ {c} : r.cellStates[d] = rt.cellStates[d]
        /\ UNCHANGED all
  BY CellStarts
<1>5. /\ rt'.pendingRequests[m] = "sent" /\ rt'.cellId = r.cellId
      /\ \A n \in Msgs \ {m} : rt'.pendingRequests[n] = r.pendingRequests[n]
      /\ rt'.cellStates[c] = "busy"
      /\ \A d \in Cells \ {c} : rt'.cellStates[d] = r.cellStates[d]
  BY <1>4, Started DEF IInv
<1>6. PICK q : q = rt'
  OBVIOUS
<1>7. /\ q.pendingRequests[m] = "sent" /\ q.cellId[m] = c /\ q.cellStates[c] = "busy"
      /\ \A n \in Msgs \ {m} : /\ q.pendingRequests[n] = rt.pendingRequests[n]
                               /\ q.cellId[n] = rt.cellId[n]
      /\ \A d \in Cells \ {c} : q.cellStates[d] = rt.cellStates[d]
  BY <1>4, <1>5, <1>6
<1>8. ASSUME NEW n \in Live(rt), n # m PROVE rt.cellId[n] \in Cells \ {c}
  <2>1. n \in Msgs /\ rt.cellId[n] \in Cells
    BY <1>1 DEF Live, Runtime
  <2>2. CASE rt.pendingRequests[m] = "queued" /\ rt.cellId[m] = c
    BY <1>8, <2>1, <2>2 DEF Entered, Paired, Live
  <2>3. CASE rt.cellStates[c] # "busy" /\ (rt.cellStates[c] = "queued" => Queued(rt, c) = {})
    <3> SUFFICES ASSUME rt.cellId[n] = c PROVE FALSE
      BY <2>1
    <3>1. rt.cellStates[c] = IF rt.pendingRequests[n] = "sent" THEN "busy" ELSE "queued"
      BY DEF Entered, Paired
    <3>2. rt.pendingRequests[n] \in {"queued", "sent"}
      BY <1>1, <2>1 DEF Live, Runtime
    <3>3. rt.pendingRequests[n] = "queued" /\ Queued(rt, c) = {}
      BY <2>3, <3>1, <3>2
    <3> QED BY <2>1, <3>3 DEF Queued
  <2> QED BY <1>4, <2>2, <2>3
<1>9. Live(q) = Live(rt) \cup {m}
  BY <1>7 DEF Live
<1>10. \A n \in Live(q) : n = m \/ (n \in Live(rt) /\ n \in Msgs \ {m})
  BY <1>9 DEF Live
<1>11. \A k, n \in Live(q) : q.cellId[k] = q.cellId[n] => k = n
  BY <1>7, <1>8, <1>10 DEF Entered, Paired
<1>12. ASSUME NEW n \in Live(q)
       PROVE  q.cellStates[q.cellId[n]] = IF q.pendingRequests[n] = "sent" THEN "busy" ELSE "queued"
  <2>1. CASE n = m
    BY <1>7, <2>1
  <2>2. CASE n # m
    BY <1>7, <1>8, <1>10, <2>2 DEF Entered, Paired
  <2> QED BY <2>1, <2>2
<1>13. ASSUME NEW d \in Cells, q.cellStates[d] \in {"queued", "busy"}
       PROVE  \E n \in Live(q) : q.cellId[n] = d
  <2>1. CASE d = c
    BY <1>7, <1>9, <2>1
  <2>2. CASE d # c
    <3>1. PICK n \in Live(rt) : rt.cellId[n] = d
      BY <1>7, <1>13, <2>2 DEF Entered, Paired
    <3>2. n \in Live(q)
      BY <1>9
    <3>3. q.cellId[n] = d
      <4>1. CASE n # m
        BY <1>7, <1>10, <3>1, <3>2, <4>1
      <4>2. CASE n = m
        <5>1. rt.pendingRequests[m] # "none" /\ rt.cellId[m] = d
          BY <3>1, <4>2 DEF Live
        <5>2. d = c
          BY <1>4, <5>1
        <5> QED BY <2>2, <5>2
      <4> QED BY <4>1, <4>2
    <3> QED BY <3>2, <3>3
  <2> QED BY <2>1, <2>2
<1>14. Paired(q)
  BY <1>11, <1>12, <1>13 DEF Paired
<1>15. Assigned'
  BY <1>3, <1>4 DEF Assigned, Calling
<1> QED BY <1>6, <1>14, <1>15 DEF Entered, Paired, Live

(* runAll hands out an id per lacking cell.                                 *)
LEMMA EntriesDiffer ==
    ASSUME nextMsg \in Nat, NEW mids, Entries(mids), NEW i \in Lacking, NEW j \in Lacking,
           mids[i] = mids[j]
    PROVE  i = j
<1> DEFINE Before(k) == {l \in Lacking : l < k}
<1>1. /\ Lacking \subseteq DOMAIN Notebook /\ IsFiniteSet(Lacking)
      /\ \A k \in Lacking : k \in Nat
  BY LackingFinite, ExecutionAssumption DEF Lacking
<1>2. ASSUME NEW k \in Lacking, NEW l \in Lacking, k < l
      PROVE  /\ Cardinality(Before(k)) \in Nat /\ Cardinality(Before(l)) \in Nat
             /\ Cardinality(Before(k)) < Cardinality(Before(l))
  <2>1. Before(l) \in SUBSET Lacking /\ Before(k) \in SUBSET Before(l)
    BY <1>1, <1>2
  <2>2. k \in Before(l) /\ k \notin Before(k)
    BY <1>1, <1>2
  <2>3. IsFiniteSet(Before(l))
    BY <1>1, <2>1, FS_Subset
  <2>4. IsFiniteSet(Before(k)) /\ Cardinality(Before(k)) <= Cardinality(Before(l))
          /\ Cardinality(Before(k)) # Cardinality(Before(l))
    BY <2>1, <2>2, <2>3, FS_Subset
  <2>5. Cardinality(Before(k)) \in Nat /\ Cardinality(Before(l)) \in Nat
    BY <2>3, <2>4, FS_CardinalityType
  <2> HIDE DEF Before
  <2>6. Cardinality(Before(k)) < Cardinality(Before(l))
    BY <2>4, <2>5
  <2> QED BY <2>5, <2>6
<1>3. mids[i] = nextMsg + Cardinality(Before(i)) /\ mids[j] = nextMsg + Cardinality(Before(j))
  BY <1>1 DEF Entries
<1> HIDE DEF Before
<1>4. ~(i < j) /\ ~(j < i)
  <2>1. ASSUME i < j PROVE FALSE
    <3>1. /\ Cardinality(Before(i)) \in Nat /\ Cardinality(Before(j)) \in Nat
          /\ Cardinality(Before(i)) < Cardinality(Before(j))
      BY <1>2, <2>1
    <3>2. nextMsg + Cardinality(Before(i)) = nextMsg + Cardinality(Before(j))
      BY <1>3
    <3> QED BY <3>1, <3>2
  <2>2. ASSUME j < i PROVE FALSE
    <3>1. /\ Cardinality(Before(j)) \in Nat /\ Cardinality(Before(i)) \in Nat
          /\ Cardinality(Before(j)) < Cardinality(Before(i))
      BY <1>2, <2>2
    <3>2. nextMsg + Cardinality(Before(i)) = nextMsg + Cardinality(Before(j))
      BY <1>3
    <3> QED BY <3>1, <3>2
  <2> QED BY <2>1, <2>2
<1>5. i \in Nat /\ j \in Nat
  BY <1>1
<1> QED BY <1>4, <1>5

LEMMA RunAllEntered ==
    ASSUME "runInRestart" \notin Races, IInv, Jobs, Entered, NEW a \in Callers, RunAll(a)
    PROVE  Entered'
<1>1. /\ rt \in Runtime /\ nextMsg \in Nat \ {0} /\ all \in [Callers -> AllType]
      /\ \A n \in Msgs : n \in Nat
  BY DEF IInv, TypeOK, Msgs
<1>2. PICK mids \in [DOMAIN Notebook -> Msgs] :
        /\ Entries(mids)
        /\ LET new(m) == {i \in Lacking : mids[i] = m}
               cell(m) == Notebook[CHOOSE i \in new(m) : TRUE]
           IN rt' = [rt EXCEPT
                !.execState = "busy",
                !.pendingRequests =
                    [m \in Msgs |-> IF new(m) # {} THEN "queued" ELSE @[m]],
                !.cellId = [m \in Msgs |-> IF new(m) # {} THEN cell(m) ELSE @[m]],
                !.cellStates = [c \in Cells |->
                    IF \E i \in Lacking : Notebook[i] = c THEN "queued" ELSE @[c]]]
        /\ all' = [all EXCEPT ![a] = [pc |-> "next", mids |-> mids, pos |-> 1]]
  BY DEF RunAll
<1>3. /\ MayRun /\ rt.execState # "busy" /\ nextMsg' = nextMsg + Cardinality(Lacking)
      /\ Cardinality(Lacking) \in Nat /\ nextMsg' \in Nat /\ nextMsg <= nextMsg'
  BY <1>1, LackingFinite DEF RunAll
<1>4. Running = {} /\ Calling = {}
  BY <1>3, NothingRuns
<1>5. \A n \in Live(rt) : n \in Msgs /\ rt.pendingRequests[n] = "queued" /\ n < nextMsg
  BY <1>1, <1>4 DEF Live, Running, On, Runtime, IInv, SentHasRun, Sent, Generations
<1>6. /\ Lacking \subseteq DOMAIN Notebook
      /\ \A i \in Lacking : /\ mids[i] \in Msgs /\ Notebook[i] \in Cells
                            /\ nextMsg <= mids[i] /\ mids[i] < nextMsg'
                            /\ \A n \in Live(rt) : rt.cellId[n] # Notebook[i]
                            /\ \A j \in Lacking : mids[i] = mids[j] => i = j
  <2>1. Lacking \subseteq DOMAIN Notebook
    BY DEF Lacking
  <2>2. ASSUME NEW i \in Lacking
        PROVE  /\ mids[i] \in Msgs /\ Notebook[i] \in Cells
               /\ nextMsg <= mids[i] /\ mids[i] < nextMsg'
    BY <1>1, <1>2, <1>3, <2>1, EntriesNew, ExecutionAssumption
  <2>3. ASSUME NEW i \in Lacking, NEW n \in Live(rt) PROVE rt.cellId[n] # Notebook[i]
    BY <1>5, <2>3 DEF Lacking, Queued
  <2>4. ASSUME NEW i \in Lacking, NEW j \in Lacking, mids[i] = mids[j] PROVE i = j
    BY <1>1, <1>2, <2>4, EntriesDiffer
  <2> QED BY <2>1, <2>2, <2>3, <2>4
<1>7. PICK q : q = rt'
  OBVIOUS
<1>8. /\ q.pendingRequests = [m \in Msgs |->
            IF {i \in Lacking : mids[i] = m} # {} THEN "queued" ELSE rt.pendingRequests[m]]
      /\ q.cellId = [m \in Msgs |->
            IF {i \in Lacking : mids[i] = m} # {}
            THEN Notebook[CHOOSE i \in {i \in Lacking : mids[i] = m} : TRUE] ELSE rt.cellId[m]]
      /\ q.cellStates = [c \in Cells |->
            IF \E i \in Lacking : Notebook[i] = c THEN "queued" ELSE rt.cellStates[c]]
  BY <1>1, <1>2, <1>7 DEF Runtime
<1>9. ASSUME NEW i \in Lacking
      PROVE  /\ q.pendingRequests[mids[i]] = "queued" /\ q.cellId[mids[i]] = Notebook[i]
             /\ q.cellStates[Notebook[i]] = "queued"
  <2>1. {j \in Lacking : mids[j] = mids[i]} = {i}
    BY <1>6
  <2>2. (CHOOSE j \in {i} : TRUE) = i
    OBVIOUS
  <2> QED BY <1>6, <1>8, <2>1, <2>2
<1>10. ASSUME NEW m \in Msgs, \A i \in Lacking : mids[i] # m
       PROVE  q.pendingRequests[m] = rt.pendingRequests[m] /\ q.cellId[m] = rt.cellId[m]
  BY <1>8, <1>10
<1>11. \A n \in Live(rt) : /\ q.pendingRequests[n] = "queued" /\ q.cellId[n] = rt.cellId[n]
                           /\ \A i \in Lacking : mids[i] # n
  BY <1>1, <1>5, <1>6, <1>10
<1>12. \A n \in Live(q) : n \in Live(rt) \/ \E i \in Lacking : n = mids[i]
  BY <1>10 DEF Live
<1>13. Live(rt) \subseteq Live(q) /\ \A i \in Lacking : mids[i] \in Live(q)
  BY <1>6, <1>9, <1>11 DEF Live
<1>14. ASSUME NEW m \in Live(q), NEW n \in Live(q), q.cellId[m] = q.cellId[n] PROVE m = n
  <2>1. CASE m \in Live(rt) /\ n \in Live(rt)
    BY <1>11, <1>14, <2>1 DEF Entered, Paired
  <2>2. CASE m \notin Live(rt) /\ n \in Live(rt)
    BY <1>6, <1>9, <1>11, <1>12, <1>14, <2>2
  <2>3. CASE m \in Live(rt) /\ n \notin Live(rt)
    BY <1>6, <1>9, <1>11, <1>12, <1>14, <2>3
  <2>4. CASE m \notin Live(rt) /\ n \notin Live(rt)
    <3>1. PICK i \in Lacking, j \in Lacking : m = mids[i] /\ n = mids[j]
      BY <1>12, <2>4
    <3>2. Notebook[i] = Notebook[j]
      BY <1>9, <1>14, <3>1
    <3> QED BY <1>6, <3>1, <3>2, ExecutionAssumption
  <2> QED BY <2>1, <2>2, <2>3, <2>4
<1>15. ASSUME NEW m \in Live(q)
       PROVE  q.cellStates[q.cellId[m]] = IF q.pendingRequests[m] = "sent" THEN "busy" ELSE "queued"
  <2>1. CASE m \in Live(rt)
    <3>1. rt.cellStates[rt.cellId[m]] = "queued" /\ rt.cellId[m] \in Cells
      BY <1>1, <1>5, <2>1 DEF Entered, Paired, Runtime
    <3>2. q.cellStates[rt.cellId[m]] = "queued"
      BY <1>8, <3>1
    <3> QED BY <1>11, <2>1, <3>2
  <2>2. CASE m \notin Live(rt)
    BY <1>9, <1>12, <2>2
  <2> QED BY <2>1, <2>2
<1>16. ASSUME NEW c \in Cells, q.cellStates[c] \in {"queued", "busy"}
       PROVE  \E m \in Live(q) : q.cellId[m] = c
  <2>1. CASE \E i \in Lacking : Notebook[i] = c
    BY <1>9, <1>13, <2>1
  <2>2. CASE ~\E i \in Lacking : Notebook[i] = c
    <3>1. rt.cellStates[c] \in {"queued", "busy"}
      BY <1>8, <1>16, <2>2
    <3>2. PICK m \in Live(rt) : rt.cellId[m] = c
      BY <3>1 DEF Entered, Paired
    <3> QED BY <1>11, <1>13, <3>2
  <2> QED BY <2>1, <2>2
<1>17. Paired(q)
  BY <1>14, <1>15, <1>16 DEF Paired
<1>18. Assigned'
  <2> SUFFICES ASSUME NEW b \in Calling', NEW i \in DOMAIN Notebook
               PROVE  all'[b].mids[i] < nextMsg' /\ rt'.cellId[all'[b].mids[i]] = Notebook[i]
    BY DEF Assigned
  <2>1. b = a /\ all'[b].mids = mids
    BY <1>1, <1>2, <1>4 DEF Calling
  <2>2. CASE i \in Lacking
    BY <1>6, <1>7, <1>9, <2>1, <2>2
  <2>3. CASE i \notin Lacking
    <3>1. First(mids[i], Queued(rt, Notebook[i]))
      BY <1>2, <2>3 DEF Entries
    <3>2. mids[i] \in Live(rt) /\ rt.cellId[mids[i]] = Notebook[i]
      BY <3>1 DEF First, Queued, Live
    <3>3. mids[i] < nextMsg /\ mids[i] \in Nat
      BY <1>1, <1>5, <3>2
    <3> QED BY <1>1, <1>3, <1>7, <1>11, <2>1, <3>2, <3>3
  <2> QED BY <2>2, <2>3
<1> QED BY <1>7, <1>17, <1>18 DEF Entered, Paired, Live

LEMMA NextEntered ==
    ASSUME IInv, Entered, NEW a \in Callers, RunAllNext(a)
    PROVE  Entered'
<1>1. PICK i \in DOMAIN Notebook, m \in Msgs :
        /\ rt.pendingRequests[m] = "queued" /\ StartRun(rt, m, Notebook[i], a)
        /\ all' = [all EXCEPT ![a].pc = "run", ![a].pos = i + 1]
        /\ all[a].pc = "next" /\ UNCHANGED nextMsg
  BY CallStarts
<1>2. rt \in Runtime /\ nextMsg \in Nat /\ all \in [Callers -> AllType]
  BY DEF IInv, TypeOK
<1>3. rt' = MarkSent(rt, m) /\ m \in Live(rt)
  BY <1>1 DEF StartRun, Live
<1>4. Paired(rt')
  BY <1>2, <1>3, MarkSentPairs DEF Entered
<1>5. rt'.cellId = rt.cellId
  BY <1>2, <1>3 DEF MarkSent, Runtime
<1>6. \A b \in Callers : all'[b].pc # "off" => all[b].pc # "off" /\ all'[b].mids = all[b].mids
  BY <1>1, <1>2 DEF AllType
<1>7. Assigned'
  BY <1>1, <1>2, <1>5, <1>6, StillAssigned DEF Entered
<1> QED BY <1>4, <1>7 DEF Entered, Paired, Live

LEMMA FinishEntered ==
    ASSUME IInv, Jobs, Entered, NEW m \in Msgs, NEW aborted \in BOOLEAN, Finish(m, aborted),
           aborted => Aborted(m)
    PROVE  Entered'
<1>1. /\ rt \in Runtime /\ nextMsg \in Nat /\ all \in [Callers -> AllType]
      /\ "cell" \notin Callers /\ run \in [Msgs -> RunType]
  BY ExecutionAssumption DEF IInv, TypeOK
<1>2. m \in Running /\ nextMsg' = nextMsg
  BY DEF Finish, Running, On
<1>3. /\ Restarting => Live(rt) = {}
      /\ ~Restarting => ~Aborted(m) /\ rt.pendingRequests[m] = "sent"
  BY <1>2 DEF Jobs, NoneInRestart, Alternate, OneJob
<1>4. rt.pendingRequests[m] \in {"none", "sent"} /\ (aborted => Live(rt) = {})
  BY <1>3 DEF Live
<1>5. \A r \in Runtime : /\ Settle(r).cellStates = r.cellStates /\ Settle(r).cellId = r.cellId
                         /\ Settle(r).pendingRequests = r.pendingRequests
  BY DEF Settle, Runtime
<1>6. \A r \in Runtime : Complete(r, m) \in Runtime /\ Complete(r, m).cellId = r.cellId
  BY CompleteRemoves DEF Complete, Runtime
<1>7. CASE FinishCell(m, aborted)
  <2>1. PICK r : r = IF aborted THEN [rt EXCEPT !.cellStates[rt.cellId[m]] = "aborted"] ELSE rt
    OBVIOUS
  <2>2. rt' = Settle(Complete(r, m)) /\ all' = all
    BY <1>7, <2>1 DEF FinishCell
  <2>3. /\ r \in Runtime /\ r.cellId = rt.cellId /\ r.pendingRequests = rt.pendingRequests
        /\ \A d \in Cells : r.cellStates[d] = rt.cellStates[d]
                            \/ (aborted /\ r.cellStates[d] = "aborted")
    BY <1>1, <2>1 DEF Runtime, CellState
  <2>4. Paired(r)
    <3>1. CASE aborted
      <4>1. Live(rt) = {} /\ Live(r) = {}
        BY <1>4, <2>3, <3>1 DEF Live
      <4> QED BY <1>1, <2>3, <4>1, RemovalPairs DEF Entered
    <3>2. CASE ~aborted
      BY <2>1, <3>2 DEF Entered
    <3> QED BY <3>1, <3>2
  <2>5. Paired(Complete(r, m))
    BY <1>4, <2>3, <2>4, CompletePairs
  <2>6. Paired(rt') /\ rt'.cellId = rt.cellId
    BY <1>5, <1>6, <2>2, <2>3, <2>5, SamePaired
  <2>7. Assigned'
    BY <1>1, <1>2, <2>2, <2>6, StillAssigned DEF Entered
  <2> QED BY <2>6, <2>7 DEF Entered, Paired, Live
<1>8. CASE \E a \in Callers : FinishEntry(m, a, aborted)
  <2>1. PICK a \in Callers : FinishEntry(m, a, aborted)
    BY <1>8
  <2>2. PICK q : q = Complete(rt, m)
    OBVIOUS
  <2>3. /\ rt' = q \/ rt' = DropRest(q, all[a].mids)
        /\ \E p \in {"stop", "next"} : all' = [all EXCEPT ![a].pc = p]
    BY <2>1, <2>2 DEF FinishEntry
  <2>4. run[m].by = a /\ a \in Calling
    BY <1>1, <1>2, <2>1 DEF FinishEntry, IInv, OneRunPerCall, Calling, Running, On
  <2>5. PICK mids \in [DOMAIN Notebook -> Msgs] : mids = all[a].mids
    BY <2>4 DEF Calling, IInv, OneRunPerCall
  <2>6. q \in Runtime /\ q.cellId = rt.cellId /\ Paired(q)
    BY <1>1, <1>4, <1>6, <2>2, CompletePairs DEF Entered
  <2>7. \A i \in DOMAIN Notebook : q.cellId[mids[i]] = Notebook[i]
    BY <2>4, <2>5, <2>6 DEF Entered, Assigned
  <2>8. Paired(DropRest(q, mids)) /\ DropRest(q, mids).cellId = q.cellId
    <3>1. DropRest(q, mids).cellId = q.cellId
      BY <2>6 DEF DropRest, Runtime
    <3> QED BY <2>6, <2>7, <3>1, DropPairs
  <2>9. Paired(rt') /\ rt'.cellId = rt.cellId
    BY <2>3, <2>5, <2>6, <2>8
  <2>10. \A b \in Callers : all'[b].pc # "off" => all[b].pc # "off" /\ all'[b].mids = all[b].mids
    <3>1. all[a].pc # "off"
      BY <2>4 DEF Calling
    <3>2. PICK p \in {"stop", "next"} : all' = [all EXCEPT ![a].pc = p]
      BY <2>3
    <3>3. all'[a].mids = all[a].mids
      BY <1>1, <3>2 DEF AllType
    <3>4. \A b \in Callers \ {a} : all'[b] = all[b]
      BY <1>1, <3>2
    <3> QED BY <3>1, <3>3, <3>4
  <2>11. Assigned'
    BY <1>1, <1>2, <2>9, <2>10, StillAssigned DEF Entered
  <2> QED BY <2>9, <2>11 DEF Entered, Paired, Live
<1> QED BY <1>7, <1>8 DEF Finish

LEMMA RestartEntered ==
    ASSUME IInv, Jobs, Entered, NEW r \in Restarters, RestartBegin(r) \/ RestartStep(r)
    PROVE  Entered'
<1>1. rt \in Runtime /\ nextMsg \in Nat
  BY DEF IInv, TypeOK
<1>2. UNCHANGED <<nextMsg, all>>
  BY DEF RestartBegin, RestartStep, RestartRefused, RestartThrows, RestartAccepted,
         RestartReopened, RestartDone, RestartUnanswered
<1>3. Paired(rt') /\ rt'.cellId = rt.cellId
  <2>1. CASE RestartBegin(r)
    <3>1. PICK q : q = AbortAll(rt)
      OBVIOUS
    <3>2. Paired(q) /\ q \in Runtime /\ q.cellId = rt.cellId
      <4>1. AbortAll(rt).cellId = rt.cellId
        BY <1>1 DEF AbortAll, Runtime
      <4>2. AbortAll(rt) \in Runtime
        BY <1>1 DEF AbortAll, Runtime, CellState
      <4> QED BY <1>1, <3>1, <4>1, <4>2, AbortPairs DEF Entered
    <3>3. rt' = [q EXCEPT !.execState = "restarting"]
      BY <2>1, <3>1 DEF RestartBegin
    <3>4. /\ rt'.cellStates = q.cellStates /\ rt'.pendingRequests = q.pendingRequests
          /\ rt'.cellId = q.cellId
      BY <3>2, <3>3 DEF Runtime
    <3> QED BY <3>2, <3>4, SamePaired
  <2>2. CASE RestartDone(r)
    <3>1. Live(rt) = {}
      BY <2>2 DEF RestartDone, Jobs, NoneInRestart, Restarting
    <3>2. /\ rt'.cellId = rt.cellId /\ rt'.pendingRequests = rt.pendingRequests
          /\ \A c \in Cells : rt'.cellStates[c] = "idle"
      BY <1>1, <2>2 DEF RestartDone, Runtime
    <3>3. PICK q : q = rt'
      OBVIOUS
    <3>4. Paired(q)
      BY <1>1, <3>1, <3>2, <3>3, RemovalPairs DEF Entered
    <3> QED BY <3>2, <3>3, <3>4
  <2>3. CASE RestartStep(r) /\ ~RestartDone(r)
    <3>1. /\ rt'.cellStates = rt.cellStates /\ rt'.pendingRequests = rt.pendingRequests
          /\ rt'.cellId = rt.cellId
      BY <1>1, <2>3 DEF RestartStep, RestartRefused, RestartThrows, RestartAccepted,
                        RestartReopened, RestartUnanswered, Runtime
    <3> QED BY <3>1, SamePaired DEF Entered
  <2> QED BY <2>1, <2>2, <2>3
<1>4. Assigned'
  BY <1>1, <1>2, <1>3, StillAssigned DEF Entered
<1> QED BY <1>3, <1>4 DEF Entered, Paired, Live

LEMMA EnteredStep ==
    ASSUME Races = {}, IInv, Jobs, Entered, [Next]_vars
    PROVE  Entered'
<1>1. /\ rt \in Runtime /\ nextMsg \in Nat /\ "runInRestart" \notin Races
      /\ all \in [Callers -> AllType]
  BY DEF IInv, TypeOK
<1>2. ASSUME rt'.cellStates = rt.cellStates, rt'.pendingRequests = rt.pendingRequests,
             rt'.cellId = rt.cellId, UNCHANGED nextMsg,
             \A a \in Callers : all'[a].pc # "off" =>
                all[a].pc # "off" /\ all'[a].mids = all[a].mids
      PROVE  Entered'
  <2>1. Paired(rt')
    BY <1>2, SamePaired DEF Entered
  <2>2. Assigned'
    BY <1>1, <1>2, StillAssigned DEF Entered
  <2> QED BY <2>1, <2>2 DEF Entered, Paired, Live
<1>3. ASSUME NEW c \in Cells, CancelCell(c) PROVE Entered'
  <2>1. PICK m \in Msgs : First(m, Queued(rt, c)) /\ rt' = CancelQueued(rt, m)
    BY <1>3 DEF CancelCell
  <2>2. UNCHANGED <<nextMsg, all>> /\ m \in Live(rt)
    BY <1>3, <2>1 DEF CancelCell, First, Queued, Live
  <2>3. Paired(rt')
    BY <1>1, <2>1, <2>2, CancelPairs DEF Entered
  <2>4. rt'.cellId = rt.cellId
    BY <1>1, <2>1 DEF CancelQueued, Runtime
  <2>5. Assigned'
    BY <1>1, <2>2, <2>4, StillAssigned DEF Entered
  <2> QED BY <2>3, <2>5 DEF Entered, Paired, Live
<1>4. CASE Command
  BY <1>1, <1>3, <1>4, QueueEntered, SendEntered, RunAllEntered, RestartEntered DEF Command
<1>5. ASSUME NEW a \in Callers, RunAllEnd(a) \/ RunAllStopped(a) PROVE Entered'
  <2>1. /\ rt' = Settle(rt) /\ all' = [all EXCEPT ![a] = AllOff] /\ UNCHANGED nextMsg
    BY <1>5 DEF RunAllEnd, RunAllStopped
  <2>2. /\ rt'.cellStates = rt.cellStates /\ rt'.pendingRequests = rt.pendingRequests
        /\ rt'.cellId = rt.cellId
    BY <1>1, <2>1 DEF Settle, Runtime
  <2>3. \A b \in Callers : all'[b].pc # "off" => all[b].pc # "off" /\ all'[b].mids = all[b].mids
    BY <1>1, <2>1 DEF AllOff
  <2> QED BY <1>2, <2>1, <2>2, <2>3
<1>6. ASSUME NEW m \in Msgs, LoopTake(m) \/ LoopWait(m) \/ FlushDone(m) PROVE Entered'
  <2>1. (rt' = rt \/ rt' = Settle(rt)) /\ UNCHANGED <<nextMsg, all>>
    BY <1>6 DEF LoopTake, LoopWait, FlushDone
  <2>2. /\ rt'.cellStates = rt.cellStates /\ rt'.pendingRequests = rt.pendingRequests
        /\ rt'.cellId = rt.cellId
    BY <1>1, <2>1 DEF Settle, Runtime
  <2> QED BY <1>2, <2>1, <2>2
<1>7. CASE Continuation \/ Viewer
  BY <1>5, <1>6, <1>7, NextEntered, FinishEntered
     DEF Continuation, Viewer, FinishNormally, FinishAborted
<1>8. CASE \E r \in Restarters : RestartStep(r)
  BY <1>8, RestartEntered
<1>9. CASE \/ Kernel \/ DeliverShell \/ DeliverIopub \/ SocketLost
           \/ SocketBack("open") \/ SocketBack("closed") \/ UNCHANGED vars
  <2>1. UNCHANGED <<rt, nextMsg, all>>
    BY <1>9 DEF Kernel, KernelPrint, KernelAnswer, DeliverShell, DeliverIopub, SocketLost,
                SocketBack, vars
  <2> QED BY <1>2, <2>1
<1> QED BY <1>4, <1>7, <1>8, <1>9 DEF Next

(***************************************************************************)
(* A cell shows the output of the run that goes on for it, and of no other.*)
(***************************************************************************)
OwnOutput == \A m \in Running : ~Aborted(m) => outputs[rt.cellId[m]] \subseteq {m}

Outputs == OwnOutput /\ OutputsOfOneRun

LEMMA StillOutputs ==
    ASSUME IInv, Outputs, epoch' \in Nat, epoch <= epoch',
           \A c \in Cells : outputs'[c] \subseteq outputs[c],
           \A m \in Msgs : run'[m].pc # "off" =>
              /\ run[m].pc # "off" /\ run'[m].epoch = run[m].epoch
              /\ rt'.cellId[m] = rt.cellId[m]
    PROVE  Outputs'
<1>1. ASSUME NEW m \in Running', ~Aborted(m)'
      PROVE  outputs'[rt'.cellId[m]] \subseteq {m}
  <2>1. m \in Running /\ rt'.cellId[m] = rt.cellId[m] /\ run'[m].epoch = run[m].epoch
    BY DEF Running, On
  <2>2. run[m].epoch \in Nat /\ epoch \in Nat /\ rt.cellId[m] \in Cells /\ m \in Msgs
    BY <2>1 DEF Running, IInv, TypeOK, RunType, Runtime
  <2>3. ~Aborted(m)
    BY <1>1, <2>1, <2>2 DEF Aborted
  <2>4. outputs[rt.cellId[m]] \subseteq {m}
    BY <2>1, <2>3 DEF Outputs, OwnOutput
  <2> QED BY <2>1, <2>2, <2>4
<1>2. OutputsOfOneRun'
  BY DEF Outputs, OutputsOfOneRun
<1> QED BY <1>1, <1>2 DEF Outputs, OwnOutput

(* A run starts with its cell cleared, when no other run goes on.           *)
LEMMA StartOutputs ==
    ASSUME IInv, Outputs, Running = {}, NEW r \in Runtime, NEW m \in Msgs, NEW c \in Cells,
           NEW by, StartRun(r, m, c, by), r.cellId[m] = c
    PROVE  Outputs'
<1>1. /\ \A n \in Msgs \ {m} : run'[n] = run[n]
      /\ rt'.cellId = r.cellId
      /\ outputs'[c] = {} /\ \A d \in Cells \ {c} : outputs'[d] = outputs[d]
  BY Started DEF IInv
<1>2. Running' \subseteq {m} /\ outputs'[rt'.cellId[m]] = {}
  BY <1>1 DEF Running, On
<1>3. OutputsOfOneRun'
  BY <1>1 DEF Outputs, OutputsOfOneRun
<1> QED BY <1>2, <1>3 DEF Outputs, OwnOutput

LEMMA CommandOutputs ==
    ASSUME "runInRestart" \notin Races, IInv, Printed, Jobs, Entered, Outputs, Command
    PROVE  Outputs'
<1>1. /\ rt \in Runtime /\ nextMsg \in Nat \ {0} /\ epoch \in Nat /\ \A m \in Msgs : m \in Nat
      /\ outputs \in [Cells -> SUBSET Msgs] /\ run \in [Msgs -> RunType]
  BY DEF IInv, TypeOK, Msgs
<1>2. ASSUME NEW c \in Cells, RunCellQueue(c) PROVE Outputs'
  <2>1. /\ nextMsg \in Msgs /\ rt' = Enqueue(rt, nextMsg, c)
        /\ UNCHANGED <<run, epoch, outputs>>
    BY <1>2 DEF RunCellQueue
  <2>2. run[nextMsg].pc = "off"
    BY <1>1, <2>1 DEF IInv, Generations
  <2>3. \A m \in Msgs \ {nextMsg} : rt'.cellId[m] = rt.cellId[m]
    <3>1. PICK r : r = rt /\ r \in Runtime
      BY ONLY <1>1
    <3>2. PICK q : q = Enqueue(r, nextMsg, c) /\ q = rt'
      BY ONLY <2>1, <3>1
    <3>3. \A m \in Msgs \ {nextMsg} : q.cellId[m] = r.cellId[m]
      BY ONLY <2>1, <3>1, <3>2, SMTT(30) DEF Enqueue, Runtime
    <3> QED BY ONLY <3>1, <3>2, <3>3
  <2>4. epoch' \in Nat /\ epoch <= epoch' /\ \A k \in Cells : outputs'[k] \subseteq outputs[k]
    BY <1>1, <2>1
  <2>5. \A m \in Msgs : run'[m].pc # "off" =>
           /\ run[m].pc # "off" /\ run'[m].epoch = run[m].epoch
           /\ rt'.cellId[m] = rt.cellId[m]
    BY <2>1, <2>2, <2>3
  <2> QED BY <2>4, <2>5, StillOutputs
<1>3. ASSUME NEW c \in Cells, RunCellSend(c) \/ RunCellRedispatch(c) PROVE Outputs'
  <2>1. MayRun /\ rt.execState # "busy"
    BY <1>3 DEF RunCellSend, RunCellRedispatch
  <2>2. Running = {}
    BY <2>1, NothingRuns
  <2>3. PICK r \in Runtime, m \in Msgs : StartRun(r, m, c, "cell") /\ r.cellId[m] = c
    BY <1>3, CellStarts
  <2> QED BY <2>2, <2>3, StartOutputs
<1>4. ASSUME NEW c \in Cells, CancelCell(c) PROVE Outputs'
  <2>1. PICK m \in Msgs : rt' = CancelQueued(rt, m)
    BY <1>4 DEF CancelCell
  <2>2. rt'.cellId = rt.cellId /\ UNCHANGED <<run, epoch, outputs>>
    BY <1>1, <1>4, <2>1 DEF CancelCell, CancelQueued, Runtime
  <2> QED BY <1>1, <2>2, StillOutputs
<1>5. ASSUME NEW a \in Callers, RunAll(a) PROVE Outputs'
  <2>1. MayRun /\ rt.execState # "busy" /\ UNCHANGED <<run, epoch, outputs>>
    BY <1>5 DEF RunAll
  <2>2. Running = {}
    BY <2>1, NothingRuns
  <2> QED BY <1>1, <2>1, <2>2, StillOutputs DEF Running, On
<1>6. ASSUME NEW r \in Restarters, RestartBegin(r) PROVE Outputs'
  <2>1. epoch' = epoch + 1 /\ UNCHANGED outputs
    BY <1>6 DEF RestartBegin
  <2>2. \A m \in Msgs : /\ run'[m].epoch = run[m].epoch
                        /\ run'[m].pc # "off" <=> run[m].pc # "off"
    BY <1>1, <1>6 DEF RestartBegin, RunType
  <2>3. rt'.cellId = rt.cellId
    BY <1>1, <1>6 DEF RestartBegin, AbortAll, Runtime
  <2> QED BY <1>1, <2>1, <2>2, <2>3, StillOutputs
<1> QED BY <1>2, <1>3, <1>4, <1>5, <1>6 DEF Command

LEMMA RunOutputs ==
    ASSUME "runInRestart" \notin Races, IInv, Printed, Jobs, Entered, Outputs,
           Continuation \/ Viewer
    PROVE  Outputs'
<1>1. /\ rt \in Runtime /\ epoch \in Nat /\ outputs \in [Cells -> SUBSET Msgs]
      /\ run \in [Msgs -> RunType]
  BY DEF IInv, TypeOK
<1>2. ASSUME NEW m \in Msgs, LoopTake(m) PROVE Outputs'
  <2>1. /\ UNCHANGED <<rt, epoch>> /\ m \in Running /\ ~Aborted(m)
        /\ outputs' \in {outputs, [outputs EXCEPT ![rt.cellId[m]] = @ \cup {m}]}
    BY <1>2 DEF LoopTake, Running, On
  <2>2. \A n \in Msgs \ {m} : run'[n] = run[n]
    BY <1>1, <1>2 DEF LoopTake
  <2>3. \A n \in Running : n = m
    BY <2>1 DEF Jobs, Alternate, RestartHolds, OneJob
  <2>4. Running' \subseteq {m}
    BY <2>2, <2>3 DEF Running, On
  <2>5. rt.cellId[m] \in Cells /\ outputs[rt.cellId[m]] \subseteq {m}
    BY <1>1, <2>1 DEF Outputs, OwnOutput, Running, Runtime
  <2>6. /\ outputs'[rt.cellId[m]] \subseteq {m}
        /\ \A c \in Cells \ {rt.cellId[m]} : outputs'[c] = outputs[c]
    BY <1>1, <2>1, <2>5
  <2>7. OwnOutput'
    BY <2>1, <2>4, <2>6 DEF OwnOutput
  <2>8. OutputsOfOneRun'
    BY <2>6 DEF Outputs, OutputsOfOneRun
  <2> QED BY <2>7, <2>8 DEF Outputs
<1>3. ASSUME NEW m \in Msgs, LoopWait(m) \/ FlushDone(m) PROVE Outputs'
  <2>1. (rt' = rt \/ rt' = Settle(rt)) /\ UNCHANGED <<epoch, outputs>>
    BY <1>3 DEF LoopWait, FlushDone
  <2>2. rt'.cellId = rt.cellId
    BY <1>1, <2>1 DEF Settle, Runtime
  <2>3. \A n \in Msgs : run'[n].epoch = run[n].epoch /\ (run'[n].pc # "off" => run[n].pc # "off")
    <3>1. \E p \in {"wait", "resume"} : run' = [run EXCEPT ![m].pc = p]
      BY <1>3 DEF LoopWait, FlushDone
    <3>2. run[m].pc # "off"
      BY <1>3 DEF LoopWait, FlushDone
    <3>3. PICK p \in {"wait", "resume"} : run' = [run EXCEPT ![m].pc = p]
      BY <3>1
    <3> QED BY <1>1, <3>2, <3>3 DEF RunType
  <2> QED BY <1>1, <2>1, <2>2, <2>3, StillOutputs
<1>4. ASSUME NEW m \in Msgs, NEW aborted \in BOOLEAN, Finish(m, aborted) PROVE Outputs'
  <2>1. /\ run' = [run EXCEPT ![m] = NoRun] /\ UNCHANGED <<epoch, outputs>>
    BY <1>4 DEF Finish
  <2>2. run'[m].pc = "off" /\ \A n \in Msgs \ {m} : run'[n] = run[n]
    BY <1>1, <2>1 DEF NoRun
  <2>3. rt'.cellId = rt.cellId
    <3>1. \A r \in Runtime : Complete(r, m) \in Runtime /\ Complete(r, m).cellId = r.cellId
      BY CompleteRemoves DEF Complete, Runtime
    <3>2. CASE FinishCell(m, aborted)
      <4>1. PICK r : r = IF aborted THEN [rt EXCEPT !.cellStates[rt.cellId[m]] = "aborted"] ELSE rt
        OBVIOUS
      <4>2. r \in Runtime /\ r.cellId = rt.cellId
        BY <1>1, <4>1 DEF Runtime, CellState
      <4>3. PICK q : q = Complete(r, m)
        OBVIOUS
      <4>4. rt' = Settle(q)
        BY <3>2, <4>1, <4>3 DEF FinishCell
      <4> QED BY <3>1, <4>2, <4>3, <4>4 DEF Settle, Runtime
    <3>3. CASE \E a \in Callers : FinishEntry(m, a, aborted)
      <4>1. PICK q : q = Complete(rt, m)
        OBVIOUS
      <4>2. q \in Runtime /\ q.cellId = rt.cellId
        BY <1>1, <3>1, <4>1
      <4>3. \E mids : rt' = q \/ rt' = DropRest(q, mids)
        BY <3>3, <4>1 DEF FinishEntry
      <4> QED BY <4>2, <4>3 DEF DropRest, Runtime
    <3> QED BY <1>4, <3>2, <3>3 DEF Finish
  <2> QED BY <1>1, <2>1, <2>2, <2>3, StillOutputs
<1>5. ASSUME NEW a \in Callers, RunAllNext(a) PROVE Outputs'
  <2>1. Running = {}
    BY <1>5, CallGoesOn
  <2>2. PICK i \in DOMAIN Notebook, m \in Msgs :
          /\ m = all[a].mids[i] /\ StartRun(rt, m, Notebook[i], a) /\ all[a].pc = "next"
    BY <1>5, CallStarts
  <2>3. rt.cellId[m] = Notebook[i] /\ Notebook[i] \in Cells
    BY <2>2, ExecutionAssumption DEF Entered, Assigned, Calling
  <2> QED BY <1>1, <2>1, <2>2, <2>3, StartOutputs
<1>6. ASSUME NEW a \in Callers, RunAllEnd(a) \/ RunAllStopped(a) PROVE Outputs'
  <2>1. rt' = Settle(rt) /\ UNCHANGED <<run, epoch>>
    BY <1>6 DEF RunAllEnd, RunAllStopped
  <2>2. rt'.cellId = rt.cellId
    BY <1>1, <2>1 DEF Settle, Runtime
  <2>3. \A c \in Cells : outputs'[c] \subseteq outputs[c]
    BY <1>1, <1>6 DEF RunAllEnd, RunAllStopped
  <2> QED BY <1>1, <2>1, <2>2, <2>3, StillOutputs
<1> QED BY <1>2, <1>3, <1>4, <1>5, <1>6
        DEF Continuation, Viewer, FinishNormally, FinishAborted

LEMMA OutputsStep ==
    ASSUME Races = {}, IInv, Printed, Jobs, Entered, Outputs, [Next]_vars
    PROVE  Outputs'
<1>1. CASE Command
  BY <1>1, CommandOutputs
<1>2. CASE Continuation \/ Viewer
  BY <1>2, RunOutputs
<1>3. epoch \in Nat /\ run \in [Msgs -> RunType] /\ rt \in Runtime
  BY DEF IInv, TypeOK
<1>4. CASE DeliverShell \/ DeliverIopub
  <2>1. \E f : Receive(f)
    BY <1>4 DEF DeliverShell, DeliverIopub
  <2>2. UNCHANGED <<rt, epoch, outputs>>
    BY <1>4 DEF DeliverShell, DeliverIopub
  <2>3. \A m \in Msgs : run'[m].epoch = run[m].epoch /\ (run'[m].pc # "off" => run[m].pc # "off")
    <3>1. PICK f : Receive(f)
      BY <2>1
    <3>2. PICK n : n = f.msg
      OBVIOUS
    <3>3. CASE n \in Msgs
      BY <1>3, <3>1, <3>2, <3>3 DEF Receive, RunType
    <3>4. CASE n \notin Msgs
      BY <1>3, <3>1, <3>2, <3>4 DEF Receive, RunType
    <3> QED BY <3>3, <3>4
  <2> QED BY <1>3, <2>2, <2>3, StillOutputs
<1>5. CASE \E r \in Restarters : RestartStep(r)
  <2>1. UNCHANGED <<run, epoch, outputs>>
    BY <1>5 DEF RestartStep, RestartRefused, RestartThrows, RestartAccepted, RestartReopened,
                RestartDone, RestartUnanswered
  <2>2. rt'.cellId = rt.cellId
    BY <1>3, <1>5 DEF RestartStep, RestartRefused, RestartThrows, RestartAccepted,
                      RestartReopened, RestartDone, RestartUnanswered, Runtime
  <2> QED BY <1>3, <2>1, <2>2, StillOutputs
<1>6. CASE \/ Kernel \/ SocketLost \/ SocketBack("open") \/ SocketBack("closed")
           \/ UNCHANGED vars
  <2>1. UNCHANGED <<rt, run, epoch, outputs>>
    BY <1>6 DEF Kernel, KernelPrint, KernelAnswer, SocketLost, SocketBack, vars
  <2> QED BY <1>3, <2>1, StillOutputs
<1> QED BY <1>1, <1>2, <1>4, <1>5, <1>6 DEF Next

(* What holds of execution when no race is exhibited.                       *)
Calm == Channels /\ Printed /\ Ordered /\ Jobs /\ Entered /\ Outputs

LEMMA InitCalm == Init => Calm
<1> SUFFICES ASSUME Init PROVE Calm
  OBVIOUS
<1>1. Channels /\ Printed
  BY DEF Init, Channels, Printed, Unsent, Known, On, OutputFirst, Follows, OutputsComplete,
         NoRun, NoKernel
<1>2. \A m \in Msgs : ~On(m) /\ rt.pendingRequests[m] = "none" /\ run[m].pc = "off"
  BY DEF Init, On, NoRun
<1>3. kernel.queue = <<>> /\ iopub = <<>> /\ shell = <<>>
  BY DEF Init, NoKernel
<1>4. Ordered
  BY <1>2, <1>3 DEF Ordered, HeldOnce, Order, IdleLast, IdleEnds, Held, OnShell, OnIopub
<1>5. Live(rt) = {} /\ Running = {} /\ Calling = {} /\ ~Restarting
  BY <1>2 DEF Live, Running, Calling, Restarting, Init, AllOff
<1>6. Jobs
  <2>1. Waits
    BY <1>2 DEF Waits, Init, AllOff
  <2>2. OneJob
    BY <1>5 DEF OneJob, Init
  <2> QED BY <1>5, <2>1, <2>2 DEF Jobs, NoneInRestart, Alternate
<1>7. Entered
  <2>1. \A c \in Cells : rt.cellStates[c] = "idle"
    BY DEF Init
  <2> QED BY <1>5, <2>1 DEF Entered, Paired, Assigned
<1>8. Outputs
  BY <1>5 DEF Init, Outputs, OwnOutput, OutputsOfOneRun
<1> QED BY <1>1, <1>4, <1>6, <1>7, <1>8 DEF Calm

LEMMA CalmStep ==
    ASSUME Races = {}, IInv, Calm, [Next]_vars
    PROVE  Calm'
<1>1. Channels' /\ Printed'
  BY ChannelsStep, PrintedStep DEF Calm
<1>2. Ordered'
  BY OrderedStep DEF Calm
<1>3. Jobs'
  BY JobsStep DEF Calm
<1>4. Entered'
  BY EnteredStep DEF Calm
<1>5. Outputs'
  BY OutputsStep DEF Calm
<1> QED BY <1>1, <1>2, <1>3, <1>4, <1>5 DEF Calm

LEMMA CalmInvariance ==
    ASSUME Races = {}
    PROVE  Spec => [](IInv /\ Calm)
<1>1. IInv /\ Calm /\ [Next]_vars => Calm'
  BY CalmStep
<1> QED BY <1>1, InitCalm, Invariance, PTL DEF Spec

(* With no race, of any number of commands, requests, restarts and losses   *)
(* of the socket: cellStates, pendingRequests and execState move in lockstep*)
(* (session/pending-requests.ts:4), and at most one request is sent.        *)
THEOREM StatesInLockstep ==
    ASSUME Races = {}
    PROVE  Spec => []Lockstep
<1>1. ASSUME IInv, Calm PROVE Lockstep
  <2>1. Sent \subseteq Running /\ Sent \subseteq Live(rt)
    BY <1>1 DEF IInv, SentHasRun, Sent, Running, On, Live
  <2>2. CASE Restarting
    <3>1. Sent = {}
      BY <1>1, <2>1, <2>2 DEF Calm, Jobs, NoneInRestart
    <3> QED BY <1>1, <3>1 DEF Lockstep, BusyWhileSent, Calm, Entered, Paired
  <2>3. CASE ~Restarting
    <3>1. OneJob
      BY <1>1, <2>3 DEF Calm, Jobs, Alternate
    <3>2. Quiescent /\ Sent # {} => rt.execState = "busy"
      BY <2>1, <3>1 DEF OneJob, Freed, Quiescent, Running
    <3>3. \A m, n \in Sent : m = n
      BY <2>1, <3>1 DEF OneJob
    <3> QED BY <1>1, <3>2, <3>3 DEF Lockstep, BusyWhileSent, Calm, Entered, Paired
  <2> QED BY <2>2, <2>3
<1> QED BY <1>1, CalmInvariance, PTL

(* With no race: a cell never shows the output of two runs mixed.           *)
THEOREM OneRunShown ==
    ASSUME Races = {}
    PROVE  Spec => []OutputsOfOneRun
<1>1. Calm => OutputsOfOneRun
  BY DEF Calm, Outputs
<1> QED BY <1>1, CalmInvariance, PTL

(* With no race: a request is sent only when every other one sent has been  *)
(* seen to end (tests/spec/main/dispatcher/exec/run-cell_spec.ts, case (j)).*)
THEOREM SentAlone ==
    ASSUME Races = {}
    PROVE  Spec => OneAtATime
<1>1. IInv /\ Calm /\ [Next]_vars =>
        [\A m \in Sent' \ Sent : \A n \in Sent \ {m} : run[n].idle]_vars
  <2> SUFFICES ASSUME IInv, Calm, Next
               PROVE  Running = {} \/ Sent' \subseteq Sent
    BY DEF IInv, SentHasRun, Sent, Running, On
  <2>1. rt \in Runtime /\ nextMsg \in Nat \ {0} /\ "runInRestart" \notin Races
    BY DEF IInv, TypeOK
  <2>2. (\A m \in Msgs : rt'.pendingRequests[m] = "sent" => rt.pendingRequests[m] = "sent")
          => Sent' \subseteq Sent
    BY DEF Sent
  <2>3. ASSUME NEW c \in Cells, RunCellQueue(c) PROVE Sent' \subseteq Sent
    BY <2>1, <2>2, <2>3 DEF RunCellQueue, Enqueue, Runtime
  <2>4. ASSUME NEW c \in Cells, RunCellSend(c) \/ RunCellRedispatch(c) PROVE Running = {}
    BY <2>1, <2>4, NothingRuns DEF RunCellSend, RunCellRedispatch, Calm
  <2>5. ASSUME NEW c \in Cells, CancelCell(c) PROVE Sent' \subseteq Sent
    BY <2>1, <2>2, <2>5 DEF CancelCell, CancelQueued, Runtime
  <2>6. ASSUME NEW a \in Callers, RunAll(a) PROVE Running = {}
    BY <2>1, <2>6, NothingRuns DEF RunAll, Calm
  <2>7. ASSUME NEW r \in Restarters, RestartBegin(r) PROVE Sent' \subseteq Sent
    BY <2>1, <2>2, <2>7 DEF RestartBegin, AbortAll, Runtime
  <2>8. CASE Command
    BY <2>3, <2>4, <2>5, <2>6, <2>7, <2>8 DEF Command
  <2>9. ASSUME NEW m \in Msgs, NEW aborted \in BOOLEAN, Finish(m, aborted)
        PROVE  Sent' \subseteq Sent
    BY <2>2, <2>9, FinishStep DEF Fewer
  <2>10. ASSUME NEW a \in Callers, RunAllNext(a) PROVE Running = {}
    BY <2>1, <2>10, CallGoesOn DEF Calm
  <2>11. rt' = rt \/ rt' = Settle(rt) => Sent' \subseteq Sent
    BY <2>1 DEF Settle, Runtime, Sent
  <2>12. CASE Continuation \/ Viewer
    BY <2>9, <2>10, <2>11, <2>12 DEF Continuation, Viewer, FinishNormally, FinishAborted,
       LoopTake, LoopWait, FlushDone, RunAllEnd, RunAllStopped
  <2>13. CASE \E r \in Restarters : RestartStep(r)
    BY <2>1, <2>2, <2>13 DEF RestartStep, RestartRefused, RestartThrows, RestartAccepted,
                RestartReopened, RestartDone, RestartUnanswered, Runtime
  <2>14. CASE \/ Kernel \/ DeliverShell \/ DeliverIopub \/ SocketLost
              \/ SocketBack("open") \/ SocketBack("closed")
    BY <2>11, <2>14 DEF Kernel, KernelPrint, KernelAnswer, DeliverShell, DeliverIopub,
                        SocketLost, SocketBack
  <2> QED BY <2>8, <2>12, <2>13, <2>14 DEF Next
<1> QED BY <1>1, CalmInvariance, PTL DEF Spec, OneAtATime

=============================================================================

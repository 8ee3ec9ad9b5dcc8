------------------------------ MODULE Editing ------------------------------
(***************************************************************************)
(* Editing one open notebook: the cell operations (dispatcher/cell/), undo *)
(* and redo (dispatcher/undo.ts, session/undo-history.ts), save and open   *)
(* (dispatcher/notebook.ts), and the re-rendering that other parts start   *)
(* (dispatcher/view.ts, dispatcher/exec/restart.ts).                       *)
(*                                                                         *)
(* Every call captures the session when it begins, and SessionStore.update *)
(* replaces the session: what a call computes, it computes from the        *)
(* notebook of its beginning.  Steps between two awaits are one action.    *)
(* The editor sends the calls with denops#notify, so they may overlap;     *)
(* undo and redo requests go through a queue of their own.                 *)
(*                                                                         *)
(* A definition whose name starts with Bug is a plausible mistake in the   *)
(* definition that follows it; no specification uses it.                   *)
(***************************************************************************)
EXTENDS NotebookCells, FiniteSets

CONSTANTS
    Calls,          \* calls that may be under way at once
    Files,          \* notebooks that a file may hold
    Sources,        \* sources a user may write into a cell
    Types,          \* cell types a user may ask for
    MaxHistory,     \* g:europa_undo_max_history
    MaxEdits,       \* bound: cell operations begun
    MaxWork,        \* bound: calls made, cell operations included
    Overlap         \* pairs of kinds of work that may be under way together

Kinds == {"edit", "save", "view", "undo"}

(* What nbformat requires: only code cells have outputs, and no two cells   *)
(* have the same id.                                                        *)
IsFile(f) ==
    /\ f \in Seq(Range(f))
    /\ \A i \in DOMAIN f :
          /\ f[i] = Cell(f[i].id, f[i].cell_type, f[i].source, f[i].outputs)
          /\ f[i].id \in 1 .. Len(f)
          /\ f[i].cell_type # "code" => f[i].outputs = NoOutputs
    /\ \A i, j \in DOMAIN f : f[i].id = f[j].id => i = j

ASSUME EditingAssumption ==
    /\ MaxHistory \in Nat \ {0}
    /\ MaxEdits \in Nat /\ MaxWork \in Nat
    /\ Overlap \subseteq SUBSET Kinds
    /\ Types \subseteq CellTypes
    /\ \A f \in Files : IsFile(f)

VARIABLES
    nb,         \* session.notebook
    undo,       \* undoStack: snapshots
    redo,       \* redoStack
    queue,      \* requestQueue: "undo" and "redo"
    inFlight,
    req,        \* the request being processed
    calls,      \* the other calls
    viewer,     \* what the viewer buffer shows; ok is FALSE if drawing it failed
    modified,   \* &modified of the viewer buffer
    wiped,      \* auxiliary: a re-rendering has cleared `modified` since
    disk,       \* the file
    saved,      \* lastSavedSnapshot
    used        \* cell ids, cell operations and calls so far

vars == <<nb, undo, redo, queue, inFlight, req, calls, viewer, modified, wiped,
          disk, saved, used>>
history == <<undo, redo>>
requests == <<queue, inFlight, req>>
screen == <<viewer, modified, wiped>>
file == <<disk, saved>>

IdleCall == [pc |-> "off", kind |-> "edit", base |-> <<>>, new |-> <<>>, was |-> <<>>]
IdleReq == [pc |-> "off", dir |-> "undo", base |-> <<>>, entry |-> <<>>, saved |-> <<>>]

Init ==
    \E f \in Files :
        /\ nb = f /\ disk = f
        /\ saved = takeStructuralSnapshot(f)
        /\ undo = <<>> /\ redo = <<>> /\ queue = <<>>
        /\ inFlight = FALSE /\ req = IdleReq
        /\ calls = [k \in Calls |-> IdleCall]
        /\ viewer = [ok |-> TRUE, cells |-> takeStructuralSnapshot(f)]
        /\ modified = FALSE /\ wiped = FALSE
        /\ used = [ids |-> Len(f), edits |-> 0, work |-> 0]

Busy == {k \in Calls : calls[k].pc # "off"}
Quiet == Busy = {} /\ ~inFlight

MayRun(kind) ==
    /\ \A k \in Busy : {kind, calls[k].kind} \in Overlap
    /\ inFlight /\ kind # "undo" => {kind, "undo"} \in Overlap

-----------------------------------------------------------------------------
(* Cell operations.  Each computes its notebook from the captured one; the  *)
(* history is pushed before the notebook is stored, in some operations at   *)
(* once and in the others after an await.                                   *)

Capped(s) == IF Len(s) > MaxHistory THEN Tail(s) ELSE s

BugPushForgetsCap(base) ==
    /\ undo' = Append(undo, takeStructuralSnapshot(base))
    /\ redo' = <<>>

Push(base) ==
    /\ undo' = Capped(Append(undo, takeStructuralSnapshot(base)))
    /\ redo' = <<>>

Begins(k, ids, call) ==
    /\ calls[k].pc = "off" /\ MayRun("edit")
    /\ used.edits < MaxEdits /\ used.work < MaxWork
    /\ calls' = [calls EXCEPT ![k] = call]
    /\ used' = [used EXCEPT !.edits = @ + 1, !.work = @ + 1, !.ids = @ + ids]
    /\ UNCHANGED <<nb, requests, screen, file>>

(* The entry is pushed after an await: insert, delete, split, join, save.   *)
PushesLater(k, ids, new) ==
    /\ Begins(k, ids, [IdleCall EXCEPT !.pc = "push", !.base = nb, !.new = new])
    /\ UNCHANGED history

(* The entry is pushed at once: move, change type.  A move that leads       *)
(* nowhere, or a change to the same type, returns the same notebook.        *)
PushesNow(k, new) ==
    /\ new # nb
    /\ Begins(k, 0, [IdleCall EXCEPT !.pc = "commit", !.base = nb, !.new = new,
                                     !.was = history])
    /\ Push(nb)

InsertCell(k) ==
    \E position \in {"before", "after"}, type \in Types, anchor \in CellIds(nb) \cup {0} :
        /\ anchor = 0 <=> nb = <<>>
        /\ PushesLater(k, 1, insertCell(nb, position, type, anchor, used.ids + 1))

DeleteCell(k) == \E id \in CellIds(nb) : PushesLater(k, 0, deleteCell(nb, id))

MoveCell(k) ==
    \E id \in CellIds(nb), direction \in {"up", "down"} :
        PushesNow(k, moveCell(nb, id, direction))

SplitCell(k) ==
    \E id \in CellIds(nb) : \E at \in 0 .. Len(nb[Index(nb, id)].source) :
        PushesLater(k, 1, splitCell(nb, id, at, used.ids + 1))

JoinCell(k) ==
    \E id \in CellIds(nb) : Index(nb, id) > 1 /\ PushesLater(k, 0, joinCell(nb, id))

ChangeCellType(k) ==
    \E id \in CellIds(nb), type \in Types : PushesNow(k, changeCellType(nb, id, type))

SaveCellEdit(k) ==
    \E id \in CellIds(nb), source \in Sources :
        PushesLater(k, 0, updateCellSource(nb, id, source))

EditPushes(k) ==
    /\ calls[k].pc = "push"
    /\ Push(calls[k].base)
    /\ calls' = [calls EXCEPT ![k].pc = "commit", ![k].was = history]
    /\ UNCHANGED <<nb, requests, screen, file, used>>

Ends(k) == calls' = [calls EXCEPT ![k] = IdleCall]

(* The flush, loadConfig or buildRenderPlan threw: the entry stays.         *)
EditThrows(k) ==
    /\ calls[k].pc = "commit"
    /\ Ends(k)
    /\ UNCHANGED <<nb, history, requests, screen, file, used>>

EditCommits(k) ==
    /\ calls[k].pc = "commit"
    /\ nb' = calls[k].new
    /\ calls' = [calls EXCEPT ![k].pc = "render"]
    /\ UNCHANGED <<history, requests, screen, file, used>>

EditRenders(k) ==
    /\ calls[k].pc = "render" /\ calls[k].kind = "edit"
    /\ viewer' = [ok |-> TRUE, cells |-> takeStructuralSnapshot(calls[k].new)]
    /\ modified' = TRUE /\ wiped' = FALSE
    /\ Ends(k)
    /\ UNCHANGED <<nb, history, requests, file, used>>

(* Drawing fails, before it begins (refreshMirror) or half way             *)
(* (applyRenderPlan): `modified`, which it clears last, is not set again.   *)
HalfDrawn ==
    /\ viewer' = [viewer EXCEPT !.ok = FALSE]
    /\ modified' \in {modified, FALSE}
    /\ wiped' = TRUE

EditHalfDrawn(k) ==
    /\ calls[k].pc = "render" /\ calls[k].kind = "edit"
    /\ HalfDrawn
    /\ Ends(k)
    /\ UNCHANGED <<nb, history, requests, file, used>>

-----------------------------------------------------------------------------
(* Undo and redo.                                                           *)

(* europaUndo and europaRedo: refused when the queue is full.               *)
Enqueue(dir) ==
    /\ MayRun("undo") /\ used.work < MaxWork
    /\ used' = [used EXCEPT !.work = @ + 1]
    /\ IF Len(queue) >= MaxHistory
       THEN UNCHANGED requests
       ELSE IF inFlight
       THEN queue' = Append(queue, dir) /\ UNCHANGED <<inFlight, req>>
       ELSE /\ inFlight' = TRUE
            /\ req' = [IdleReq EXCEPT !.pc = "start", !.dir = dir]
            /\ UNCHANGED queue
    /\ UNCHANGED <<nb, history, calls, screen, file>>

(* The processor has settled, in whatever way: the next request, if any.    *)
BugFinishStaysBusy ==
    IF queue = <<>>
    THEN req' = IdleReq /\ UNCHANGED <<inFlight, queue>>
    ELSE /\ req' = [IdleReq EXCEPT !.pc = "start", !.dir = Head(queue)]
         /\ queue' = Tail(queue) /\ UNCHANGED inFlight

Finish ==
    IF queue = <<>>
    THEN req' = IdleReq /\ inFlight' = FALSE /\ UNCHANGED queue
    ELSE /\ req' = [IdleReq EXCEPT !.pc = "start", !.dir = Head(queue)]
         /\ queue' = Tail(queue) /\ UNCHANGED inFlight

Stack == IF req.dir = "undo" THEN undo ELSE redo

(* processOne captures the session and awaits the flush.                    *)
UndoStarts ==
    /\ req.pc = "start"
    /\ req' = [req EXCEPT !.pc = "pop", !.base = nb, !.saved = saved]
    /\ UNCHANGED <<nb, history, queue, inFlight, calls, screen, file, used>>

(* A scratch buffer of the affected cell is dirty, or the stack is empty.   *)
UndoRefused ==
    /\ req.pc = "start" /\ Stack # <<>>
    /\ Finish
    /\ UNCHANGED <<nb, history, calls, screen, file, used>>

NothingToUndo ==
    /\ req.pc = "pop" /\ Stack = <<>>
    /\ Finish
    /\ UNCHANGED <<nb, history, calls, screen, file, used>>

UndoPops ==
    /\ req.pc = "pop" /\ Stack # <<>>
    /\ IF req.dir = "undo" THEN undo' = Front(undo) /\ UNCHANGED redo
                           ELSE redo' = Front(redo) /\ UNCHANGED undo
    /\ nb' = restoreStructural(req.base, Last(Stack))
    /\ req' = [req EXCEPT !.pc = "render", !.entry = Last(Stack)]
    /\ UNCHANGED <<queue, inFlight, calls, screen, file, used>>

(* The viewer is drawn, the opposite entry pushed, `modified` recomputed.   *)
Opposite(snapshot) ==
    IF req.dir = "undo" THEN redo' = Append(redo, snapshot) /\ UNCHANGED undo
                        ELSE undo' = Append(undo, snapshot) /\ UNCHANGED redo

BugRendersModified ==
    /\ req.pc = "render"
    /\ viewer' = [ok |-> TRUE, cells |-> req.entry]
    /\ Opposite(takeStructuralSnapshot(req.base))
    /\ modified' = (undo' # <<>>) /\ wiped' = FALSE
    /\ Finish
    /\ UNCHANGED <<nb, calls, file, used>>

UndoRenders ==
    /\ req.pc = "render"
    /\ viewer' = [ok |-> TRUE, cells |-> req.entry]
    /\ Opposite(takeStructuralSnapshot(req.base))
    /\ modified' = (req.entry # req.saved) /\ wiped' = FALSE
    /\ Finish
    /\ UNCHANGED <<nb, calls, file, used>>

(* Something threw before, in or after applyRenderPlan: the entry is put    *)
(* back and the notebook restored, to be drawn again.  The setbufvar that   *)
(* ends processOne, with the opposite entry already pushed, does not fail.  *)
BugRollbackDropsEntry ==
    /\ req.pc = "render"
    /\ nb' = restoreStructural(req.base, takeStructuralSnapshot(req.base))
    /\ req' = [req EXCEPT !.pc = "redraw"]
    /\ HalfDrawn
    /\ UNCHANGED <<history, queue, inFlight, calls, file, used>>

UndoThrows ==
    /\ req.pc = "render"
    /\ IF req.dir = "undo" THEN undo' = Append(undo, req.entry) /\ UNCHANGED redo
                           ELSE redo' = Append(redo, req.entry) /\ UNCHANGED undo
    /\ nb' = restoreStructural(req.base, takeStructuralSnapshot(req.base))
    /\ req' = [req EXCEPT !.pc = "redraw"]
    /\ HalfDrawn
    /\ UNCHANGED <<queue, inFlight, calls, file, used>>

(* The second drawing clears `modified`, and nothing sets it again.         *)
BugRedrawsUndone ==
    /\ req.pc = "redraw"
    /\ viewer' = [ok |-> TRUE, cells |-> req.entry]
    /\ modified' = FALSE /\ wiped' = TRUE
    /\ Finish
    /\ UNCHANGED <<nb, history, calls, file, used>>

UndoRedraws ==
    /\ req.pc = "redraw"
    /\ viewer' = [ok |-> TRUE, cells |-> takeStructuralSnapshot(req.base)]
    /\ modified' = FALSE /\ wiped' = TRUE
    /\ Finish
    /\ UNCHANGED <<nb, history, calls, file, used>>

UndoBroken ==
    /\ req.pc = "redraw"
    /\ HalfDrawn
    /\ Finish
    /\ UNCHANGED <<nb, history, calls, file, used>>

-----------------------------------------------------------------------------
(* Save, re-rendering and opening again.                                    *)

Other(k, kind, pc) ==
    /\ calls[k].pc = "off" /\ used.work < MaxWork /\ MayRun(kind)
    /\ calls' = [calls EXCEPT ![k] = [IdleCall EXCEPT !.pc = pc, !.kind = kind, !.base = nb]]
    /\ used' = [used EXCEPT !.work = @ + 1]
    /\ UNCHANGED <<nb, history, requests, screen, file>>

SaveBegins(k) == Other(k, "save", "write")

SaveFails(k) ==
    /\ calls[k].pc = "write"
    /\ Ends(k)
    /\ UNCHANGED <<nb, history, requests, screen, file, used>>

SaveWrites(k) ==
    /\ calls[k].pc = "write"
    /\ disk' = calls[k].base
    /\ calls' = [calls EXCEPT ![k].pc = "clear"]
    /\ UNCHANGED <<nb, history, requests, screen, saved, used>>

SaveClears(k) ==
    /\ calls[k].pc = "clear"
    /\ modified' = FALSE /\ wiped' = FALSE
    /\ calls' = [calls EXCEPT ![k].pc = "record"]
    /\ UNCHANGED <<nb, history, requests, viewer, file, used>>

SaveRecords(k) ==
    /\ calls[k].pc = "record"
    /\ saved' = takeStructuralSnapshot(calls[k].base)
    /\ Ends(k)
    /\ UNCHANGED <<nb, history, requests, screen, disk, used>>

(* The viewer window is entered, or the kernel was restarted.               *)
ViewBegins(k) == Other(k, "view", "render")

ViewRenders(k) ==
    /\ calls[k].pc = "render" /\ calls[k].kind = "view"
    /\ viewer' = [ok |-> TRUE, cells |-> takeStructuralSnapshot(calls[k].base)]
    /\ modified' = FALSE /\ wiped' = (wiped \/ modified)
    /\ Ends(k)
    /\ UNCHANGED <<nb, history, requests, file, used>>

ViewFails(k) ==
    /\ calls[k].pc = "render" /\ calls[k].kind = "view"
    /\ HalfDrawn
    /\ Ends(k)
    /\ UNCHANGED <<nb, history, requests, file, used>>

(* `:e`, once everything has ended: a new session with an empty history.    *)
Reopen ==
    /\ Quiet /\ used.work < MaxWork
    /\ nb' = disk /\ saved' = takeStructuralSnapshot(disk)
    /\ undo' = <<>> /\ redo' = <<>>
    /\ viewer' = [ok |-> TRUE, cells |-> takeStructuralSnapshot(disk)]
    /\ modified' = FALSE /\ wiped' = FALSE
    /\ used' = [used EXCEPT !.work = @ + 1]
    /\ UNCHANGED <<requests, calls, disk>>

-----------------------------------------------------------------------------
EditBegins(k) ==
    \/ InsertCell(k) \/ DeleteCell(k) \/ MoveCell(k) \/ SplitCell(k)
    \/ JoinCell(k) \/ ChangeCellType(k) \/ SaveCellEdit(k)

CallStep(k) ==
    \/ EditPushes(k) \/ EditThrows(k) \/ EditCommits(k) \/ EditRenders(k) \/ EditHalfDrawn(k)
    \/ SaveFails(k) \/ SaveWrites(k) \/ SaveClears(k) \/ SaveRecords(k)
    \/ ViewRenders(k) \/ ViewFails(k)

UndoStep ==
    \/ UndoStarts \/ UndoRefused \/ NothingToUndo \/ UndoPops
    \/ UndoRenders \/ UndoThrows \/ UndoRedraws \/ UndoBroken

Next ==
    \/ \E k \in Calls : EditBegins(k) \/ SaveBegins(k) \/ ViewBegins(k) \/ CallStep(k)
    \/ \E dir \in {"undo", "redo"} : Enqueue(dir)
    \/ UndoStep
    \/ Reopen

Spec == Init /\ [][Next]_vars

(* What a call awaits - editor calls, file writes, the flush - ends.        *)
FairSpec ==
    /\ Spec
    /\ WF_vars(UndoStep)
    /\ \A k \in Calls : WF_vars(CallStep(k))

-----------------------------------------------------------------------------
Snapshots == {undo[i] : i \in DOMAIN undo} \cup {redo[i] : i \in DOMAIN redo}

IsNotebook(s) ==
    \A i \in DOMAIN s : /\ s[i].id \in Nat
                        /\ s[i].cell_type \in CellTypes
                        /\ s[i].source # <<>>

TypeOK ==
    /\ \A s \in Snapshots \cup {nb, disk, saved, viewer.cells} : IsNotebook(s)
    /\ queue \in Seq({"undo", "redo"})
    /\ inFlight \in BOOLEAN /\ modified \in BOOLEAN /\ wiped \in BOOLEAN
    /\ viewer.ok \in BOOLEAN
    /\ req.pc \in {"off", "start", "pop", "render", "redraw"}
    /\ \A k \in Calls :
           calls[k].pc \in {"off", "push", "commit", "render", "write", "clear", "record"}

(* "Each keystroke maps 1:1 to a step" (session/undo-history.ts:8): while a *)
(* request waits, another is being processed.                               *)
QueueServed == (queue # <<>> => inFlight) /\ (inFlight <=> req.pc # "off")

(* "Maximum number of undo entries retained" (doc/europa-configuration.txt  *)
(* :182): undo and redo together never hold more, not even after a rollback *)
(* or a redo, which push without regard to the cap.                         *)
CapKept == Len(undo) + Len(redo) <= MaxHistory

(* Undo and redo walk along one line of notebooks.  An entry that is pushed *)
(* but not committed, or popped but not yet answered, has not moved.        *)
Uncommitted == {k \in Calls : calls[k].pc = "commit"}
Was == calls[CHOOSE k \in Uncommitted : TRUE].was
Popped(dir) == req.pc = "render" /\ req.dir = dir

Shown == INSTANCE Timeline WITH
    past <- IF Uncommitted # {} THEN Was[1]
            ELSE IF Popped("undo") THEN Append(undo, req.entry) ELSE undo,
    present <- takeStructuralSnapshot(IF req.pc = "render" THEN req.base ELSE nb),
    future <- IF Uncommitted # {} THEN Was[2]
              ELSE IF Popped("redo") THEN Append(redo, req.entry) ELSE redo

RefinesTimeline == Shown!Walk

(* When everything has ended, the viewer shows the notebook, unless drawing *)
(* it has failed.                                                           *)
ViewerCurrent == Quiet /\ viewer.ok => viewer.cells = takeStructuralSnapshot(nb)

(* When everything has ended, an unmodified buffer has the structure that   *)
(* is on disk, unless a re-rendering cleared the flag meanwhile.            *)
CleanMatchesDisk ==
    Quiet /\ ~modified /\ ~wiped =>
        takeStructuralSnapshot(nb) = takeStructuralSnapshot(disk)

(* No two cells of a notebook share an id, whatever is split, joined,       *)
(* deleted and brought back: every command names its cell by its id.        *)
Distinct(s) == \A i, j \in DOMAIN s : s[i].id = s[j].id => i = j
UniqueIds == \A s \in Snapshots \cup {nb, disk} : Distinct(s)

(* "Kernel outputs and execution counts are preserved across undo"          *)
(* (doc/europa-commands.txt:284), and across every other operation: a code  *)
(* cell that stays keeps its outputs, and no cell gets those of another,    *)
(* nor its id.                                                              *)
OutputsKept ==
    /\ []UniqueIds
    /\ [][Reopen \/ \A i \in DOMAIN nb, j \in DOMAIN nb' :
              nb[i].id = nb'[j].id /\ nb[i].cell_type = nb'[j].cell_type
                  => nb[i].outputs = nb'[j].outputs]_nb

(* "callers are responsible for setting snapshot to the correct pre-mutation *)
(* state" (contracts/undo-history.ts:133): what a cell operation replaces is *)
(* what its undo will restore.                                               *)
SnapshotPrecedes ==
    [][\A k \in Calls : calls[k].pc = "commit" /\ calls'[k].pc = "render"
           => Last(undo) = takeStructuralSnapshot(nb)]_vars

(* Every request, and every call, ends.                                     *)
WorkEnds == ~Quiet ~> Quiet
=============================================================================

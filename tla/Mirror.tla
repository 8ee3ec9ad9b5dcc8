------------------------------- MODULE Mirror -------------------------------
(***************************************************************************)
(* Editing cells in buffers of their own: the LSP mirror, one Python file  *)
(* and buffer for all code cells, and the scratch buffers, one per cell    *)
(* (dispatcher/cell/edit.ts, view/viewer.ts, lsp/workspace.ts), beside the *)
(* cell operations, undo and redo, which regenerate the mirror             *)
(* (dispatcher/_mirror.ts).                                                *)
(*                                                                         *)
(* Calls are taken one at a time (Editing has them overlap); the user goes *)
(* on between the steps of a call.  A :w waits for its saveCellEdit.       *)
(***************************************************************************)
EXTENDS MirrorText, FiniteSets

(* Notebooks that a file may hold: the ids of the cells differ, and no line *)
(* looks like a marker of the mirror.                                       *)
IsNotebook(cells) ==
    /\ cells \in Seq(Range(cells))
    /\ \A i \in DOMAIN cells :
          /\ cells[i] = Cell(cells[i].id, cells[i].cell_type, cells[i].source,
                             cells[i].outputs)
          /\ cells[i].source \in Seq(Range(cells[i].source)) \ {<<>>}
          /\ \A l \in Range(cells[i].source) : l[1] # "marker"
    /\ \A i, j \in DOMAIN cells : cells[i].id = cells[j].id => i = j

CONSTANTS
    Notebooks,      \* notebooks that a file may hold
    Ids,            \* cell ids
    Scratches,      \* bound: cells that are edited in a scratch
    NewLines,       \* lines that a user writes
    FrozenLine,     \* [Cell deleted from notebook]
    MaxOps,         \* bound: cell operations and sessions
    MaxTyped,       \* bound: changes by the user
    Meanwhile,      \* hypothesis dropped if TRUE: the user neither reloads nor
                    \* wipes a buffer during a call, nor types while it is replaced
    Leftovers       \* hypothesis dropped if TRUE: a cell is opened only when no
                    \* scratch of it is, or will be, left without its registration

ASSUME MirrorAssumption ==
    /\ MaxOps \in Nat /\ MaxTyped \in Nat
    /\ Meanwhile \in BOOLEAN /\ Leftovers \in BOOLEAN
    /\ Ids \subseteq Nat \ {0}
    /\ \A cells \in Notebooks : IsNotebook(cells) /\ CellIds(cells) \subseteq Ids
    /\ \A l \in NewLines \cup {EmptyLine, FrozenLine} : l[1] # "marker"

VARIABLES
    nb,         \* session.notebook
    undo, redo, \* entries of undoHistory
    mirror,     \* session.lspMirror; bufnr tells whether mirrorBufnr is set
    file,       \* lines of the file of the mirror, <<>> if there is none
    buf,        \* the buffer of the mirror
    scratch,    \* id |-> the buffer __europa_cell_<id>__
    reg,        \* cellEditBuffers: id |-> none, mirror or scratch
    call,       \* the call under way
    typed,      \* auxiliary, id |-> source the user has written in the mirror
    moved,      \* auxiliary: cells whose lines the user has added to or removed from
    used        \* ids, operations and changes so far

notebook == <<nb, undo, redo>>
mirrors == <<mirror, file, buf>>
edits == <<typed, moved>>
vars == <<notebook, mirrors, scratch, reg, call, edits, used>>

Regions == [lineProvenance |-> <<>>, cellRegions |-> <<>>]
NoMirror == [there |-> FALSE, bufnr |-> FALSE, stale |-> FALSE, build |-> Regions]
NoBuffer == [state |-> "none", lines |-> <<>>, modified |-> FALSE]
Showing(lines) == [state |-> "open", lines |-> lines, modified |-> FALSE]
NoCall == [pc |-> "off", synced |-> TRUE, mirror |-> NoMirror, show |-> <<>>,
           drop |-> {}, trims |-> FALSE]

SourcesOf(cells) ==
    [id \in Ids |-> IF id \in CellIds(cells) THEN cells[Index(cells, id)].source ELSE <<>>]

Init ==
    /\ nb \in Notebooks /\ undo = <<>> /\ redo = <<>>
    /\ mirror = NoMirror /\ file = <<>> /\ buf = NoBuffer
    /\ scratch = [id \in Ids |-> NoBuffer] /\ reg = [id \in Ids |-> "none"]
    /\ call = NoCall
    /\ typed = SourcesOf(nb) /\ moved = {}
    /\ used = [ids |-> Max({0} \cup CellIds(nb)), ops |-> 0, typed |-> 0]

AtRest == call.pc = "off"

-----------------------------------------------------------------------------
(* Regenerating the mirror.                                                 *)

Lines(cells) == buildMirror(cells).lines

Rebuilt(m, cells, synced) ==
    [m EXCEPT !.build = LET b == buildMirror(cells)
                        IN [lineProvenance |-> b.lineProvenance,
                            cellRegions |-> b.cellRegions],
              !.stale = ~synced]

BufferThere == mirror.bufnr /\ buf.state = "open"

(* syncMirrorBuffer skips a buffer with unsaved edits.                      *)
BugSyncForces == FALSE
Skipped == buf.modified

(* setbufline, deletebufline and &modified.                                 *)
Replaced(cells) ==
    /\ buf' = Showing(Lines(cells))
    /\ typed' = SourcesOf(cells) /\ moved' = {}

(* refreshMirror inside a save, which the editor waits for.                 *)
Refreshed(cells, force) ==
    IF ~mirror.there THEN UNCHANGED <<mirrors, edits>>
    ELSE /\ file' = Lines(cells)
         /\ mirror' = Rebuilt(mirror, cells, ~BufferThere \/ force \/ ~Skipped)
         /\ IF BufferThere /\ (force \/ ~Skipped) THEN Replaced(cells)
            ELSE UNCHANGED <<buf, edits>>

(* refreshMirror inside another call: the file and the look at &modified,   *)
(* the buffer, and at last the regions, with the rest of the state as it    *)
(* was at first.                                                            *)
Refresh ==
    /\ call.pc = "refresh"
    /\ IF ~mirror.there THEN call' = [call EXCEPT !.pc = "finish"] /\ UNCHANGED file
       ELSE /\ file' = Lines(nb)
            /\ call' = [call EXCEPT
                   !.pc = IF BufferThere /\ ~Skipped THEN "replace" ELSE "regions",
                   !.synced = ~BufferThere \/ ~Skipped, !.mirror = mirror]
    /\ UNCHANGED <<notebook, mirror, buf, scratch, reg, edits, used>>

Replace ==
    /\ call.pc = "replace"
    /\ IF buf.state = "open" THEN Replaced(nb) ELSE UNCHANGED <<buf, edits>>
    /\ call' = [call EXCEPT !.pc = "regions"]
    /\ UNCHANGED <<notebook, mirror, file, scratch, reg, used>>

UpdateRegions ==
    /\ call.pc = "regions"
    /\ mirror' = Rebuilt(call.mirror, nb, call.synced)
    /\ call' = [call EXCEPT !.pc = "finish"]
    /\ UNCHANGED <<notebook, file, buf, scratch, reg, edits, used>>

(* What an operation does to scratch buffers after it has drawn: those of   *)
(* `show` are given the new source, those of `drop` are frozen; the mirror  *)
(* buffer is spared, and only the registration of `drop` goes.  An undo     *)
(* cuts the lines that are too many after it has reset &modified, which     *)
(* sets it again.                                                           *)
Freeze(b) == [b EXCEPT !.state = "frozen", !.lines = Append(@, FrozenLine), !.modified = FALSE]

Frozen(ids) ==
    [id \in Ids |-> IF id \in ids /\ reg[id] = "scratch" /\ scratch[id].state = "open"
                    THEN Freeze(scratch[id]) ELSE scratch[id]]

Unregistered(ids) == [id \in Ids |-> IF id \in ids THEN "none" ELSE reg[id]]

Finish ==
    /\ call.pc = "finish"
    /\ scratch' = [id \in Ids |->
           IF id \in DOMAIN call.show /\ reg[id] = "scratch" /\ scratch[id].state = "open"
           THEN [Showing(call.show[id]) EXCEPT !.modified =
                    call.trims /\ Len(scratch[id].lines) > Len(call.show[id])]
           ELSE Frozen(call.drop)[id]]
    /\ reg' = Unregistered(call.drop)
    /\ call' = NoCall
    /\ UNCHANGED <<notebook, mirrors, edits, used>>

-----------------------------------------------------------------------------
(* Cell operations, undo and redo.  An entry has the cells whose buffers    *)
(* must be clean to undo and to redo it, 0 for none, and scratchSync.       *)

Entry(before, after, sync) ==
    [snapshot |-> takeStructuralSnapshot(nb), before |-> before, after |-> after,
     sync |-> sync]

(* refuseIfScratchDirty.                                                    *)
Dirty(id) ==
    \/ reg[id] = "mirror" /\ buf.modified
    \/ reg[id] = "scratch" /\ scratch[id].modified

Operate(new, entry, ids, show, drop) ==
    /\ AtRest /\ used.ops < MaxOps /\ new # nb
    /\ nb' = new /\ undo' = Append(undo, entry) /\ redo' = <<>>
    /\ call' = [NoCall EXCEPT !.pc = "refresh", !.show = show, !.drop = drop]
    /\ used' = [used EXCEPT !.ops = @ + 1, !.ids = @ + ids]
    /\ UNCHANGED <<mirrors, edits>>

InsertCell ==
    \E anchor \in CellIds(nb) \cup {0}, position \in {"before", "after"} :
        /\ anchor = 0 <=> nb = <<>>
        /\ used.ids + 1 \in Ids
        /\ Operate(insertCell(nb, position, "code", anchor, used.ids + 1),
                   Entry(anchor, used.ids + 1, <<>>), 1, <<>>, {})
        /\ UNCHANGED <<scratch, reg>>

MoveCell ==
    \E id \in CellIds(nb), direction \in {"up", "down"} :
        /\ Operate(moveCell(nb, id, direction), Entry(id, id, <<>>), 0, <<>>, {})
        /\ UNCHANGED <<scratch, reg>>

ChangeCellType ==
    \E id \in CellIds(nb), type \in {"code", "markdown"} :
        /\ Operate(changeCellType(nb, id, type), Entry(id, id, <<>>), 0, <<>>, {})
        /\ UNCHANGED <<scratch, reg>>

(* deleteCell freezes the scratch of the cell before it draws.  A redo will *)
(* look at the buffer of the cell the cursor is in now.                     *)
DeleteCell ==
    \E id, cursor \in CellIds(nb) :
        /\ Operate(deleteCell(nb, id), Entry(id, cursor, <<>>), 0, <<>>, {})
        /\ scratch' = Frozen({id}) /\ reg' = Unregistered({id})

SplitCell ==
    \E id \in CellIds(nb) : \E at \in 0 .. Len(nb[Index(nb, id)].source) :
        LET new == splitCell(nb, id, at, used.ids + 1)
        IN /\ ~Dirty(id) /\ used.ids + 1 \in Ids
           /\ Operate(new, Entry(id, id, <<>>), 1,
                      [c \in {id} |-> new[Index(new, id)].source], {})
           /\ UNCHANGED <<scratch, reg>>

JoinCell ==
    \E i \in 2 .. Len(nb) :
        LET id == nb[i].id
            above == nb[i - 1].id
            new == joinCell(nb, id)
        IN /\ ~Dirty(id) /\ ~Dirty(above)
           /\ Operate(new, Entry(above, above, <<>>), 0,
                      [c \in {above} |-> new[i - 1].source], {id})
           /\ UNCHANGED <<scratch, reg>>

(* The cell whose buffer processOne looks at: an insert at no anchor names  *)
(* the first or the last cell.                                              *)
Affected(id) == IF id = 0 /\ nb # <<>> THEN {Head(nb).id, Last(nb).id} ELSE {id} \ {0}

(* processOne: refused if the affected buffer has unsaved edits, unless it  *)
(* is the scratch whose save is undone.                                     *)
ProcessOne(from, to, kind) ==
    LET entry == Last(from)
        restored == restoreStructural(nb, entry.snapshot)
        sync == DOMAIN entry.sync
        back == [snapshot |-> takeStructuralSnapshot(nb), before |-> entry.before,
                 after |-> entry.after,
                 sync |-> [id \in sync |-> IF id \in CellIds(nb)
                                           THEN nb[Index(nb, id)].source
                                           ELSE entry.sync[id]]]
    IN /\ AtRest /\ from # <<>> /\ used.ops < MaxOps
       /\ LET affected == Affected(IF kind = "undo" THEN entry.before ELSE entry.after)
          IN affected = {} \/ \E id \in affected : id \in sync \/ ~Dirty(id)
       /\ nb' = restored
       /\ IF kind = "undo" THEN undo' = Front(undo) /\ redo' = Append(redo, back)
          ELSE redo' = Front(redo) /\ undo' = Append(undo, back)
       /\ call' = [NoCall EXCEPT !.pc = "refresh", !.show = entry.sync, !.trims = TRUE]
       /\ used' = [used EXCEPT !.ops = @ + 1]
       /\ UNCHANGED <<mirrors, scratch, reg, edits>>

Undo == ProcessOne(undo, redo, "undo")
Redo == ProcessOne(redo, undo, "redo")

-----------------------------------------------------------------------------
(* Opening and saving.                                                      *)

(* A mirror buffer that is there is only shown, else the file is read.      *)
openCellRegion ==
    IF BufferThere THEN UNCHANGED <<buf, edits>>
    ELSE /\ buf' = Showing(file')
         /\ typed' = SourcesOf(nb) /\ moved' = {}

(* editCell with the mirror.                                                *)
EditInMirror(id) ==
    /\ AtRest /\ nb[Index(nb, id)].cell_type = "code"
    /\ Leftovers \/ scratch[id].state # "open"
    /\ reg[id] # "mirror" \/ ~BufferThere
    /\ IF mirror.there THEN UNCHANGED file ELSE file' = Lines(nb)
    /\ mirror' = [(IF mirror.there THEN mirror ELSE Rebuilt(mirror, nb, TRUE))
                      EXCEPT !.there = TRUE, !.bufnr = TRUE]
    /\ openCellRegion
    /\ reg' = [reg EXCEPT ![id] = "mirror"]
    /\ UNCHANGED <<notebook, scratch, call, used>>

(* setbufline on a buffer that is there leaves what is below.               *)
Loaded(b, source) ==
    Showing(source \o SubSeq(b.lines, Len(source) + 1, Len(b.lines)))

(* editCell without it: a buffer of that name is taken up again.            *)
EditInScratch(id) ==
    /\ AtRest /\ id \in Scratches
    /\ reg[id] # "scratch" \/ scratch[id].state = "none"
    /\ Leftovers \/ scratch[id].state = "none"
    /\ scratch' = [scratch EXCEPT ![id] = Loaded(@, nb[Index(nb, id)].source)]
    /\ reg' = [reg EXCEPT ![id] = "scratch"]
    /\ UNCHANGED <<notebook, mirrors, call, edits, used>>

CellsOfMirror == {id \in Ids : reg[id] = "mirror"}

(* resolveEditTarget for the mirror buffer: by a registration, or else by   *)
(* mirrorBufnr if the mirror has a cell.                                    *)
BugNoFallback == CellsOfMirror

Origins ==
    IF CellsOfMirror # {} THEN CellsOfMirror
    ELSE IF mirror.there /\ mirror.bufnr /\ mirror.build.cellRegions # <<>>
    THEN {Head(mirror.build.cellRegions).cellId} ELSE {}

Distributed == distributeWriteBack(buf.lines, mirror.build)

(* What the notebook becomes: of several cells, each its source.            *)
WrittenBack(sources) ==
    [i \in DOMAIN nb |->
        IF nb[i].id \in DOMAIN sources THEN [nb[i] EXCEPT !.source = sources[nb[i].id]]
        ELSE nb[i]]

(* pickMirrorSaveHintCell.                                                  *)
Hint(origin, changed) ==
    IF origin \in changed THEN origin
    ELSE LET first == SelectInSeq(buf.lines, LAMBDA l : l[1] = "marker" /\ l[2] \in changed)
         IN buf.lines[first][2]

Saves == AtRest /\ buf.state = "open" /\ Origins # {}

BugNoStaleGuard ==
    /\ Saves
    /\ LET sources == Distributed
           changed == {id \in DOMAIN sources : SourcesOf(nb)[id] # sources[id]}
       IN /\ changed # {}
          /\ \E origin \in Origins :
                undo' = Append(undo, Entry(Hint(origin, changed), Hint(origin, changed), <<>>))
          /\ nb' = WrittenBack(sources)
          /\ Refreshed(WrittenBack(sources), TRUE)
    /\ redo' = <<>>
    /\ UNCHANGED <<scratch, reg, call, used>>

(* :w in the mirror.  A stale buffer and one without markers are refused.   *)
SaveMirror ==
    /\ Saves /\ ~mirror.stale
    /\ LET sources == Distributed
           changed == {id \in DOMAIN sources : SourcesOf(nb)[id] # sources[id]}
       IN /\ changed # {}
          /\ \E origin \in Origins :
                undo' = Append(undo, Entry(Hint(origin, changed), Hint(origin, changed), <<>>))
          /\ nb' = WrittenBack(sources)
          /\ Refreshed(WrittenBack(sources), TRUE)
    /\ redo' = <<>>
    /\ UNCHANGED <<scratch, reg, call, used>>

(* :w in the mirror that changes no cell.                                   *)
SaveUnchanged ==
    /\ Saves /\ buf.modified /\ ~mirror.stale
    /\ \A id \in DOMAIN Distributed : SourcesOf(nb)[id] = Distributed[id]
    /\ DOMAIN Distributed # {} \/ mirror.build.cellRegions = <<>>
    /\ buf' = [buf EXCEPT !.modified = FALSE]
    /\ UNCHANGED <<notebook, mirror, file, scratch, reg, call, edits, used>>

(* :w in a scratch that is registered for a cell of the notebook.           *)
SaveScratch(id) ==
    /\ AtRest /\ used.ops < MaxOps
    /\ reg[id] = "scratch" /\ scratch[id].state = "open" /\ id \in CellIds(nb)
    /\ nb' = updateCellSource(nb, id, scratch[id].lines)
    /\ undo' = Append(undo, Entry(id, id, [c \in {id} |-> nb[Index(nb, id)].source]))
    /\ redo' = <<>>
    /\ Refreshed(updateCellSource(nb, id, scratch[id].lines), FALSE)
    /\ scratch' = [scratch EXCEPT ![id].modified = FALSE]
    /\ used' = [used EXCEPT !.ops = @ + 1]
    /\ UNCHANGED <<reg, call>>

-----------------------------------------------------------------------------
(* Closing.                                                                 *)

ByUser == Meanwhile \/ AtRest

BugForgetsOne(ids) ==
    IF ids = {} THEN reg ELSE [reg EXCEPT ![Min(ids)] = "none"]

(* closeCellEdit forgets every registration of the buffer.                  *)
Forgotten(ids) == Unregistered(ids)

cleanupMirrorOnExit == file' = <<>> /\ mirror' = NoMirror

(* The buffer is wiped, and closeCellEdit, if it finds what it belongs to,  *)
(* removes the file and the state.                                          *)
CloseMirror ==
    /\ ByUser /\ buf.state = "open"
    /\ buf' = NoBuffer
    /\ IF Origins # {}
       THEN reg' = Forgotten(CellsOfMirror) /\ cleanupMirrorOnExit
       ELSE UNCHANGED <<reg, mirror, file>>
    /\ UNCHANGED <<notebook, scratch, call, edits, used>>

CloseScratch(id) ==
    /\ ByUser /\ scratch[id].state # "none"
    /\ scratch' = [scratch EXCEPT ![id] = NoBuffer]
    /\ reg' = IF reg[id] = "scratch" THEN Forgotten({id}) ELSE reg
    /\ UNCHANGED <<notebook, mirrors, call, edits, used>>

(* :e! reads the file; mirrorReloaded lifts the stale guard.                *)
Reload ==
    /\ ByUser /\ buf.state = "open" /\ file # <<>>
    /\ buf' = Showing(file)
    /\ mirror' = IF Origins # {} THEN [mirror EXCEPT !.stale = FALSE] ELSE mirror
    /\ typed' = SourcesOf(nb) /\ moved' = {}
    /\ UNCHANGED <<notebook, file, scratch, reg, call, used>>

(* The mirror buffer is wiped even if no cell is registered for it.         *)
WipesMirror == buf' = IF mirror.bufnr THEN NoBuffer ELSE buf

(* :e in the viewer: teardownSession, then the notebook of the file.        *)
Reopen ==
    /\ AtRest /\ used.ops < MaxOps
    /\ scratch' = [id \in Ids |-> IF reg[id] = "scratch" THEN NoBuffer ELSE scratch[id]]
    /\ WipesMirror /\ cleanupMirrorOnExit
    /\ reg' = [id \in Ids |-> "none"]
    /\ nb' \in Notebooks /\ undo' = <<>> /\ redo' = <<>>
    /\ typed' = SourcesOf(nb') /\ moved' = {}
    /\ used' = [used EXCEPT !.ops = @ + 1, !.ids = Max({@} \cup CellIds(nb'))]
    /\ UNCHANGED call

-----------------------------------------------------------------------------
(* The user in the buffers.                                                 *)

Types ==
    /\ buf.state = "open" /\ used.typed < MaxTyped
    /\ Meanwhile \/ call.pc # "replace"
    /\ used' = [used EXCEPT !.typed = @ + 1]
    /\ UNCHANGED <<notebook, mirror, file, scratch, reg, call>>

Edited(lines) == buf' = [buf EXCEPT !.lines = lines, !.modified = TRUE]

(* The cell that line i belongs to, as its marker says, and the place of    *)
(* the line in it: what is above the first marker comes first.              *)
MarkerOf(i) == Max({0} \cup {j \in 1 .. i : buf.lines[j][1] = "marker"})
CellLines == {i \in DOMAIN buf.lines : MarkerOf(i) \notin {0, i}}
CellAt(i) == buf.lines[MarkerOf(i)][2]
FirstMarker == SelectInSeq(buf.lines, LAMBDA l : l[1] = "marker")
PlaceOf(i) ==
    Cardinality({j \in CellLines : j <= i /\ CellAt(j) = CellAt(i)})
      + IF buf.lines[FirstMarker][2] # CellAt(i) THEN 0
        ELSE Cardinality({j \in 1 .. FirstMarker - 1 : buf.lines[j][1] # "header"})

ChangeLine ==
    /\ Types
    /\ \E i \in CellLines, l \in NewLines :
          /\ Edited([buf.lines EXCEPT ![i] = l])
          /\ typed' = [typed EXCEPT ![CellAt(i)] =
                 [n \in DOMAIN @ |-> IF n = PlaceOf(i) THEN l ELSE @[n]]]
    /\ UNCHANGED moved

AddLine ==
    /\ Types
    /\ \E i \in CellLines, l \in NewLines :
          /\ Edited(InsertAt(buf.lines, i, l))
          /\ typed' = [typed EXCEPT ![CellAt(i)] = InsertAt(@, PlaceOf(i), l)]
          /\ moved' = moved \cup {CellAt(i)}

RemoveLine ==
    /\ Types
    /\ \E i \in CellLines :
          /\ Edited(RemoveAt(buf.lines, i))
          /\ typed' = [typed EXCEPT ![CellAt(i)] = RemoveAt(@, PlaceOf(i))]
          /\ moved' = moved \cup {CellAt(i)}

(* As an import that a language server adds at the top.                     *)
AddPreamble ==
    /\ Types
    /\ \E l \in NewLines :
          /\ Edited(<<l>> \o buf.lines)
          /\ FirstMarker # 0
          /\ LET id == buf.lines[FirstMarker][2]
             IN typed' = [typed EXCEPT ![id] = <<l>> \o @] /\ moved' = moved \cup {id}

(* A block of a cell pasted below the last one.                             *)
PasteBlock ==
    /\ Types
    /\ \E i \in DOMAIN buf.lines, l \in NewLines :
          /\ buf.lines[i][1] = "marker"
          /\ Edited(buf.lines \o <<buf.lines[i], l>>)
          /\ typed' = [typed EXCEPT ![buf.lines[i][2]] = Append(@, l)]
          /\ moved' = moved \cup {buf.lines[i][2]}

(* All markers are gone.                                                    *)
LoseMarkers ==
    /\ Types
    /\ Edited(Picked(buf.lines, {i \in DOMAIN buf.lines : buf.lines[i][1] # "marker"}))
    /\ UNCHANGED edits

TypeInScratch(id) ==
    /\ scratch[id].state = "open" /\ used.typed < MaxTyped
    /\ Meanwhile \/ AtRest
    /\ \E l \in NewLines :
          scratch' = [scratch EXCEPT ![id].lines = [@ EXCEPT ![1] = l], ![id].modified = TRUE]
    /\ used' = [used EXCEPT !.typed = @ + 1]
    /\ UNCHANGED <<notebook, mirrors, reg, call, edits>>

CallSteps == Refresh \/ Replace \/ UpdateRegions \/ Finish

Next ==
    \/ CallSteps
    \/ InsertCell \/ MoveCell \/ ChangeCellType \/ DeleteCell \/ SplitCell \/ JoinCell
    \/ Undo \/ Redo
    \/ \E id \in CellIds(nb) : EditInMirror(id) \/ EditInScratch(id)
    \/ SaveMirror \/ SaveUnchanged \/ CloseMirror \/ Reload \/ Reopen
    \/ \E id \in Ids : SaveScratch(id) \/ CloseScratch(id) \/ TypeInScratch(id)
    \/ ChangeLine \/ AddLine \/ RemoveLine \/ AddPreamble \/ PasteBlock \/ LoseMarkers

Spec == Init /\ [][Next]_vars

-----------------------------------------------------------------------------
(* Properties.                                                              *)

TypeOK ==
    /\ CellIds(nb) \subseteq Ids
    /\ mirror.there \in BOOLEAN /\ mirror.bufnr \in BOOLEAN /\ mirror.stale \in BOOLEAN
    /\ buf.state \in {"none", "open"}
    /\ \A id \in Ids : /\ scratch[id].state \in {"none", "open", "frozen"}
                       /\ reg[id] \in {"none", "mirror", "scratch"}
    /\ call.pc \in {"off", "refresh", "replace", "regions", "finish"}
    /\ moved \subseteq Ids
    /\ used.ops \in 0 .. MaxOps /\ used.typed \in 0 .. MaxTyped

CodeSources(cells) ==
    [id \in {c.id : c \in {cells[i] : i \in {j \in DOMAIN cells : cells[j].cell_type = "code"}}}
        |-> cells[Index(cells, id)].source]

(* When no call is under way, the file is the mirror of the notebook, and a *)
(* mirror buffer without unsaved edits would write back what the notebook   *)
(* has: a :w, whenever it comes, changes nothing that nobody has edited     *)
(* (_mirror.ts, refreshMirror after each operation, save, undo and redo).   *)
InStep ==
    AtRest /\ mirror.there =>
        /\ file = Lines(nb)
        /\ BufferThere /\ ~buf.modified =>
              /\ ~mirror.stale \/ mirror.build.cellRegions = <<>>
              /\ Distributed = CodeSources(nb)

(* `source` is what the user made of a cell; where lines were added or      *)
(* removed a magic may have stayed the comment that stood for it.           *)
Matches(source, id) ==
    LET meant == Text(typed[id])
    IN IF id \notin moved THEN source = meant
       ELSE /\ Len(source) = Len(meant)
            /\ \A i \in DOMAIN source : source[i] \in {meant[i], commentLine(meant[i])}

(* A :w in the mirror gives each code cell what the user has written in its *)
(* block, whatever cell operations, saves and undos have gone before it:    *)
(* magics are restored, added imports are not lost, and a buffer of an old  *)
(* layout is refused (edit.ts, the stale guard; writeback.ts).              *)
SaveFaithful ==
    [][nb' # nb /\ SaveMirror => \A id \in DOMAIN CodeSources(nb) : Matches(CodeSources(nb')[id], id)]_vars

(* Unsaved edits of the mirror go only by a hand of the user: no operation, *)
(* undo or save of a scratch replaces them (viewer.ts, syncMirrorBuffer:    *)
(* they must never be discarded).                                           *)
EditsKept ==
    [][buf.modified /\ buf' # buf =>
          \/ used'.typed # used.typed
          \/ SaveMirror \/ SaveUnchanged \/ CloseMirror \/ Reload \/ Reopen]_vars

(* A registration is of a buffer that there is: no save or undo goes by a   *)
(* buffer number whose buffer is wiped or frozen (edit.ts, closeCellEdit;   *)
(* delete.ts and join.ts).                                                  *)
NoDeadRegistration ==
    AtRest => \A id \in Ids : /\ reg[id] = "scratch" => scratch[id].state = "open"
                             /\ reg[id] = "mirror" => BufferThere

(* The state of the mirror and its file come and go together, and there is  *)
(* no buffer of the mirror without them; when the buffer is wiped, whichever*)
(* cells are still registered for it, they go too, unless the notebook has  *)
(* no code cell left to find the mirror by (edit.ts, resolveEditTarget;     *)
(* notebook.ts, teardownSession).                                           *)
HasCode == \E i \in DOMAIN nb : nb[i].cell_type = "code"

FileGoesWithBuffer ==
    /\ [](mirror.there <=> file # <<>>)
    /\ [](buf.state = "open" => mirror.there)
    /\ [][AtRest /\ HasCode /\ buf.state = "open" /\ buf'.state = "none" => ~mirror'.there]_vars

(* A scratch whose cell is deleted is frozen so that it cannot be written   *)
(* back: what freezing adds to it never gets into a cell (viewer.ts,        *)
(* freezeCellEditBuffer).                                                   *)
FrozenStaysOut == \A i \in DOMAIN nb : FrozenLine \notin Range(nb[i].source)
=============================================================================

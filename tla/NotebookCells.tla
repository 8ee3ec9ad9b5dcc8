--------------------------- MODULE NotebookCells ---------------------------
(***************************************************************************)
(* The pure operators on a notebook (notebook/cell.ts) and on its          *)
(* structural snapshots (notebook/structural-snapshot.ts).                 *)
(*                                                                         *)
(* A notebook is the sequence of its cells.  A source is the sequence of   *)
(* its lines, never empty: the empty string is one empty line.  Outputs    *)
(* and execution_count are one value, 0 for [] and null; metadata and      *)
(* attachments are left out.                                               *)
(***************************************************************************)
EXTENDS Naturals, Sequences, SequencesExt

CONSTANT EmptyLine

CellTypes == {"code", "markdown", "raw"}
NoOutputs == 0

Cell(id, type, source, outputs) ==
    [id |-> id, cell_type |-> type, source |-> source, outputs |-> outputs]

(* findIndex, 0 for -1.                                                     *)
Index(nb, id) == SelectInSeq(nb, LAMBDA c : c.id = id)
CellIds(nb) == {nb[i].id : i \in DOMAIN nb}

(* lines.join("\n") of no line is the empty string.                         *)
Text(lines) == IF lines = <<>> THEN <<EmptyLine>> ELSE lines

insertCell(nb, position, type, anchor, new) ==
    LET blank == Cell(new, type, <<EmptyLine>>, NoOutputs)
        i == Index(nb, anchor)
    IN IF nb = <<>> THEN <<blank>>
       ELSE InsertAt(nb, IF position = "after" THEN i + 1 ELSE i, blank)

deleteCell(nb, id) == RemoveAt(nb, Index(nb, id))

moveCell(nb, id, direction) ==
    LET i == Index(nb, id)
        j == IF direction = "up" THEN i - 1 ELSE i + 1
    IN IF j \in DOMAIN nb THEN [nb EXCEPT ![i] = nb[j], ![j] = nb[i]] ELSE nb

(* The upper cell keeps the id and the outputs.                             *)
splitCell(nb, id, line, new) ==
    LET i == Index(nb, id)
        c == nb[i]
        upper == [c EXCEPT !.source = Text(SubSeq(c.source, 1, line))]
        lower == Cell(new, c.cell_type, Text(SubSeq(c.source, line + 1, Len(c.source))),
                      NoOutputs)
    IN InsertAt(ReplaceAt(nb, i, upper), i + 1, lower)

(* The cell above absorbs the source and keeps everything else.             *)
joinCell(nb, id) ==
    LET i == Index(nb, id)
        merged == [nb[i - 1] EXCEPT !.source = @ \o nb[i].source]
    IN IF i <= 1 THEN nb ELSE RemoveAt(ReplaceAt(nb, i - 1, merged), i)

updateCellSource(nb, id, source) ==
    LET i == Index(nb, id) IN IF i = 0 THEN nb ELSE [nb EXCEPT ![i].source = source]

(* To another type, or from one: the outputs are dropped.                   *)
changeCellType(nb, id, newType) ==
    LET i == Index(nb, id)
    IN IF nb[i].cell_type = newType THEN nb
       ELSE [nb EXCEPT ![i] = Cell(id, newType, @.source, NoOutputs)]

-----------------------------------------------------------------------------
SnapshotCell(c) == [id |-> c.id, cell_type |-> c.cell_type, source |-> c.source]

takeStructuralSnapshot(nb) == [i \in DOMAIN nb |-> SnapshotCell(nb[i])]

(* The structure comes from the snapshot, the outputs from the live cell if *)
(* both are code.                                                           *)
BugRestoreWipesOutputs(nb, snapshot) ==
    [i \in DOMAIN snapshot |->
        Cell(snapshot[i].id, snapshot[i].cell_type, snapshot[i].source, NoOutputs)]

restoreStructural(nb, snapshot) ==
    LET Outputs(c) == LET i == Index(nb, c.id)
                      IN IF i # 0 /\ c.cell_type = "code" THEN nb[i].outputs ELSE NoOutputs
    IN [i \in DOMAIN snapshot |->
           Cell(snapshot[i].id, snapshot[i].cell_type, snapshot[i].source,
                Outputs(snapshot[i]))]
=============================================================================

----------------------------- MODULE MirrorText -----------------------------
(***************************************************************************)
(* The text of the LSP mirror: one Python module made of the code cells of *)
(* a notebook (lsp/mirror.ts), whose magic lines are commented out         *)
(* (lsp/normalize.ts), and the way back, from the lines of the edited      *)
(* buffer to the sources of the cells (lsp/writeback.ts).                  *)
(*                                                                         *)
(* A line is a pair, its kind and what it says.  "magic" stands for line   *)
(* magics, shell escapes and help, "cellmagic" for %%.                     *)
(***************************************************************************)
EXTENDS NotebookCells

commentLine(line) == <<"comment", line>>
Marker(id) == <<"marker", id>>
SUPPRESSION_HEADER == <<<<"header", 1>>, <<"header", 2>>>>

(* The lines of a source that are not Python.                               *)
Magic(source) ==
    LET blankless == SelectSeq(source, LAMBDA l : l # EmptyLine)
        whole == blankless # <<>> /\ Head(blankless)[1] = "cellmagic"
    IN {i \in DOMAIN source : whole \/ source[i][1] = "magic"}

Content == [kind |-> "content", original |-> EmptyLine]

normalizeCell(source) ==
    LET magic == Magic(source)
    IN [lines |-> [i \in DOMAIN source |->
                      IF i \in magic THEN commentLine(source[i]) ELSE source[i]],
        provenance |-> [i \in DOMAIN source |->
                      IF i \in magic THEN [kind |-> "magic", original |-> source[i]]
                      ELSE Content]]

denormalizeLine(line, prov) ==
    IF prov.kind = "magic" /\ line = commentLine(prov.original) THEN prov.original ELSE line

(* Adds a cell to what there is of the mirror.  Lines count from 0, and so  *)
(* do those of a region.                                                    *)
AddRegion(m, c) ==
    LET n == normalizeCell(c.source)
    IN IF c.cell_type # "code" THEN m
       ELSE [lines |-> m.lines \o <<Marker(c.id)>> \o n.lines,
             lineProvenance |-> m.lineProvenance \o <<[Content EXCEPT !.kind = "marker"]>>
                                    \o n.provenance,
             cellRegions |-> Append(m.cellRegions,
                 [cellId |-> c.id, startLine |-> Len(m.lines) + 1,
                  endLine |-> Len(m.lines) + Len(n.lines)])]

buildMirror(nb) ==
    LET head == [lines |-> SUPPRESSION_HEADER,
                 lineProvenance |-> [i \in DOMAIN SUPPRESSION_HEADER |->
                                         [Content EXCEPT !.kind = "header"]],
                 cellRegions |-> <<>>]
        built[n \in 0 .. Len(nb)] == IF n = 0 THEN head ELSE AddRegion(built[n - 1], nb[n])
    IN built[Len(nb)]

KnownCells(m) == {m.cellRegions[r].cellId : r \in DOMAIN m.cellRegions}

RegionOf(m, id) == m.cellRegions[SelectInSeq(m.cellRegions, LAMBDA q : q.cellId = id)]

BugProvenanceOff(m, id) ==
    LET r == RegionOf(m, id)
    IN SubSeq(m.lineProvenance, r.startLine, r.endLine)

(* Provenance of the lines of a cell.                                       *)
ProvenanceOf(m, id) ==
    LET r == RegionOf(m, id)
    IN SubSeq(m.lineProvenance, r.startLine + 1, r.endLine + 1)

-----------------------------------------------------------------------------
(* distributeWriteBack.                                                     *)

(* The lines that open a block: markers of cells that the mirror knows.     *)
Opening(lines, m) ==
    LET known == KnownCells(m)
    IN {i \in DOMAIN lines : lines[i][1] = "marker" /\ lines[i][2] \in known}

(* The line that opens the block of line i, 0 above the first.              *)
OpenedBy(opening, i) == Max({0} \cup {j \in opening : j <= i})

(* The lines at some places.                                                *)
Picked(lines, places) ==
    LET picked[n \in 0 .. Len(lines)] ==
            IF n = 0 THEN <<>>
            ELSE IF n \in places THEN Append(picked[n - 1], lines[n]) ELSE picked[n - 1]
    IN picked[Len(lines)]

Preamble(lines, opening) ==
    Picked(lines, {i \in DOMAIN lines : /\ OpenedBy(opening, i) = 0
                                        /\ lines[i] \notin Range(SUPPRESSION_HEADER)})

(* Several blocks of one cell are one; what stands above the first block    *)
(* goes into it.                                                            *)
BlockOf(lines, opening, id) ==
    LET own == Picked(lines, {i \in DOMAIN lines \ opening :
                                  LET o == OpenedBy(opening, i)
                                  IN o # 0 /\ lines[o] = Marker(id)})
        first == lines[Min(opening)][2]
    IN IF id = first THEN Preamble(lines, opening) \o own ELSE own

(* A magic line is restored if the cell has as many lines as it had, and    *)
(* the line at its place is its comment.                                    *)
distributeWriteBack(lines, m) ==
    LET opening == Opening(lines, m)
    IN [id \in {lines[i][2] : i \in opening} |->
           LET block == BlockOf(lines, opening, id)
               prov == ProvenanceOf(m, id)
           IN Text(IF Len(block) # Len(prov) THEN block
                   ELSE [i \in DOMAIN block |-> denormalizeLine(block[i], prov[i])])]
=============================================================================

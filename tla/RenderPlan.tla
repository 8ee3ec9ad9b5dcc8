---------------------------- MODULE RenderPlan ----------------------------
(***************************************************************************)
(* The lines of the viewer: how a notebook becomes a render plan           *)
(* (render/builder.ts, render/dispatcher.ts, render/text.ts,               *)
(* render/image.ts), and what the viewer reads in one (view/viewer.ts,     *)
(* view/traceback-jump.ts).                                                *)
(*                                                                         *)
(* A line is what it stands for: the cell, the part of the cell, the place *)
(* in that part, and the content.  Content is made of numbers: a piece of  *)
(* a stream is the number of its newlines, a MIME value the number of its  *)
(* lines, or of the rows of its image, a source line any number.  Borders, *)
(* columns, line highlights and markdown decorations are left out.  Line   *)
(* numbers start from 0, as in the code.                                   *)
(***************************************************************************)
EXTENDS Integers, Sequences, SequencesExt

CONSTANTS
    MaxOutputLines, \* g:europa_max_output_lines
    MimePriority,   \* g:europa_mime_priority
    Sixel           \* caps.image = "sixel"

IsSequence(s) == s \in Seq(ToSet(s))

ASSUME RenderAssumption ==
    MaxOutputLines \in Nat \ {0} /\ Sixel \in BOOLEAN /\ IsSequence(MimePriority)

Images == {"image/png", "image/jpeg"}
NoCell == 0

Line(cell, part, at, what) == [cell |-> cell, part |-> part, at |-> at, what |-> what]

Stream(name, text) == [kind |-> "stream", name |-> name, text |-> text]
Data(bundle) == [kind |-> "data", bundle |-> bundle]
Error(frames) == [kind |-> "error", frames |-> frames]

Total(numbers) ==
    LET sum[k \in 0 .. Len(numbers)] == IF k = 0 THEN 0 ELSE sum[k - 1] + numbers[k]
    IN sum[Len(numbers)]

(* What a notebook is made of.  A line of a traceback has a frame of a      *)
(* cell, of a file, or none.                                                *)
IsFrame(f) == f.kind \in {"none", "cell", "file"} /\ f.count \in Nat /\ f.line \in Nat

IsOutput(o) ==
    \/ o.kind = "stream" /\ o.text \in Seq(Nat)
    \/ o.kind = "data" /\ \A m \in DOMAIN o.bundle : o.bundle[m] \in Nat
    \/ /\ o.kind = "error" /\ IsSequence(o.frames)
       /\ \A i \in DOMAIN o.frames : IsFrame(o.frames[i])

IsCell(c) ==
    /\ c = [id |-> c.id, type |-> c.type, source |-> c.source, count |-> c.count,
            outputs |-> c.outputs]
    /\ c.type \in {"code", "markdown", "raw"} /\ c.count \in Nat
    /\ IsSequence(c.source) /\ IsSequence(c.outputs)
    /\ \A i \in DOMAIN c.outputs : IsOutput(c.outputs[i])

-----------------------------------------------------------------------------
(* Outputs to fragments: the contents of their lines, and those among these *)
(* that lead somewhere: to a source line of a cell, to a file, or, from the *)
(* placeholder of an image, to the image.                                   *)

Fragment(lines, clicks) == [lines |-> lines, clicks |-> clicks]

(* Neighbouring streams of one name become one.                             *)
Merge(merged, out) ==
    IF /\ merged # <<>> /\ out.kind = "stream"
       /\ Last(merged).kind = "stream" /\ Last(merged).name = out.name
    THEN Append(Front(merged), Stream(out.name, Last(merged).text \o out.text))
    ELSE Append(merged, out)

mergeStreams(outputs) ==
    LET merged[k \in 0 .. Len(outputs)] ==
            IF k = 0 THEN <<>> ELSE Merge(merged[k - 1], outputs[k])
    IN merged[Len(outputs)]

renderStream(text) == Fragment([k \in 1 .. Total(text) + 1 |-> <<k>> \o text], {})

renderText(n) == Fragment([k \in 1 .. n |-> <<k, n>>], {})

(* A header, then the traceback; parseTraceback finds at most one frame in  *)
(* a line.                                                                  *)
renderError(frames) ==
    Fragment(<<<<0>>>> \o [k \in DOMAIN frames |-> <<frames[k].count, frames[k].line>>],
             {[line |-> k, jump |-> frames[k]] :
                  k \in {i \in DOMAIN frames : frames[i].kind # "none"}})

(* A placeholder with the place of the output in its cell, and below it     *)
(* room for the picture.                                                    *)
renderImage(rows, place) ==
    Fragment(<<<<rows>>>> \o [k \in 1 .. (IF Sixel THEN rows ELSE 0) |-> <<k, rows>>],
             {[line |-> 0, jump |-> [kind |-> "image", place |-> place, rows |-> rows]]})

(* The first MIME type of MimePriority that the bundle has, "" for none.    *)
Chosen(bundle) ==
    LET i == SelectInSeq(MimePriority, LAMBDA m : m \in DOMAIN bundle)
    IN IF i = 0 THEN "" ELSE MimePriority[i]

(* An SVG shows as the PNG that was converted from it, if one was.          *)
renderMimeData(bundle, png, place) ==
    LET mime == Chosen(bundle)
    IN CASE mime \in Images -> renderImage(bundle[mime], place)
         [] mime = "image/svg+xml" /\ png # 0 -> renderImage(png, place)
         [] mime = "" -> renderText(1)
         [] OTHER -> renderText(bundle[mime])

dispatchOutput(out, png, place) ==
    CASE out.kind = "stream" -> renderStream(out.text)
      [] out.kind = "error" -> renderError(out.frames)
      [] OTHER -> renderMimeData(out.bundle, png, place)

-----------------------------------------------------------------------------
(* Cells to a plan.                                                         *)

Shift(marks, n) == {[m EXCEPT !.line = @ + n] : m \in marks}
Below(marks, n) == {m \in marks : m.line < n}

Join(a, b) == Fragment(a.lines \o b.lines, a.clicks \cup Shift(b.clicks, Len(a.lines)))

NoLines == Fragment(<<>>, {})

(* The SVGs to convert: places <<cell, output>> of the notebook.            *)
SvgsOf(merged) ==
    {j \in DOMAIN merged :
        merged[j].kind = "data" /\ Chosen(merged[j].bundle) = "image/svg+xml"}

SvgTargets(nb) ==
    UNION {{i} \X SvgsOf(mergeStreams(nb[i].outputs)) :
           i \in {i \in DOMAIN nb : nb[i].type = "code"}}

Svg(nb, place) == mergeStreams(nb[place[1]].outputs)[place[2]].bundle["image/svg+xml"]

(* All the outputs of a cell, and one line for those beyond the limit.      *)
Truncated(all) ==
    LET total == Len(all.lines)
        budget == MaxOutputLines - 1
    IN IF total <= MaxOutputLines THEN all
       ELSE Fragment(SubSeq(all.lines, 1, budget) \o <<<<total - budget>>>>,
                     Below(all.clicks, budget))

PngAt(pngs, place) == IF place \in DOMAIN pngs THEN pngs[place] ELSE 0

JoinedOutputs(merged, i, png) ==
    LET all[j \in 0 .. Len(merged)] ==
            IF j = 0 THEN NoLines
            ELSE Join(all[j - 1], dispatchOutput(merged[j], png[j], <<i, j>>))
    IN all[Len(merged)]

appendCellOutputs(outputs, i, pngs) ==
    LET merged == mergeStreams(outputs)
    IN Truncated(JoinedOutputs(merged, i, [j \in DOMAIN merged |-> PngAt(pngs, <<i, j>>)]))

Lines(cell, part, whats) == [k \in DOMAIN whats |-> Line(cell, part, k, whats[k])]

HasOutputs(c) == c.type = "code" /\ c.outputs # <<>>

(* One cell: header, source, and for a code cell with outputs a border and  *)
(* the outputs.                                                             *)
CellBlock(c, i, pngs) ==
    LET source == Lines(c.id, "source", [k \in DOMAIN c.source |-> <<c.source[k]>>])
        top == Fragment(<<Line(c.id, "head", 1, <<c.count>>)>> \o source, {})
        out == appendCellOutputs(c.outputs, i, pngs)
        mid == Fragment(<<Line(c.id, "mid", 1, <<c.count>>)>>, {})
    IN IF HasOutputs(c)
       THEN Join(Join(top, mid), [out EXCEPT !.lines = Lines(c.id, "out", @)])
       ELSE top

(* The source lines of a code or markdown cell: [start, end).               *)
SourceRange(c, block, start) ==
    LET first == start + 1
        end == IF HasOutputs(c) THEN first + Len(c.source) ELSE start + Len(block.lines)
    IN IF c.type # "raw" /\ end > first
       THEN <<[cell |-> c.id, start |-> first, end |-> end]>>
       ELSE <<>>

Guidance ==
    [text |-> Fragment(Lines(NoCell, "guide", [k \in 1 .. 8 |-> <<k>>]), {}),
     ranges |-> <<>>, sources |-> <<>>]

AddBlock(p, c, block) ==
    LET start == Len(p.text.lines)
    IN [text |-> Join(p.text, block),
        ranges |-> Append(p.ranges, [cell |-> c.id, start |-> start,
                                     end |-> start + Len(block.lines) - 1]),
        sources |-> p.sources \o SourceRange(c, block, start)]

AddCell(p, c, i, pngs) == AddBlock(p, c, CellBlock(c, i, pngs))

(* makeNotebookSelector: the source range that line `k` of the cell with    *)
(* execution count `count` is in, {} if there is none.                      *)
Actionable(nb, sources, count, k) ==
    LET i == SelectInSeq(nb, LAMBDA c : c.type = "code" /\ c.count = count)
        j == IF i = 0 THEN 0 ELSE SelectInSeq(sources, LAMBDA r : r.cell = nb[i].id)
    IN IF j = 0 \/ k < 1 THEN {}
       ELSE {r \in {sources[j]} : k <= r.end - r.start}

(* The frames that rewriteMissingHighlights shows as leading nowhere.       *)
Missing(nb, clicks, sources) ==
    {c \in clicks : c.jump.kind = "cell"
                    /\ Actionable(nb, sources, c.jump.count, c.jump.line) = {}}

PlanFrom(p, nb) ==
    [lines |-> p.text.lines, clicks |-> p.text.clicks,
     ranges |-> p.ranges, sources |-> p.sources,
     missing |-> Missing(nb, p.text.clicks, p.sources)]

(* `pngs` maps the places of converted SVGs to the rows of their pictures.  *)
buildRenderPlan(nb, pngs) ==
    LET built[i \in 0 .. Len(nb)] ==
            IF i = 0 THEN [text |-> NoLines, ranges |-> <<>>, sources |-> <<>>]
            ELSE AddCell(built[i - 1], nb[i], i, pngs)
    IN PlanFrom(IF nb = <<>> THEN Guidance ELSE built[Len(nb)], nb)

-----------------------------------------------------------------------------
(* Reading a plan.                                                          *)

(* `line` starts from 1.                                                    *)
lineToCellId(ranges, line) ==
    LET i == SelectInSeq(ranges, LAMBDA r : r.start <= line - 1 /\ line - 1 <= r.end)
    IN IF i = 0 THEN NoCell ELSE ranges[i].cell

RangeOf(ranges, cell) == SelectInSeq(ranges, LAMBDA r : r.cell = cell)

BugCursorByIndex(old, before, after, prefer) ==
    LET stays == RangeOf(before, old)
    IN IF prefer # NoCell /\ RangeOf(after, prefer) # 0
       THEN after[RangeOf(after, prefer)].start + 1
       ELSE IF stays \in DOMAIN after THEN after[stays].start + 1
       ELSE IF after # <<>> THEN Last(after).start + 1 ELSE 1

(* restoreCursor: the line, from 1, that the cursor goes to after `before`  *)
(* became `after`.                                                          *)
RestoredLine(old, before, after, prefer) ==
    LET stays == RangeOf(before, old)
    IN IF prefer # NoCell /\ RangeOf(after, prefer) # 0
       THEN after[RangeOf(after, prefer)].start + 1
       ELSE IF RangeOf(after, old) # 0 THEN after[RangeOf(after, old)].start + 1
       ELSE IF stays \in DOMAIN after THEN after[stays].start + 1
       ELSE IF after # <<>> THEN Last(after).start + 1 ELSE 1

(* What a search in a list finds; any member, as their order is left out.   *)
Search(S) == CHOOSE x \in S : TRUE

(* The frames of cells that the viewer shows on `line`, from 1.             *)
FramesOn(plan, line) ==
    {c \in plan.clicks : c.line = line - 1 /\ c.jump.kind = "cell"}

(* jumpToTraceback: the line, from 1, that it goes to from `line`; 0 if it  *)
(* stays, or leaves for a file.                                             *)
JumpTarget(nb, plan, line) ==
    LET jump == Search(FramesOn(plan, line)).jump
        found == Actionable(nb, plan.sources, jump.count, jump.line)
    IN IF FramesOn(plan, line) = {} \/ found = {} THEN 0
       ELSE Search(found).start + jump.line

(* The quickfix list of the frames that lead to cells.                      *)
populateTracebackQflist(nb, plan) ==
    UNION {{[click |-> c, lnum |-> r.start + c.jump.line] :
                r \in Actionable(nb, plan.sources, c.jump.count, c.jump.line)} :
           c \in {c \in plan.clicks : c.jump.kind = "cell"}}

BugPreviewUnmerged(nb, place) ==
    LET outputs == nb[place[1]].outputs
        bundle == outputs[place[2]].bundle
    IN IF place[1] \notin DOMAIN nb \/ place[2] \notin DOMAIN outputs
          \/ outputs[place[2]].kind # "data" THEN {}
       ELSE {bundle[m] : m \in DOMAIN bundle \cap (Images \cup {"image/svg+xml"})}

Previewed(bundle) ==
    LET Of(m) == IF m \in DOMAIN bundle THEN {bundle[m]} ELSE {}
    IN IF Of("image/svg+xml") # {} THEN Of("image/svg+xml")
       ELSE IF Of("image/png") # {} THEN Of("image/png") ELSE Of("image/jpeg")

(* previewOutput: the picture that opens for a place, {} for a refusal.     *)
previewOutput(nb, place) ==
    LET merged == mergeStreams(nb[place[1]].outputs)
    IN IF \/ place[1] \notin DOMAIN nb \/ nb[place[1]].type # "code"
          \/ place[2] \notin DOMAIN merged \/ merged[place[2]].kind # "data"
       THEN {} ELSE Previewed(merged[place[2]].bundle)

BugLinesLeft(buf, plan, from) ==
    LET i == RangeOf(plan.ranges, from)
        first == IF i = 0 THEN 0 ELSE plan.ranges[i].start
        kept == SubSeq(buf, 1, first)
    IN kept \o SubSeq(plan.lines, first + 1, Len(plan.lines))
            \o SubSeq(buf, Len(plan.lines) + 1, Len(buf))

(* applyRenderPlan: the lines from cell `from` on, or all of them, replace  *)
(* those of the buffer, and the rest of these are deleted.  setbufline does *)
(* nothing from beyond the end of the buffer.                               *)
applyRenderPlan(buf, plan, from) ==
    LET i == RangeOf(plan.ranges, from)
        first == IF i = 0 THEN 0 ELSE plan.ranges[i].start
        kept == SubSeq(buf, 1, first)
    IN IF first > Len(buf) THEN buf
       ELSE kept \o SubSeq(plan.lines, first + 1, Len(plan.lines))
=============================================================================

----------------------------- MODULE MCMirror -----------------------------
(* A cell of a line magic and a cell of text; the user types a cell magic.  *)
EXTENDS Mirror

MCBlank == <<"text", "">>
MCNotebooks ==
    {<<Cell(1, "code", <<<<"magic", "m">>>>, NoOutputs),
       Cell(2, "code", <<<<"text", "a">>>>, NoOutputs)>>}
MCNewLines == {<<"cellmagic", "x">>}
MCFrozen == <<"text", "[Cell deleted from notebook]">>
=============================================================================

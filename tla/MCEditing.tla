----------------------------- MODULE MCEditing -----------------------------
(* A file of one code cell that has run.                                    *)
EXTENDS Editing

MCFiles == {<<Cell(1, "code", <<"x">>, 1)>>}
MCSources == {<<"x", "y">>}
MCTypes == {"markdown"}

(* Saving and re-rendering compute nothing that the other overwrites.       *)
MCHarmless == {{"save"}, {"view"}, {"save", "view"}}
MCEdits == {{"edit"}}
=============================================================================

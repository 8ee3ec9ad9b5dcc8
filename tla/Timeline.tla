------------------------------ MODULE Timeline ------------------------------
(***************************************************************************)
(* What undo promises its user (contracts/undo-history.ts,                 *)
(* doc/europa-commands.txt): one line of notebooks, of which one is        *)
(* present.  An edit forgets the future, undo and redo walk along the      *)
(* line, and the oldest past is forgotten beyond MaxHistory.               *)
(***************************************************************************)
EXTENDS Naturals, Sequences, SequencesExt

CONSTANT MaxHistory

VARIABLES
    past,       \* notebooks that undo returns to, the nearest last
    present,
    future      \* notebooks that redo returns to, the nearest last

line == <<past, present, future>>

Capped(s) == IF Len(s) > MaxHistory THEN Tail(s) ELSE s

Start == past = <<>> /\ future = <<>>

Edit ==
    /\ past' = Capped(Append(past, present))
    /\ future' = <<>>

Undo ==
    /\ past # <<>>
    /\ present' = Last(past)
    /\ past' = Front(past)
    /\ future' = Append(future, present)

Redo ==
    /\ future # <<>>
    /\ present' = Last(future)
    /\ future' = Front(future)
    /\ past' = Append(past, present)

(* The file is opened again.                                                *)
Reopen == past' = <<>> /\ future' = <<>>

Walk == Start /\ [][Edit \/ Undo \/ Redo \/ Reopen]_line
=============================================================================

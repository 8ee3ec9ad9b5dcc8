--------------------------- MODULE EditingProofs ---------------------------
(***************************************************************************)
(* Editing for any notebook, number of calls and history: every queued     *)
(* undo is served, whatever overlaps; the history never outgrows its cap   *)
(* as long as no cell operation runs while an undo does; and where a cell  *)
(* operation, and an undo, run alone, undo and redo walk along one line of *)
(* notebooks, the viewer follows, an unmodified buffer is on disk, and     *)
(* outputs stay with their cells.                                          *)
(***************************************************************************)
EXTENDS Editing, TLAPS, SequenceTheorems, WellFoundedInduction

(* A sequence of whatever values: what Len, Append and Front need to know.  *)
IsSeq(s) == \E S : s \in Seq(S)

LEMMA AppendLength ==
    ASSUME NEW s, NEW e, IsSeq(s)
    PROVE  IsSeq(Append(s, e)) /\ Len(Append(s, e)) = Len(s) + 1 /\ Len(s) \in Nat
<1>1. PICK S : s \in Seq(S)
  BY DEF IsSeq
<1>2. s \in Seq(S \cup {e}) /\ e \in S \cup {e}
  BY <1>1
<1>3. Append(s, e) \in Seq(S \cup {e}) /\ Len(Append(s, e)) = Len(s) + 1 /\ Len(s) \in Nat
  BY <1>2
<1> QED BY <1>3 DEF IsSeq

LEMMA PrefixLength ==
    ASSUME NEW S, NEW s \in Seq(S), NEW n \in Nat, n <= Len(s)
    PROVE  SubSeq(s, 1, n) \in Seq(S) /\ Len(SubSeq(s, 1, n)) = n
<1>1. Len(s) \in Nat
  BY LenProperties
<1>2. \A i \in 1 .. n : s[i] \in S
  BY <1>1, ElementOfSeq
<1>3. /\ SubSeq(s, 1, n) \in Seq(S)
      /\ Len(SubSeq(s, 1, n)) = IF 1 <= n THEN n - 1 + 1 ELSE 0
  BY <1>2, SubSeqProperties
<1>4. Len(SubSeq(s, 1, n)) = n
  BY <1>3
<1> QED BY <1>3, <1>4, Zenon

LEMMA ShorterLength ==
    ASSUME NEW s, IsSeq(s), s # <<>>
    PROVE  /\ IsSeq(Front(s)) /\ Len(Front(s)) = Len(s) - 1
           /\ IsSeq(Tail(s)) /\ Len(Tail(s)) = Len(s) - 1
           /\ Len(s) \in Nat \ {0}
<1>1. PICK S : s \in Seq(S)
  BY DEF IsSeq
<1>2. Len(s) \in Nat \ {0} /\ Len(s) - 1 \in Int /\ 1 \in Int
  BY <1>1, EmptySeq
<1>3. Front(s) \in Seq(S) /\ Len(Front(s)) = Len(s) - 1
  <2>1. Len(s) - 1 \in Nat /\ Len(s) - 1 <= Len(s)
    BY <1>2
  <2> QED BY <1>1, <2>1, PrefixLength, Zenon DEF Front
<1>4. Tail(s) \in Seq(S) /\ Len(Tail(s)) = Len(s) - 1
  BY <1>1, <1>2
<1> QED BY <1>2, <1>3, <1>4 DEF IsSeq

LEMMA EmptyLength == IsSeq(<<>>) /\ Len(<<>>) = 0
<1>1. <<>> \in Seq({}) /\ Len(<<>>) = 0
  OBVIOUS
<1> QED BY <1>1 DEF IsSeq

LEMMA CappedLength ==
    ASSUME NEW s, NEW e, IsSeq(s), Len(s) <= MaxHistory
    PROVE  IsSeq(Capped(Append(s, e))) /\ Len(Capped(Append(s, e))) \in 0 .. MaxHistory
<1> DEFINE t == Append(s, e)
<1>1. IsSeq(t) /\ Len(t) = Len(s) + 1 /\ Len(s) \in Nat
  BY AppendLength
<1>2. t # <<>>
  BY <1>1, EmptyLength
<1>3. IsSeq(Tail(t)) /\ Len(Tail(t)) = Len(t) - 1
  BY <1>1, <1>2, ShorterLength
<1> HIDE DEF t
<1>4. MaxHistory \in Nat
  BY EditingAssumption
<1>5. CASE Len(t) > MaxHistory
  <2>1. Capped(t) = Tail(t)
    BY <1>5 DEF Capped
  <2> QED BY <1>1, <1>3, <1>4, <2>1 DEF t
<1>6. CASE ~(Len(t) > MaxHistory)
  <2>1. Capped(t) = t
    BY <1>6 DEF Capped
  <2> QED BY <1>1, <1>4, <1>6, <2>1 DEF t
<1> QED BY <1>5, <1>6

-----------------------------------------------------------------------------
(* Calls and requests are records of their kind, and only cell operations   *)
(* push and commit.                                                         *)
Shape ==
    /\ DOMAIN req = DOMAIN IdleReq
    /\ DOMAIN calls = Calls
    /\ \A k \in Calls : /\ DOMAIN calls[k] = DOMAIN IdleCall
                        /\ calls[k].kind \in Kinds \ {"undo"}
                        /\ calls[k].pc \in {"push", "commit"} => calls[k].kind = "edit"

(* No cell operation is under way while an undo is.                         *)
Apart ==
    inFlight => \A k \in Busy : calls[k].kind # "edit"

(* The entry that an undo has popped still counts.                          *)
Popping == IF req.pc = "render" THEN 1 ELSE 0

Kept ==
    /\ IsSeq(undo) /\ IsSeq(redo)
    /\ Len(undo) + Len(redo) + Popping <= MaxHistory

Served == Shape /\ QueueServed
IInv == Served /\ Apart /\ Kept

LEMMA InitShape == Init => Served /\ Apart
BY DEF Init, Served, Shape, QueueServed, Apart, Busy, IdleReq, IdleCall, Kinds

LEMMA FinishStep ==
    ASSUME Served, Finish, req.pc # "off"
    PROVE  /\ QueueServed' /\ DOMAIN req' = DOMAIN IdleReq
           /\ req.pc # "off" /\ req'.pc \in {"off", "start"} /\ inFlight
<1>1. inFlight
  BY DEF Served, QueueServed
<1>2. CASE queue = <<>>
  BY <1>1, <1>2 DEF Finish, QueueServed, IdleReq
<1>3. CASE queue # <<>>
  BY <1>1, <1>3 DEF Finish, QueueServed, IdleReq
<1> QED BY <1>1, <1>2, <1>3


-----------------------------------------------------------------------------
(* What the calls do to their own records.                                  *)
BeginsAny(k) ==
    /\ calls[k].pc = "off" /\ MayRun("edit")
    /\ UNCHANGED requests
    /\ calls' = [calls EXCEPT ![k] = calls'[k]]
    /\ DOMAIN calls'[k] = DOMAIN IdleCall
    /\ calls'[k].kind = "edit"
    /\ UNCHANGED redo \/ redo' = <<>>
    /\ UNCHANGED undo \/ undo' = Capped(Append(undo, takeStructuralSnapshot(nb)))
    /\ UNCHANGED history \/ redo' = <<>>

LEMMA BeginsRecord ==
    ASSUME Served, NEW k \in Calls, EditBegins(k)
    PROVE  BeginsAny(k)
<1>1. DOMAIN calls = Calls
  BY DEF Served, Shape
<1>2. ASSUME NEW ids, NEW new, PushesLater(k, ids, new) PROVE BeginsAny(k)
  BY <1>1, <1>2 DEF PushesLater, Begins, BeginsAny, IdleCall, history
<1>3. ASSUME NEW new, PushesNow(k, new) PROVE BeginsAny(k)
  BY <1>1, <1>3 DEF PushesNow, Begins, BeginsAny, IdleCall, history, Push
<1> QED
  BY <1>2, <1>3 DEF EditBegins, InsertCell, DeleteCell, MoveCell, SplitCell, JoinCell,
                    ChangeCellType, SaveCellEdit

LEMMA BeginsServed ==
    ASSUME Served, NEW k \in Calls, EditBegins(k)
    PROVE  Served'
<1>1. BeginsAny(k)
  BY BeginsRecord
<1>2. QueueServed' /\ DOMAIN req' = DOMAIN IdleReq
  BY <1>1 DEF BeginsAny, Served, Shape, QueueServed, requests
<1>3. Shape'
  BY <1>1, <1>2 DEF BeginsAny, Served, Shape, Kinds
<1> QED BY <1>2, <1>3 DEF Served

LEMMA OtherServed ==
    ASSUME Served, NEW k \in Calls, SaveBegins(k) \/ ViewBegins(k)
    PROVE  Served'
<1>1. PICK kind \in {"save", "view"}, pc \in {"write", "render"} : Other(k, kind, pc)
  BY DEF SaveBegins, ViewBegins
<1>2. QueueServed' /\ DOMAIN req' = DOMAIN IdleReq
  BY <1>1 DEF Other, Served, Shape, QueueServed, requests
<1>3. Shape'
  BY <1>1, <1>2 DEF Other, Served, Shape, Kinds, IdleCall
<1> QED BY <1>2, <1>3 DEF Served

(* A step of a call moves on, never back to the push, or ends.              *)
LEMMA CallServed ==
    ASSUME Served, NEW k \in Calls, CallStep(k)
    PROVE  /\ Served' /\ UNCHANGED requests /\ Busy' \subseteq Busy
           /\ \A j \in Calls : calls'[j].kind \in {calls[j].kind, "edit"}
           /\ \A j \in Busy' : calls'[j].kind = calls[j].kind
<1>1. UNCHANGED requests
  BY DEF CallStep, EditPushes, EditThrows, EditCommits, EditRenders, EditHalfDrawn,
         SaveFails, SaveWrites, SaveClears, SaveRecords, ViewRenders, ViewFails
<1>2. calls[k].pc # "off"
  BY DEF CallStep, EditPushes, EditThrows, EditCommits, EditRenders, EditHalfDrawn,
         SaveFails, SaveWrites, SaveClears, SaveRecords, ViewRenders, ViewFails
<1>3. \/ calls' = [calls EXCEPT ![k] = IdleCall]
      \/ /\ calls[k].pc = "push"
         /\ calls' = [calls EXCEPT ![k].pc = "commit", ![k].was = history]
      \/ \E pc \in {"render", "clear", "record"} : calls' = [calls EXCEPT ![k].pc = pc]
  BY DEF CallStep, EditPushes, EditThrows, EditCommits, EditRenders, EditHalfDrawn, Ends,
         SaveFails, SaveWrites, SaveClears, SaveRecords, ViewRenders, ViewFails
<1>4. /\ Shape' /\ Busy' \subseteq Busy
      /\ \A j \in Calls : calls'[j].kind \in {calls[j].kind, "edit"}
      /\ \A j \in Busy' : calls'[j].kind = calls[j].kind
  <2>1. CASE calls' = [calls EXCEPT ![k] = IdleCall]
    BY <1>1, <2>1 DEF Served, Shape, Busy, IdleCall, Kinds, requests
  <2>2. CASE /\ calls[k].pc = "push"
             /\ calls' = [calls EXCEPT ![k].pc = "commit", ![k].was = history]
    BY <1>1, <1>2, <2>2 DEF Served, Shape, Busy, IdleCall, requests
  <2>3. ASSUME NEW pc \in {"render", "clear", "record"},
               calls' = [calls EXCEPT ![k].pc = pc]
        PROVE  /\ Shape' /\ Busy' \subseteq Busy
               /\ \A j \in Calls : calls'[j].kind \in {calls[j].kind, "edit"}
               /\ \A j \in Busy' : calls'[j].kind = calls[j].kind
    BY <1>1, <1>2, <2>3 DEF Served, Shape, Busy, IdleCall, requests
  <2> QED BY <1>3, <2>1, <2>2, <2>3
<1>5. QueueServed'
  BY <1>1 DEF Served, QueueServed, requests
<1> QED BY <1>1, <1>4, <1>5 DEF Served

LEMMA UndoServed ==
    ASSUME Served, UndoStep
    PROVE  Served' /\ UNCHANGED calls /\ inFlight
<1>1. UNCHANGED calls /\ req.pc # "off"
  BY DEF UndoStep, UndoStarts, UndoRefused, NothingToUndo, UndoPops, UndoRenders,
         UndoThrows, UndoRedraws, UndoBroken
<1>2. CASE Finish
  BY <1>1, <1>2, FinishStep DEF Served, Shape
<1>3. CASE UndoStarts \/ UndoPops \/ UndoThrows
  <2>1. /\ UNCHANGED <<queue, inFlight>> /\ req'.pc # "off"
        /\ DOMAIN req' = DOMAIN IdleReq
    BY <1>3 DEF UndoStarts, UndoPops, UndoThrows, Served, Shape, IdleReq
  <2> QED BY <1>1, <2>1 DEF Served, Shape, QueueServed
<1> QED
  BY <1>1, <1>2, <1>3 DEF UndoStep, UndoRefused, NothingToUndo, UndoRenders,
                          UndoRedraws, UndoBroken, Served, QueueServed

LEMMA EnqueueServed ==
    ASSUME Served, NEW dir, Enqueue(dir)
    PROVE  /\ Served' /\ UNCHANGED <<calls, history>>
           /\ req'.pc = req.pc \/ req'.pc = "start"
<1>1. UNCHANGED <<calls, history>>
  BY DEF Enqueue
<1>2. CASE UNCHANGED requests
  BY <1>1, <1>2 DEF Served, Shape, QueueServed, requests
<1>3. CASE inFlight /\ UNCHANGED <<inFlight, req>>
  BY <1>1, <1>3 DEF Served, Shape, QueueServed
<1>4. CASE /\ ~inFlight /\ inFlight' = TRUE /\ UNCHANGED queue
           /\ req' = [IdleReq EXCEPT !.pc = "start", !.dir = dir]
  BY <1>1, <1>4 DEF Served, Shape, QueueServed, IdleReq
<1> QED BY <1>1, <1>2, <1>3, <1>4 DEF Enqueue, requests

LEMMA ServedStep == Served /\ [Next]_vars => Served'
<1> SUFFICES ASSUME Served, [Next]_vars PROVE Served'
  OBVIOUS
<1>1. CASE UNCHANGED vars
  BY <1>1 DEF Served, Shape, QueueServed, vars, requests
<1>2. ASSUME NEW k \in Calls, EditBegins(k) PROVE Served'
  BY <1>2, BeginsServed
<1>3. ASSUME NEW k \in Calls, SaveBegins(k) \/ ViewBegins(k) PROVE Served'
  BY <1>3, OtherServed
<1>4. ASSUME NEW k \in Calls, CallStep(k) PROVE Served'
  BY <1>4, CallServed
<1>5. ASSUME NEW dir \in {"undo", "redo"}, Enqueue(dir) PROVE Served'
  BY <1>5, EnqueueServed
<1>6. CASE UndoStep
  BY <1>6, UndoServed
<1>7. CASE Reopen
  BY <1>7 DEF Reopen, Served, Shape, QueueServed, requests
<1> QED BY <1>1, <1>2, <1>3, <1>4, <1>5, <1>6, <1>7 DEF Next

(* Whatever overlaps and however a request ends, no undo or redo waits in   *)
(* the queue of session/undo-history.ts without another being processed.    *)
THEOREM EveryUndoIsServed == Spec => []QueueServed
<1>1. Served => QueueServed
  BY DEF Served
<1> QED BY <1>1, InitShape, ServedStep, PTL DEF Spec

-----------------------------------------------------------------------------
LEMMA ApartStep ==
    ASSUME Served, Apart, {"edit", "undo"} \notin Overlap, [Next]_vars
    PROVE  Apart'
<1>1. CASE UNCHANGED vars
  BY <1>1 DEF Apart, Busy, vars, requests
<1>2. ASSUME NEW k \in Calls, EditBegins(k) PROVE Apart'
  <2>1. BeginsAny(k)
    BY <1>2, BeginsRecord
  <2>2. ~inFlight
    BY <2>1 DEF BeginsAny, MayRun
  <2> QED BY <2>1, <2>2 DEF BeginsAny, requests, Apart
<1>3. ASSUME NEW k \in Calls, SaveBegins(k) \/ ViewBegins(k) PROVE Apart'
  <2>1. PICK kind \in {"save", "view"}, pc \in {"write", "render"} : Other(k, kind, pc)
    BY <1>3 DEF SaveBegins, ViewBegins
  <2> QED BY <2>1 DEF Other, Apart, Busy, requests, Served, Shape, IdleCall
<1>4. ASSUME NEW k \in Calls, CallStep(k) PROVE Apart'
  BY <1>4, CallServed DEF Apart, requests
<1>5. ASSUME NEW dir \in {"undo", "redo"}, Enqueue(dir) PROVE Apart'
  <2>1. MayRun("undo") /\ UNCHANGED calls
    BY <1>5 DEF Enqueue
  <2>2. \A k \in Busy : calls[k].kind # "edit"
    <3> SUFFICES ASSUME NEW k \in Busy, calls[k].kind = "edit" PROVE FALSE
      OBVIOUS
    <3>1. {"undo", "edit"} \in Overlap
      BY <2>1 DEF MayRun
    <3>2. {"undo", "edit"} = {"edit", "undo"}
      OBVIOUS
    <3> QED BY <3>1, <3>2
  <2> QED BY <2>1, <2>2 DEF Apart, Busy
<1>6. CASE UndoStep
  BY <1>6, UndoServed DEF Apart, Busy
<1>7. CASE Reopen
  BY <1>7 DEF Reopen, Quiet, Apart, Busy, requests
<1> QED BY <1>1, <1>2, <1>3, <1>4, <1>5, <1>6, <1>7 DEF Next

LEMMA PushKept ==
    ASSUME Kept, req.pc # "render", redo' = <<>>, NEW e,
           undo' = Capped(Append(undo, e)), req'.pc # "render"
    PROVE  Kept'
<1>1. Len(undo) <= MaxHistory
  <2>1. Len(undo) \in Nat /\ Len(redo) \in Nat /\ MaxHistory \in Nat
    BY AppendLength, EditingAssumption DEF Kept
  <2> QED BY <2>1 DEF Kept, Popping
<1>2. IsSeq(undo') /\ Len(undo') \in 0 .. MaxHistory
  BY <1>1, CappedLength DEF Kept
<1>3. IsSeq(redo') /\ Len(redo') = 0
  BY EmptyLength
<1>4. MaxHistory \in Nat
  BY EditingAssumption
<1> QED BY <1>2, <1>3, <1>4 DEF Kept, Popping

LEMMA SameKept ==
    ASSUME Kept, UNCHANGED history, req'.pc = req.pc \/ req'.pc # "render"
    PROVE  Kept'
<1>1. Len(undo) \in Nat /\ Len(redo) \in Nat /\ MaxHistory \in Nat
  BY AppendLength, EditingAssumption DEF Kept
<1> QED BY <1>1 DEF Kept, Popping, history

LEMMA UndoKept ==
    ASSUME Served, Kept, UndoStep
    PROVE  Kept'
<1>1. Len(undo) \in Nat /\ Len(redo) \in Nat /\ MaxHistory \in Nat
      /\ IsSeq(undo) /\ IsSeq(redo)
  BY AppendLength, EditingAssumption DEF Kept
<1>2. CASE UndoPops
  <2>1. /\ req.pc # "render" /\ req'.pc = "render"
        /\ Stack # <<>>
        /\ \/ Stack = undo /\ undo' = Front(undo) /\ redo' = redo
           \/ Stack = redo /\ redo' = Front(redo) /\ undo' = undo
    BY <1>2 DEF UndoPops, Stack, Served, Shape, IdleReq
  <2>2. Len(undo) + Len(redo) <= MaxHistory
    BY <1>1, <2>1 DEF Kept, Popping
  <2>3. CASE Stack = undo /\ undo' = Front(undo) /\ redo' = redo
    <3>1. IsSeq(undo') /\ Len(undo') = Len(undo) - 1
      BY <1>1, <2>1, <2>3, ShorterLength
    <3> QED BY <1>1, <2>1, <2>2, <2>3, <3>1 DEF Kept, Popping
  <2>4. CASE Stack = redo /\ redo' = Front(redo) /\ undo' = undo
    <3>1. IsSeq(redo') /\ Len(redo') = Len(redo) - 1
      BY <1>1, <2>1, <2>4, ShorterLength
    <3> QED BY <1>1, <2>1, <2>2, <2>4, <3>1 DEF Kept, Popping
  <2> QED BY <2>1, <2>3, <2>4
<1>3. CASE UndoRenders \/ UndoThrows
  <2> DEFINE Answers(e) ==
        \/ undo' = Append(undo, e) /\ redo' = redo
        \/ redo' = Append(redo, e) /\ undo' = undo
  <2>1. req.pc = "render" /\ req'.pc # "render"
    <3>1. CASE UndoRenders
      BY <3>1, FinishStep DEF UndoRenders
    <3>2. CASE UndoThrows
      BY <3>2 DEF UndoThrows, Served, Shape, IdleReq
    <3> QED BY <1>3, <3>1, <3>2
  <2>2. PICK e : Answers(e)
    <3>1. CASE UndoRenders
      <4>1. Opposite(takeStructuralSnapshot(req.base))
        BY <3>1 DEF UndoRenders
      <4>2. Answers(takeStructuralSnapshot(req.base))
        BY <4>1 DEF Opposite
      <4> QED BY <4>2
    <3>2. CASE UndoThrows
      <4>1. Answers(req.entry)
        BY <3>2 DEF UndoThrows
      <4> QED BY <4>1
    <3> QED BY <1>3, <3>1, <3>2
  <2>3. Len(undo) + Len(redo) + 1 <= MaxHistory
    BY <1>1, <2>1 DEF Kept, Popping
  <2>4. CASE undo' = Append(undo, e) /\ redo' = redo
    <3>1. IsSeq(undo') /\ Len(undo') = Len(undo) + 1
      BY <1>1, <2>4, AppendLength
    <3> QED BY <1>1, <2>1, <2>3, <2>4, <3>1 DEF Kept, Popping
  <2>5. CASE redo' = Append(redo, e) /\ undo' = undo
    <3>1. IsSeq(redo') /\ Len(redo') = Len(redo) + 1
      BY <1>1, <2>5, AppendLength
    <3> QED BY <1>1, <2>1, <2>3, <2>5, <3>1 DEF Kept, Popping
  <2> QED BY <2>2, <2>4, <2>5
<1>4. CASE UndoStarts
  BY <1>4, SameKept DEF UndoStarts, Served, Shape, IdleReq
<1>5. CASE UndoRefused \/ NothingToUndo \/ UndoRedraws \/ UndoBroken
  <2>1. req.pc # "off" /\ UNCHANGED history /\ Finish
    BY <1>5 DEF UndoRefused, NothingToUndo, UndoRedraws, UndoBroken
  <2> QED BY <2>1, FinishStep, SameKept
<1> QED BY <1>2, <1>3, <1>4, <1>5 DEF UndoStep

LEMMA KeptStep ==
    ASSUME Served, Apart, Kept, {"edit", "undo"} \notin Overlap, [Next]_vars
    PROVE  Kept'
<1>1. CASE UNCHANGED vars
  BY <1>1, SameKept DEF vars, requests, history
<1>2. ASSUME NEW k \in Calls, EditBegins(k) PROVE Kept'
  <2>1. BeginsAny(k)
    BY <1>2, BeginsRecord
  <2>2. ~inFlight /\ req.pc = "off" /\ req'.pc = "off"
    BY <2>1 DEF BeginsAny, MayRun, requests, Served, QueueServed
  <2>3. CASE UNCHANGED history
    BY <2>2, <2>3, SameKept
  <2>4. CASE ~UNCHANGED history
    <3>1. redo' = <<>>
      BY <2>1, <2>4 DEF BeginsAny
    <3>2. CASE undo' = Capped(Append(undo, takeStructuralSnapshot(nb)))
      BY <2>2, <3>1, <3>2, PushKept
    <3>3. CASE UNCHANGED undo
      <4>1. IsSeq(redo') /\ Len(redo') = 0
        BY <3>1, EmptyLength
      <4>2. Len(undo) \in Nat /\ Len(redo) \in Nat /\ MaxHistory \in Nat
        BY AppendLength, EditingAssumption DEF Kept
      <4> QED BY <2>2, <3>3, <4>1, <4>2 DEF Kept, Popping
    <3> QED BY <2>1, <3>2, <3>3 DEF BeginsAny
  <2> QED BY <2>3, <2>4
<1>3. ASSUME NEW k \in Calls, SaveBegins(k) \/ ViewBegins(k) PROVE Kept'
  <2>1. UNCHANGED <<history, requests>>
    BY <1>3 DEF SaveBegins, ViewBegins, Other
  <2> QED BY <2>1, SameKept DEF requests
<1>4. ASSUME NEW k \in Calls, CallStep(k) PROVE Kept'
  <2>1. UNCHANGED requests
    BY <1>4, CallServed
  <2>2. CASE EditPushes(k)
    <3>1. calls[k].kind = "edit" /\ k \in Busy
      BY <2>2 DEF EditPushes, Served, Shape, Busy
    <3>2. req.pc = "off"
      BY <3>1 DEF Apart, Served, QueueServed
    <3> QED BY <2>1, <2>2, <3>2, PushKept DEF EditPushes, Push, requests
  <2>3. CASE UNCHANGED history
    BY <2>1, <2>3, SameKept DEF requests
  <2> QED
    BY <1>4, <2>2, <2>3 DEF CallStep, EditThrows, EditCommits, EditRenders, EditHalfDrawn,
       SaveFails, SaveWrites, SaveClears, SaveRecords, ViewRenders, ViewFails
<1>5. ASSUME NEW dir \in {"undo", "redo"}, Enqueue(dir) PROVE Kept'
  BY <1>5, EnqueueServed, SameKept
<1>6. CASE UndoStep
  BY <1>6, UndoKept
<1>7. CASE Reopen
  <2>1. IsSeq(undo') /\ IsSeq(redo') /\ Len(undo') = 0 /\ Len(redo') = 0
    BY <1>7, EmptyLength DEF Reopen
  <2>2. req'.pc = "off" /\ MaxHistory \in Nat
    BY <1>7, EditingAssumption DEF Reopen, Quiet, requests, Served, QueueServed
  <2> QED BY <2>1, <2>2 DEF Kept, Popping
<1> QED BY <1>1, <1>2, <1>3, <1>4, <1>5, <1>6, <1>7 DEF Next

LEMMA InitKept == Init => Kept
<1> SUFFICES ASSUME Init PROVE Kept
  OBVIOUS
<1>1. undo = <<>> /\ redo = <<>> /\ req.pc = "off"
  BY DEF Init, IdleReq
<1>2. MaxHistory \in Nat
  BY EditingAssumption
<1> QED BY <1>1, <1>2, EmptyLength DEF Kept, Popping

LEMMA KeptCap == Kept => CapKept
<1> SUFFICES ASSUME Kept PROVE CapKept
  OBVIOUS
<1>1. Len(undo) \in Nat /\ Len(redo) \in Nat /\ MaxHistory \in Nat
  BY AppendLength, EditingAssumption DEF Kept
<1> QED BY <1>1 DEF Kept, CapKept, Popping

(* Undo and redo together never hold more than MaxHistory entries, although *)
(* pushUndoFront and pushRedoFront have no cap of their own: it is enough   *)
(* that no cell operation runs while an undo does.                          *)
THEOREM HistoryIsCapped ==
    ASSUME {"edit", "undo"} \notin Overlap
    PROVE  Spec => []CapKept
<1>1. Init => IInv
  BY InitShape, InitKept DEF IInv
<1>2. IInv /\ [Next]_vars => IInv'
  BY ServedStep, ApartStep, KeptStep DEF IInv
<1>3. IInv => CapKept
  BY KeptCap DEF IInv
<1> QED BY <1>1, <1>2, <1>3, PTL DEF Spec

-----------------------------------------------------------------------------
(* Snapshots, and the stacks they are kept on.                              *)

IsSnapshot(s) == s = takeStructuralSnapshot(s)
IsHistory(h) == IsSeq(h) /\ \A i \in 1 .. Len(h) : IsSnapshot(h[i])

LEMMA SnapshotIs ==
    ASSUME NEW s
    PROVE  IsSnapshot(takeStructuralSnapshot(s))
BY DEF IsSnapshot, takeStructuralSnapshot, SnapshotCell

(* restoreStructural gives the notebook the structure of the snapshot.      *)
LEMMA RestoredIs ==
    ASSUME NEW base, NEW s, IsSnapshot(s)
    PROVE  takeStructuralSnapshot(restoreStructural(base, s)) = s
<1>1. PICK outputs : restoreStructural(base, s) =
          [i \in DOMAIN s |-> Cell(s[i].id, s[i].cell_type, s[i].source, outputs[i])]
  <2> DEFINE Out(c) == LET i == Index(base, c.id)
                       IN IF i # 0 /\ c.cell_type = "code" THEN base[i].outputs ELSE NoOutputs
  <2>1. PICK outputs : outputs = [i \in DOMAIN s |-> Out(s[i])]
    OBVIOUS
  <2>2. restoreStructural(base, s) =
          [i \in DOMAIN s |-> Cell(s[i].id, s[i].cell_type, s[i].source, Out(s[i]))]
    BY DEF restoreStructural
  <2>3. \A i \in DOMAIN s : outputs[i] = Out(s[i])
    BY <2>1
  <2> HIDE DEF Out
  <2> QED BY <2>2, <2>3
<1>2. takeStructuralSnapshot(restoreStructural(base, s)) = [i \in DOMAIN s |-> SnapshotCell(s[i])]
  BY <1>1 DEF takeStructuralSnapshot, SnapshotCell, Cell
<1> QED BY <1>2 DEF IsSnapshot, takeStructuralSnapshot

LEMMA Elements ==
    ASSUME NEW s, NEW e, IsSeq(s)
    PROVE  /\ \A i \in 1 .. Len(s) : Append(s, e)[i] = s[i]
           /\ Append(s, e)[Len(s) + 1] = e
<1>1. PICK S : s \in Seq(S)
  BY DEF IsSeq
<1>2. s \in Seq(S \cup {e}) /\ e \in S \cup {e}
  BY <1>1
<1> QED BY <1>2, AppendProperties

LEMMA Shortened ==
    ASSUME NEW s, IsSeq(s), s # <<>>
    PROVE  /\ \A i \in 1 .. Len(s) - 1 : Front(s)[i] = s[i] /\ Tail(s)[i] = s[i + 1]
           /\ Last(s) = s[Len(s)]
<1>1. PICK S : s \in Seq(S)
  BY DEF IsSeq
<1>2. Len(s) \in Nat \ {0}
  BY <1>1, EmptySeq
<1>3. \A i \in 1 .. Len(s) - 1 : Tail(s)[i] = s[i + 1]
  BY <1>1, HeadTailProperties
<1>4. \A i \in 1 .. Len(s) - 1 : Front(s)[i] = s[i]
  <2>1. \A i \in 1 .. Len(s) - 1 : s[i] \in S
    BY <1>1, <1>2, ElementOfSeq
  <2>2. Len(s) - 1 \in Nat
    BY <1>2
  <2>3. \A i \in 1 .. Len(s) - 1 : SubSeq(s, 1, Len(s) - 1)[i] = s[1 + i - 1]
    BY <1>1, <1>2, <2>1, SubSeqProperties
  <2> QED BY <1>2, <2>3 DEF Front
<1> QED BY <1>3, <1>4 DEF Last

(* Two sequences that are equal element by element.                         *)
LEMMA SameElements ==
    ASSUME NEW s, NEW t, IsSeq(s), IsSeq(t), Len(s) = Len(t),
           \A i \in 1 .. Len(s) : s[i] = t[i]
    PROVE  s = t
<1>1. PICK S, T : s \in Seq(S) /\ t \in Seq(T)
  BY DEF IsSeq
<1>2. s \in Seq(S \cup T) /\ t \in Seq(S \cup T)
  BY <1>1
<1> QED BY <1>2, SeqEqual

LEMMA PushedAndPopped ==
    ASSUME NEW s, NEW e, IsSeq(s)
    PROVE  Front(Append(s, e)) = s /\ Last(Append(s, e)) = e /\ Append(s, e) # <<>>
<1>1. PICK t : t = Append(s, e)
  OBVIOUS
<1>2. /\ IsSeq(t) /\ Len(t) = Len(s) + 1 /\ Len(s) \in Nat /\ t[Len(s) + 1] = e
      /\ \A i \in 1 .. Len(s) : t[i] = s[i]
  BY <1>1, AppendLength, Elements
<1>3. t # <<>>
  BY <1>2, EmptyLength
<1>4. /\ IsSeq(Front(t)) /\ Len(Front(t)) = Len(t) - 1 /\ Last(t) = t[Len(t)]
      /\ \A i \in 1 .. Len(t) - 1 : Front(t)[i] = t[i]
  BY <1>2, <1>3, ShorterLength, Shortened
<1>5. Len(Front(t)) = Len(s) /\ Len(t) - 1 = Len(s)
  BY <1>2, <1>4
<1>6. Front(t) = s
  BY <1>2, <1>4, <1>5, SameElements
<1> QED BY <1>1, <1>2, <1>3, <1>4, <1>6

LEMMA PoppedAndPushed ==
    ASSUME NEW s, IsSeq(s), s # <<>>
    PROVE  Append(Front(s), Last(s)) = s
<1>1. PICK f, e, t : f = Front(s) /\ e = Last(s) /\ t = Append(f, e)
  OBVIOUS
<1>2. /\ IsSeq(f) /\ Len(f) = Len(s) - 1 /\ Len(s) \in Nat \ {0} /\ e = s[Len(s)]
      /\ \A i \in 1 .. Len(s) - 1 : f[i] = s[i]
  BY <1>1, ShorterLength, Shortened
<1>3. /\ IsSeq(t) /\ Len(t) = Len(f) + 1 /\ t[Len(f) + 1] = e
      /\ \A i \in 1 .. Len(f) : t[i] = f[i]
  BY <1>1, <1>2, AppendLength, Elements
<1>4. Len(t) = Len(s)
  BY <1>2, <1>3
<1>5. \A i \in 1 .. Len(t) : t[i] = s[i]
  <2>1. t[Len(s)] = s[Len(s)]
    BY <1>2, <1>3
  <2>2. \A i \in 1 .. Len(s) - 1 : t[i] = s[i]
    BY <1>2, <1>3
  <2>3. \A i \in 1 .. Len(t) : i \in 1 .. Len(s) - 1 \/ i = Len(s)
    BY <1>2, <1>4
  <2> QED BY <2>1, <2>2, <2>3
<1> QED BY <1>1, <1>2, <1>3, <1>4, <1>5, SameElements

(* The cap never drops the entry that is pushed.                            *)
LEMMA CappedLast ==
    ASSUME NEW s, NEW e, IsSeq(s)
    PROVE  Last(Capped(Append(s, e))) = e
<1>1. PICK t : t = Append(s, e)
  OBVIOUS
<1>2. IsSeq(t) /\ Len(t) = Len(s) + 1 /\ Len(s) \in Nat /\ t # <<>> /\ Last(t) = e
  BY <1>1, AppendLength, PushedAndPopped
<1>3. t[Len(t)] = e
  BY <1>2, Shortened
<1>4. MaxHistory \in Nat \ {0}
  BY EditingAssumption
<1>5. CASE Len(t) > MaxHistory
  <2>1. Capped(t) = Tail(t)
    BY <1>5 DEF Capped
  <2>2. IsSeq(Tail(t)) /\ Len(Tail(t)) = Len(t) - 1
    BY <1>2, ShorterLength
  <2>3. Len(t) - 1 \in 1 .. Len(t) - 1 /\ (Len(t) - 1) + 1 = Len(t)
    BY <1>2, <1>4, <1>5
  <2>4. Tail(t)[Len(t) - 1] = t[(Len(t) - 1) + 1]
    BY <1>2, <2>3, Shortened
  <2>5. Tail(t)[Len(Tail(t))] = e
    BY <1>3, <2>2, <2>3, <2>4
  <2> QED BY <1>1, <2>1, <2>5 DEF Last
<1>6. CASE ~(Len(t) > MaxHistory)
  BY <1>1, <1>2, <1>6 DEF Capped
<1> QED BY <1>5, <1>6

LEMMA HistoryGrows ==
    ASSUME NEW h, NEW e, IsHistory(h), IsSnapshot(e)
    PROVE  IsHistory(Append(h, e)) /\ IsHistory(Capped(Append(h, e)))
<1>1. PICK t : t = Append(h, e)
  OBVIOUS
<1>2. /\ IsSeq(t) /\ Len(t) = Len(h) + 1 /\ Len(h) \in Nat /\ t[Len(h) + 1] = e
      /\ \A i \in 1 .. Len(h) : t[i] = h[i]
  BY <1>1, AppendLength, Elements DEF IsHistory
<1>3. \A i \in 1 .. Len(t) : i \in 1 .. Len(h) \/ i = Len(h) + 1
  BY <1>2
<1>4. IsHistory(t)
  BY <1>2, <1>3 DEF IsHistory
<1>5. t # <<>>
  BY <1>2, EmptyLength
<1>6. IsHistory(Tail(t))
  <2>1. /\ IsSeq(Tail(t)) /\ Len(Tail(t)) = Len(t) - 1 /\ Len(t) \in Nat
        /\ \A i \in 1 .. Len(t) - 1 : Tail(t)[i] = t[i + 1]
    BY <1>2, <1>5, ShorterLength, Shortened
  <2>2. \A i \in 1 .. Len(t) - 1 : i + 1 \in 1 .. Len(t)
    BY <2>1
  <2> QED BY <1>4, <2>1, <2>2 DEF IsHistory
<1> QED BY <1>1, <1>4, <1>6 DEF Capped

LEMMA HistoryShrinks ==
    ASSUME NEW h, IsHistory(h), h # <<>>
    PROVE  IsHistory(Front(h)) /\ IsSnapshot(Last(h))
<1>1. /\ IsSeq(Front(h)) /\ Len(Front(h)) = Len(h) - 1 /\ Len(h) \in Nat \ {0}
      /\ \A i \in 1 .. Len(h) - 1 : Front(h)[i] = h[i]
      /\ Last(h) = h[Len(h)]
  BY ShorterLength, Shortened DEF IsHistory
<1>2. \A i \in 1 .. Len(h) - 1 : i \in 1 .. Len(h)
  BY <1>1
<1> QED BY <1>1, <1>2 DEF IsHistory

LEMMA NoHistory == IsHistory(<<>>)
BY EmptyLength DEF IsHistory

-----------------------------------------------------------------------------
(* A cell operation, and an undo, run alone.                                *)
Alone == \A kind \in Kinds : {"edit", kind} \notin Overlap /\ {"undo", kind} \notin Overlap

Solo ==
    /\ inFlight => Busy = {}
    /\ \A k \in Busy : calls[k].kind = "edit" => Busy = {k}

(* What a call has captured is still what the session holds.                *)
Rendering(k) == calls[k].kind = "edit" /\ calls[k].pc = "render"
Based ==
    \A k \in Busy : nb = IF Rendering(k) THEN calls[k].new ELSE calls[k].base

(* An entry has been pushed on the history that the call remembers.         *)
Pushed(k) ==
    \E past, future :
        /\ calls[k].was = <<past, future>> /\ IsHistory(past) /\ IsHistory(future)
        /\ undo = Capped(Append(past, takeStructuralSnapshot(nb))) /\ redo = <<>>

Asked ==
    /\ queue \in Seq({"undo", "redo"})
    /\ req.dir \in {"undo", "redo"}
    /\ req.pc = "pop" => req.base = nb
    /\ req.pc \in {"pop", "render"} => req.saved = saved
    /\ req.pc = "render" => IsSnapshot(req.entry) /\ takeStructuralSnapshot(nb) = req.entry
    /\ req.pc = "redraw" => takeStructuralSnapshot(nb) = takeStructuralSnapshot(req.base)

(* Between a new notebook and its drawing.                                  *)
Undrawn == (\E k \in Busy : Rendering(k)) \/ req.pc \in {"render", "redraw"}

Drawn ==
    /\ DOMAIN viewer = {"ok", "cells"}
    /\ viewer.ok /\ ~Undrawn => viewer.cells = takeStructuralSnapshot(nb)

Written(k) == calls[k].pc \in {"clear", "record"}
Filed ==
    /\ \A k \in Calls : Written(k) => disk = nb
    /\ (\A k \in Calls : ~Written(k)) => saved = takeStructuralSnapshot(disk)
    /\ ~modified /\ ~wiped /\ ~Undrawn =>
          takeStructuralSnapshot(nb) = takeStructuralSnapshot(disk)

Line ==
    /\ IsHistory(undo) /\ IsHistory(redo)
    /\ \A k \in Uncommitted : Pushed(k)

Work == Served /\ Solo /\ Based /\ Asked
AInv == Work /\ Line /\ Drawn /\ Filed

(* The line of notebooks that the user sees.                                *)
Past == IF Uncommitted # {} THEN Was[1]
        ELSE IF Popped("undo") THEN Append(undo, req.entry) ELSE undo
Present == takeStructuralSnapshot(IF req.pc = "render" THEN req.base ELSE nb)
Future == IF Uncommitted # {} THEN Was[2]
          ELSE IF Popped("redo") THEN Append(redo, req.entry) ELSE redo

Stays == Past' = Past /\ Present' = Present /\ Future' = Future
Edits == Past' = Capped(Append(Past, Present)) /\ Future' = <<>>
Undoes ==
    /\ Past # <<>> /\ Present' = Last(Past) /\ Past' = Front(Past)
    /\ Future' = Append(Future, Present)
Redoes ==
    /\ Future # <<>> /\ Present' = Last(Future) /\ Future' = Front(Future)
    /\ Past' = Append(Past, Present)
Restarts == Past' = <<>> /\ Future' = <<>>
Walks == Stays \/ Edits \/ Undoes \/ Redoes \/ Restarts

LEMMA WalksIs == Walks => [Shown!Edit \/ Shown!Undo \/ Shown!Redo \/ Shown!Reopen]_(Shown!line)
<1>1. CASE Stays
  BY <1>1 DEF Stays, Past, Present, Future, Shown!line
<1>2. CASE Edits
  BY <1>2 DEF Edits, Past, Present, Future, Capped, Shown!Capped, Shown!Edit
<1>3. CASE Undoes
  BY <1>3 DEF Undoes, Past, Present, Future, Last, Front, Shown!Last, Shown!Front, Shown!Undo
<1>4. CASE Redoes
  BY <1>4 DEF Redoes, Past, Present, Future, Last, Front, Shown!Last, Shown!Front, Shown!Redo
<1>5. CASE Restarts
  BY <1>5 DEF Restarts, Past, Future, Shown!Reopen
<1> QED BY <1>1, <1>2, <1>3, <1>4, <1>5 DEF Walks

LEMMA StartIs == Past = <<>> /\ Future = <<>> => Shown!Start
BY DEF Past, Future, Shown!Start

LEMMA Untouched ==
    ASSUME Uncommitted = {}, Uncommitted' = {}, UNCHANGED <<nb, undo, redo>>,
           req' = req \/ (req.pc # "render" /\ req'.pc # "render")
    PROVE  Stays
<1>1. CASE req' = req
  BY <1>1 DEF Stays, Past, Present, Future, Popped
<1>2. CASE req.pc # "render" /\ req'.pc # "render"
  BY <1>2 DEF Stays, Past, Present, Future, Popped
<1> QED BY <1>1, <1>2

LEMMA InUncommitted ==
    ASSUME NEW k, Uncommitted = {k}
    PROVE  Was = calls[k].was
BY DEF Was

LEMMA UncommittedBusy == Uncommitted \subseteq Busy /\ \A k \in Calls : Written(k) => k \in Busy
BY DEF Uncommitted, Busy, Written

(* Who may begin finds nobody.                                              *)
LEMMA BeginsAlone ==
    ASSUME AInv, Alone, MayRun("edit")
    PROVE  /\ Busy = {} /\ ~inFlight /\ req.pc = "off" /\ Uncommitted = {} /\ ~Undrawn
           /\ \A k \in Calls : ~Written(k)
<1>1. \A k \in Calls : calls[k].kind \in Kinds \ {"undo"}
  BY DEF AInv, Work, Served, Shape
<1>2. Busy = {}
  <2> SUFFICES ASSUME NEW k \in Busy PROVE FALSE
    OBVIOUS
  <2>1. k \in Calls
    BY DEF Busy
  <2> QED BY <1>1, <2>1 DEF MayRun, Alone
<1>3. ~inFlight
  <2>1. "undo" \in Kinds /\ "edit" # "undo"
    BY DEF Kinds
  <2> QED BY <2>1 DEF MayRun, Alone
<1>4. req.pc = "off"
  BY <1>3 DEF AInv, Work, Served, QueueServed
<1> QED BY <1>2, <1>3, <1>4, UncommittedBusy DEF Undrawn

LEMMA EditBeginsStep ==
    ASSUME AInv, Alone, NEW k \in Calls, EditBegins(k)
    PROVE  AInv' /\ Walks
<1>1. Served'
  BY BeginsServed DEF AInv, Work
<1>2. MayRun("edit")
  BY BeginsRecord DEF BeginsAny, AInv, Work
<1>3. /\ Busy = {} /\ ~inFlight /\ req.pc = "off" /\ Uncommitted = {} /\ ~Undrawn
      /\ \A j \in Calls : ~Written(j)
  BY <1>2, BeginsAlone
<1>4. DOMAIN calls = Calls
  BY DEF AInv, Work, Served, Shape
<1>5. ASSUME NEW call, calls' = [calls EXCEPT ![k] = call], call.pc \in {"push", "commit"},
             call.kind = "edit", call.base = nb, UNCHANGED <<nb, requests, screen, file>>
      PROVE  /\ Solo' /\ Based' /\ Asked' /\ Drawn' /\ Filed'
             /\ Uncommitted' = {j \in {k} : call.pc = "commit"} /\ calls'[k] = call
  <2>1. calls'[k] = call /\ \A j \in Calls \ {k} : calls'[j] = calls[j]
    BY <1>4, <1>5
  <2>2. Busy' = {k}
    BY <1>3, <1>5, <2>1 DEF Busy
  <2>3. Solo'
    BY <1>3, <1>5, <2>2 DEF Solo, requests
  <2>4. \A j \in Calls : ~Rendering(j)' \/ j # k
    BY <1>5, <2>1 DEF Rendering
  <2>5. Based'
    BY <1>5, <2>1, <2>2 DEF Based, Rendering
  <2>6. Asked'
    BY <1>3, <1>5 DEF AInv, Work, Asked, requests, file
  <2>7. ~Undrawn'
    BY <1>3, <1>5, <2>2, <2>4 DEF Undrawn, requests
  <2>8. Drawn'
    BY <1>3, <1>5 DEF AInv, Drawn, screen
  <2>9. \A j \in Calls : ~Written(j)'
    BY <1>3, <1>5, <2>1 DEF Written
  <2>10. Filed'
    BY <1>3, <1>5, <2>9 DEF AInv, Filed, screen, file
  <2>11. Uncommitted' = {j \in {k} : call.pc = "commit"}
    BY <2>1, <2>2 DEF Uncommitted, Busy
  <2> QED BY <2>1, <2>3, <2>5, <2>6, <2>8, <2>10, <2>11
<1>6. IsHistory(undo) /\ IsHistory(redo)
  BY DEF AInv, Line
<1>7. ASSUME NEW ids, NEW new, PushesLater(k, ids, new) PROVE AInv' /\ Walks
  <2>1. PICK call : call = [IdleCall EXCEPT !.pc = "push", !.base = nb, !.new = new]
    OBVIOUS
  <2>2. call.pc = "push" /\ call.kind = "edit" /\ call.base = nb
    BY <2>1 DEF IdleCall
  <2>3. /\ calls' = [calls EXCEPT ![k] = call]
        /\ UNCHANGED <<nb, requests, screen, file>> /\ UNCHANGED history
    BY <1>7, <2>1 DEF PushesLater, Begins
  <2>4. /\ Solo' /\ Based' /\ Asked' /\ Drawn' /\ Filed'
        /\ Uncommitted' = {}
    BY <1>5, <2>2, <2>3
  <2>5. Line'
    BY <1>6, <2>3, <2>4 DEF Line, history
  <2>6. Stays
    BY <1>3, <2>3, <2>4, Untouched DEF history, requests
  <2> QED BY <1>1, <2>4, <2>5, <2>6 DEF AInv, Work, Walks
<1>8. ASSUME NEW new, PushesNow(k, new) PROVE AInv' /\ Walks
  <2>1. PICK call : call = [IdleCall EXCEPT !.pc = "commit", !.base = nb, !.new = new,
                                            !.was = history]
    OBVIOUS
  <2>2. call.pc = "commit" /\ call.kind = "edit" /\ call.base = nb /\ call.was = <<undo, redo>>
    BY <2>1 DEF IdleCall, history
  <2>3. /\ calls' = [calls EXCEPT ![k] = call]
        /\ UNCHANGED <<nb, requests, screen, file>> /\ Push(nb)
    BY <1>8, <2>1 DEF PushesNow, Begins
  <2>4. /\ Solo' /\ Based' /\ Asked' /\ Drawn' /\ Filed'
        /\ Uncommitted' = {k} /\ calls'[k] = call
    BY <1>5, <2>2, <2>3
  <2>5. undo' = Capped(Append(undo, takeStructuralSnapshot(nb))) /\ redo' = <<>> /\ nb' = nb
    BY <2>3 DEF Push
  <2>6. Pushed(k)'
    BY <1>6, <2>2, <2>4, <2>5 DEF Pushed
  <2>7. IsHistory(undo') /\ IsHistory(redo')
    BY <1>6, <2>5, SnapshotIs, HistoryGrows, NoHistory
  <2>8. Line'
    BY <2>4, <2>6, <2>7 DEF Line
  <2>9. Stays
    <3>1. Was' = <<undo, redo>>
      BY <2>2, <2>4, InUncommitted DEF Was
    <3>2. Past' = undo /\ Future' = redo
      BY <2>4, <3>1 DEF Past, Future
    <3>3. Past = undo /\ Future = redo
      BY <1>3 DEF Past, Future, Popped
    <3> QED BY <1>3, <2>3, <3>2, <3>3 DEF Stays, Present, requests
  <2> QED BY <1>1, <2>4, <2>8, <2>9 DEF AInv, Work, Walks
<1> QED
  BY <1>7, <1>8 DEF EditBegins, InsertCell, DeleteCell, MoveCell, SplitCell, JoinCell,
                    ChangeCellType, SaveCellEdit

LEMMA OtherBeginsStep ==
    ASSUME AInv, Alone, NEW k \in Calls, SaveBegins(k) \/ ViewBegins(k)
    PROVE  AInv' /\ Walks
<1>1. Served'
  BY OtherServed DEF AInv, Work
<1>2. PICK kind, pc : /\ Other(k, kind, pc) /\ kind \in {"save", "view"}
                      /\ pc \in {"write", "render"}
  BY DEF SaveBegins, ViewBegins
<1>3. DOMAIN calls = Calls /\ \A j \in Calls : calls[j].kind \in Kinds \ {"undo"}
  BY DEF AInv, Work, Served, Shape
<1>4. \A j \in Busy : calls[j].kind # "edit"
  <2> SUFFICES ASSUME NEW j \in Busy, calls[j].kind = "edit" PROVE FALSE
    OBVIOUS
  <2>1. {kind, "edit"} \in Overlap
    BY <1>2 DEF Other, MayRun
  <2>2. {kind, "edit"} = {"edit", kind} /\ kind \in Kinds
    BY <1>2 DEF Kinds
  <2> QED BY <2>1, <2>2 DEF Alone
<1>5. ~inFlight
  <2> SUFFICES ASSUME inFlight PROVE FALSE
    OBVIOUS
  <2>1. {kind, "undo"} \in Overlap
    BY <1>2 DEF Other, MayRun
  <2>2. {kind, "undo"} = {"undo", kind} /\ kind \in Kinds
    BY <1>2 DEF Kinds
  <2> QED BY <2>1, <2>2 DEF Alone
<1>6. req.pc = "off"
  BY <1>5 DEF AInv, Work, Served, QueueServed
<1>7. PICK call : call = [IdleCall EXCEPT !.pc = pc, !.kind = kind, !.base = nb]
  OBVIOUS
<1>8. call.pc = pc /\ call.kind = kind /\ call.base = nb
  BY <1>7 DEF IdleCall
<1>9. /\ calls' = [calls EXCEPT ![k] = call] /\ calls[k].pc = "off"
      /\ UNCHANGED <<nb, history, requests, screen, file>>
  BY <1>2, <1>7 DEF Other
<1>10. calls'[k] = call /\ \A j \in Calls \ {k} : calls'[j] = calls[j]
  BY <1>3, <1>9
<1>11. Busy' = Busy \cup {k} /\ k \notin Busy
  BY <1>2, <1>8, <1>9, <1>10 DEF Busy
<1>12. \A j \in Busy' : calls'[j].kind # "edit"
  BY <1>2, <1>4, <1>8, <1>10, <1>11 DEF Busy
<1>13. Solo'
  BY <1>5, <1>9, <1>12 DEF Solo, requests
<1>14. \A j \in Busy' : ~Rendering(j)'
  BY <1>12 DEF Rendering
<1>15. \A j \in Busy : ~Rendering(j)
  BY <1>4 DEF Rendering
<1>16. Based'
  BY <1>8, <1>9, <1>10, <1>11, <1>14, <1>15 DEF AInv, Work, Based, Busy
<1>17. Asked'
  BY <1>6, <1>9 DEF AInv, Work, Asked, requests
<1>18. ~Undrawn /\ ~Undrawn'
  BY <1>6, <1>9, <1>14, <1>15 DEF Undrawn, requests
<1>19. Drawn'
  BY <1>9, <1>18 DEF AInv, Drawn, screen
<1>20. \A j \in Calls : Written(j)' <=> Written(j)
  BY <1>2, <1>8, <1>9, <1>10 DEF Written
<1>21. Filed'
  BY <1>9, <1>18, <1>20 DEF AInv, Filed, screen, file
<1>22. Uncommitted = {} /\ Uncommitted' = {}
  <2>1. Uncommitted = {}
    BY <1>4, UncommittedBusy DEF Uncommitted, AInv, Work, Served, Shape
  <2>2. Uncommitted' = {}
    BY <1>2, <1>8, <1>10, <2>1 DEF Uncommitted
  <2> QED BY <2>1, <2>2
<1>23. Line'
  BY <1>9, <1>22 DEF AInv, Line, history
<1>24. Stays
  BY <1>9, <1>22, Untouched DEF history, requests
<1> QED BY <1>1, <1>13, <1>16, <1>17, <1>19, <1>21, <1>23, <1>24 DEF AInv, Work, Walks

(* A call moves on, or ends.                                                *)
LEMMA MovesOn ==
    ASSUME Served, NEW k \in Calls, NEW pc, calls' = [calls EXCEPT ![k].pc = pc]
    PROVE  /\ \A j \in Calls \ {k} : calls'[j] = calls[j]
           /\ calls'[k].pc = pc /\ calls'[k].kind = calls[k].kind
           /\ calls'[k].base = calls[k].base /\ calls'[k].new = calls[k].new
           /\ calls'[k].was = calls[k].was
BY DEF Served, Shape, IdleCall

LEMMA CallEnds ==
    ASSUME Served, NEW k \in Calls, Ends(k)
    PROVE  /\ \A j \in Calls \ {k} : calls'[j] = calls[j]
           /\ calls'[k].pc = "off" /\ Busy' = Busy \ {k}
<1>1. calls'[k] = IdleCall /\ \A j \in Calls \ {k} : calls'[j] = calls[j]
  BY DEF Ends, Served, Shape
<1>2. calls'[k].pc = "off"
  BY <1>1 DEF IdleCall
<1> QED BY <1>1, <1>2 DEF Busy

(* While a call is under way, no undo is, and a cell operation is alone.    *)
LEMMA CallIsAlone ==
    ASSUME AInv, NEW k \in Busy
    PROVE  /\ k \in Calls /\ ~inFlight /\ req.pc = "off"
           /\ calls[k].kind = "edit" => Busy = {k}
<1>1. k \in Calls /\ ~inFlight /\ (calls[k].kind = "edit" => Busy = {k})
  BY DEF AInv, Work, Solo, Busy
<1>2. req.pc = "off"
  BY <1>1 DEF AInv, Work, Served, QueueServed
<1> QED BY <1>1, <1>2

LEMMA EditPushesStep ==
    ASSUME AInv, NEW k \in Calls, EditPushes(k)
    PROVE  AInv' /\ Walks
<1>1. Served'
  BY CallServed DEF CallStep, AInv, Work
<1>2. calls[k].pc = "push" /\ calls[k].kind = "edit" /\ k \in Busy
  BY DEF EditPushes, AInv, Work, Served, Shape, Busy
<1>3. Busy = {k} /\ ~inFlight /\ req.pc = "off"
  BY <1>2, CallIsAlone
<1>4. /\ UNCHANGED <<nb, requests, screen, file, used>>
      /\ calls' = [calls EXCEPT ![k].pc = "commit", ![k].was = history]
      /\ undo' = Capped(Append(undo, takeStructuralSnapshot(calls[k].base))) /\ redo' = <<>>
  BY DEF EditPushes, Push
<1>5. /\ \A j \in Calls \ {k} : calls'[j] = calls[j]
      /\ calls'[k].pc = "commit" /\ calls'[k].kind = "edit"
      /\ calls'[k].base = calls[k].base /\ calls'[k].was = <<undo, redo>>
  BY <1>2, <1>4 DEF AInv, Work, Served, Shape, IdleCall, history
<1>6. Busy' = {k} /\ Uncommitted = {} /\ Uncommitted' = {k}
  <2>1. Busy' = {k}
    BY <1>3, <1>5 DEF Busy
  <2>2. Uncommitted = {}
    BY <1>2, <1>3, UncommittedBusy DEF Uncommitted
  <2>3. Uncommitted' = {k}
    BY <1>3, <1>5, <2>1 DEF Uncommitted, Busy
  <2> QED BY <2>1, <2>2, <2>3
<1>7. nb = calls[k].base
  BY <1>2 DEF AInv, Work, Based, Rendering
<1>8. Solo' /\ Based' /\ Asked'
  <2>1. Solo'
    BY <1>3, <1>4, <1>6 DEF Solo, requests
  <2>2. Based'
    BY <1>4, <1>5, <1>6, <1>7 DEF Based, Rendering
  <2>3. Asked'
    BY <1>3, <1>4 DEF AInv, Work, Asked, requests, file
  <2> QED BY <2>1, <2>2, <2>3
<1>9. ~Undrawn /\ ~Undrawn'
  BY <1>2, <1>3, <1>4, <1>5, <1>6 DEF Undrawn, Rendering, requests
<1>10. \A j \in Calls : ~Written(j) /\ ~Written(j)'
  BY <1>2, <1>3, <1>5, UncommittedBusy DEF Written
<1>11. Drawn' /\ Filed'
  <2>1. Drawn'
    BY <1>4, <1>9 DEF AInv, Drawn, screen
  <2>2. Filed'
    BY <1>4, <1>9, <1>10 DEF AInv, Filed, screen, file
  <2> QED BY <2>1, <2>2
<1>12. IsHistory(undo) /\ IsHistory(redo)
  BY DEF AInv, Line
<1>13. Line'
  <2>1. Pushed(k)'
    BY <1>4, <1>5, <1>7, <1>12 DEF Pushed
  <2>2. IsHistory(undo') /\ IsHistory(redo')
    BY <1>4, <1>12, SnapshotIs, HistoryGrows, NoHistory
  <2> QED BY <1>6, <2>1, <2>2 DEF Line
<1>14. Stays
  <2>1. Was' = <<undo, redo>>
    BY <1>5, <1>6, InUncommitted DEF Was
  <2>2. Past' = undo /\ Future' = redo
    BY <1>6, <2>1 DEF Past, Future
  <2>3. Past = undo /\ Future = redo
    BY <1>3, <1>6 DEF Past, Future, Popped
  <2> QED BY <1>3, <1>4, <2>2, <2>3 DEF Stays, Present, requests
<1> QED BY <1>1, <1>8, <1>11, <1>13, <1>14 DEF AInv, Work, Walks

(* The entry stays whether the notebook is stored or not.                   *)
LEMMA EditLands ==
    ASSUME AInv, NEW k \in Calls, calls[k].pc = "commit", k \in Busy, Busy = {k},
           UNCHANGED history, Uncommitted' = {}, req' = req, req.pc = "off"
    PROVE  Edits
<1>1. Uncommitted = {k}
  BY UncommittedBusy DEF Uncommitted
<1>2. PICK past, future :
          /\ calls[k].was = <<past, future>>
          /\ undo = Capped(Append(past, takeStructuralSnapshot(nb))) /\ redo = <<>>
  BY <1>1 DEF AInv, Line, Pushed
<1>3. Was = <<past, future>>
  BY <1>1, <1>2, InUncommitted
<1>4. Past = past /\ Present = takeStructuralSnapshot(nb)
  BY <1>1, <1>3 DEF Past, Present
<1>5. Past' = undo /\ Future' = redo
  BY DEF Past, Future, Popped, history
<1> QED BY <1>2, <1>4, <1>5 DEF Edits

LEMMA EditEndsStep ==
    ASSUME AInv, NEW k \in Calls, EditThrows(k) \/ EditCommits(k)
    PROVE  AInv' /\ Walks
<1>1. Served'
  BY CallServed DEF CallStep, AInv, Work
<1>2. calls[k].pc = "commit" /\ calls[k].kind = "edit" /\ k \in Busy
  BY DEF EditThrows, EditCommits, AInv, Work, Served, Shape, Busy
<1>3. Busy = {k} /\ ~inFlight /\ req.pc = "off"
  BY <1>2, CallIsAlone
<1>4. UNCHANGED <<history, requests, screen, file>>
  BY DEF EditThrows, EditCommits
<1>5. IsHistory(undo') /\ IsHistory(redo')
  BY <1>4 DEF AInv, Line, history
<1>6. ~Undrawn /\ \A j \in Calls : ~Written(j)
  BY <1>2, <1>3, UncommittedBusy DEF Undrawn, Rendering, Written
<1>7. CASE EditThrows(k)
  <2>1. nb' = nb /\ Busy' = {}
    BY <1>3, <1>7, CallEnds DEF EditThrows, AInv, Work
  <2>2. Uncommitted' = {} /\ \A j \in Calls : ~Written(j)'
    BY <2>1 DEF Uncommitted, Busy, Written
  <2>3. Solo' /\ Based' /\ Asked'
    BY <1>3, <1>4, <2>1 DEF Solo, Based, Asked, AInv, Work, requests, file
  <2>4. ~Undrawn'
    BY <1>3, <1>4, <2>1 DEF Undrawn, requests
  <2>5. Drawn'
    BY <1>4, <1>6, <2>1 DEF AInv, Drawn, screen
  <2>6. Filed'
    BY <1>4, <1>6, <2>1, <2>2 DEF AInv, Filed, screen, file
  <2>7. Line'
    BY <1>5, <2>2 DEF Line
  <2>8. Edits
    BY <1>2, <1>3, <1>4, <2>2, EditLands DEF requests
  <2> QED BY <1>1, <2>3, <2>5, <2>6, <2>7, <2>8 DEF AInv, Work, Walks
<1>8. CASE EditCommits(k)
  <2>1. nb' = calls[k].new /\ calls' = [calls EXCEPT ![k].pc = "render"]
    BY <1>8 DEF EditCommits
  <2>2. /\ \A j \in Calls \ {k} : calls'[j] = calls[j]
        /\ calls'[k].pc = "render" /\ calls'[k].kind = "edit" /\ calls'[k].new = calls[k].new
    BY <1>2, <2>1, MovesOn DEF AInv, Work
  <2>3. Busy' = {k}
    BY <1>3, <2>2 DEF Busy
  <2>4. Uncommitted' = {} /\ \A j \in Calls : ~Written(j)'
    <3>1. Uncommitted' = {}
      BY <1>3, <2>2, UncommittedBusy DEF Uncommitted
    <3>2. \A j \in Calls : ~Written(j)'
      BY <1>6, <2>2 DEF Written
    <3> QED BY <3>1, <3>2
  <2>5. Rendering(k)'
    BY <2>2 DEF Rendering
  <2>6. Solo'
    BY <1>3, <1>4, <2>3 DEF Solo, requests
  <2>7. Based'
    BY <2>1, <2>2, <2>3, <2>5 DEF Based, Rendering
  <2>8. Asked'
    BY <1>3, <1>4 DEF AInv, Work, Asked, requests
  <2>9. Undrawn'
    BY <2>3, <2>5 DEF Undrawn
  <2>10. Drawn' /\ Filed'
    <3>1. Drawn'
      BY <1>4, <2>9 DEF AInv, Drawn, screen
    <3>2. Filed'
      BY <1>4, <1>6, <2>4, <2>9 DEF AInv, Filed, file
    <3> QED BY <3>1, <3>2
  <2>11. Line'
    BY <1>5, <2>4 DEF Line
  <2>12. Edits
    BY <1>2, <1>3, <1>4, <2>4, EditLands DEF requests
  <2> QED BY <1>1, <2>6, <2>7, <2>8, <2>10, <2>11, <2>12 DEF AInv, Work, Walks
<1> QED BY <1>7, <1>8

LEMMA EditDrawsStep ==
    ASSUME AInv, NEW k \in Calls, EditRenders(k) \/ EditHalfDrawn(k)
    PROVE  AInv' /\ Walks
<1>1. Served'
  BY CallServed DEF CallStep, AInv, Work
<1>2. Rendering(k) /\ calls[k].kind = "edit" /\ calls[k].pc = "render" /\ k \in Busy
  BY DEF EditRenders, EditHalfDrawn, Rendering, Busy
<1>3. Busy = {k} /\ ~inFlight /\ req.pc = "off" /\ nb = calls[k].new
  BY <1>2, CallIsAlone DEF AInv, Work, Based
<1>4. UNCHANGED <<nb, history, requests, file>> /\ Ends(k)
  BY DEF EditRenders, EditHalfDrawn
<1>5. Busy' = {}
  BY <1>3, <1>4, CallEnds DEF AInv, Work
<1>6. Uncommitted = {} /\ Uncommitted' = {} /\ \A j \in Calls : ~Written(j) /\ ~Written(j)'
  <2>1. Uncommitted = {} /\ \A j \in Calls : ~Written(j)
    BY <1>2, <1>3, UncommittedBusy DEF Uncommitted, Written
  <2>2. Uncommitted' = {} /\ \A j \in Calls : ~Written(j)'
    BY <1>5 DEF Uncommitted, Busy, Written
  <2> QED BY <2>1, <2>2
<1>7. Solo' /\ Based' /\ Asked'
  BY <1>3, <1>4, <1>5 DEF Solo, Based, Asked, AInv, Work, requests, file
<1>8. Drawn'
  <2>1. CASE EditRenders(k)
    <3>1. viewer' = [ok |-> TRUE, cells |-> takeStructuralSnapshot(nb)]
      BY <1>3, <2>1 DEF EditRenders
    <3> QED BY <1>4, <3>1 DEF Drawn
  <2>2. CASE EditHalfDrawn(k)
    <3>1. viewer' = [viewer EXCEPT !.ok = FALSE]
      BY <2>2 DEF EditHalfDrawn, HalfDrawn
    <3> QED BY <3>1 DEF AInv, Drawn
  <2> QED BY <2>1, <2>2
<1>9. modified' \/ wiped'
  BY DEF EditRenders, EditHalfDrawn, HalfDrawn
<1>10. Filed'
  BY <1>4, <1>6, <1>9 DEF AInv, Filed, file
<1>11. Line'
  BY <1>4, <1>6 DEF AInv, Line, history
<1>12. Stays
  BY <1>3, <1>4, <1>6, Untouched DEF history, requests
<1> QED BY <1>1, <1>7, <1>8, <1>10, <1>11, <1>12 DEF AInv, Work, Walks

(* Saving and re-rendering leave the notebook and its history alone.        *)
LEMMA OtherStep ==
    ASSUME AInv, NEW k \in Busy, ~Rendering(k), calls[k].pc # "commit",
           UNCHANGED <<nb, history, requests>>,
           Ends(k) \/ \E pc \in {"clear", "record"} : calls' = [calls EXCEPT ![k].pc = pc]
    PROVE  /\ Solo' /\ Based' /\ Asked' /\ Line' /\ Stays /\ k \in Calls
           /\ Undrawn' <=> Undrawn
           /\ \A j \in Calls \ {k} : calls'[j] = calls[j]
<1>1. Served /\ k \in Calls /\ ~inFlight /\ req.pc = "off"
  BY CallIsAlone DEF AInv, Work
<1>2. \/ Busy' = Busy \ {k}
      \/ /\ Busy' = Busy /\ calls'[k].kind = calls[k].kind /\ calls'[k].base = calls[k].base
         /\ calls'[k].pc \in {"clear", "record"}
  <2>1. CASE Ends(k)
    BY <1>1, <2>1, CallEnds
  <2>2. ASSUME NEW pc \in {"clear", "record"}, calls' = [calls EXCEPT ![k].pc = pc]
        PROVE  /\ Busy' = Busy /\ calls'[k].kind = calls[k].kind
               /\ calls'[k].base = calls[k].base /\ calls'[k].pc = pc
    <3>1. /\ \A j \in Calls \ {k} : calls'[j] = calls[j]
          /\ calls'[k].pc = pc /\ calls'[k].kind = calls[k].kind
          /\ calls'[k].base = calls[k].base
      BY <1>1, <2>2, MovesOn
    <3>2. Busy' = Busy
      BY <1>1, <2>2, <3>1 DEF Busy
    <3> QED BY <3>1, <3>2
  <2> QED BY <2>1, <2>2
<1>3. \A j \in Calls \ {k} : calls'[j] = calls[j]
  BY <1>1, CallEnds, MovesOn
<1>4. Solo'
  BY <1>1, <1>2, <1>3 DEF AInv, Work, Solo, Busy, requests
<1>5. Based'
  <2>1. ASSUME NEW j \in Busy', j # k
        PROVE  nb' = IF Rendering(j)' THEN calls'[j].new ELSE calls'[j].base
    BY <1>2, <1>3, <2>1 DEF AInv, Work, Based, Rendering, Busy
  <2>2. k \in Busy' => nb' = IF Rendering(k)' THEN calls'[k].new ELSE calls'[k].base
    BY <1>2 DEF AInv, Work, Based, Rendering
  <2> QED BY <2>1, <2>2 DEF Based
<1>6. Asked'
  BY <1>1 DEF AInv, Work, Asked, requests
<1>7. Uncommitted' = Uncommitted
  <2>1. calls'[k].pc # "commit"
    BY <1>1, <1>2, CallEnds, MovesOn
  <2> QED BY <1>3, <2>1 DEF Uncommitted
<1>8. \A j \in Uncommitted : calls'[j] = calls[j]
  BY <1>3 DEF Uncommitted
<1>9. Line'
  BY <1>7, <1>8 DEF AInv, Line, Pushed, history
<1>10. Stays
  <2>1. ASSUME Uncommitted # {} PROVE Was' = Was
    BY <1>7, <1>8, <2>1 DEF Was
  <2> QED BY <1>7, <2>1 DEF Stays, Past, Present, Future, Popped, history, requests
<1>11. Undrawn' <=> Undrawn
  <2>1. \A j \in Busy \ {k} : Rendering(j)' <=> Rendering(j)
    BY <1>3 DEF Rendering, Busy
  <2>2. k \in Busy' => ~Rendering(k)'
    BY <1>2 DEF Rendering
  <2> QED BY <1>2, <2>1, <2>2 DEF Undrawn, requests
<1> QED BY <1>1, <1>3, <1>4, <1>5, <1>6, <1>9, <1>10, <1>11

LEMMA SaveStep ==
    ASSUME AInv, NEW k \in Calls,
           SaveFails(k) \/ SaveWrites(k) \/ SaveClears(k) \/ SaveRecords(k)
    PROVE  AInv' /\ Walks
<1>1. Served'
  BY CallServed DEF CallStep, AInv, Work
<1>2. /\ k \in Busy /\ ~Rendering(k) /\ calls[k].pc \in {"write", "clear", "record"}
      /\ UNCHANGED <<nb, history, requests>>
      /\ Ends(k) \/ \E pc \in {"clear", "record"} : calls' = [calls EXCEPT ![k].pc = pc]
  BY DEF SaveFails, SaveWrites, SaveClears, SaveRecords, Busy, Rendering
<1>3. /\ Solo' /\ Based' /\ Asked' /\ Line' /\ Stays
      /\ Undrawn' <=> Undrawn
      /\ \A j \in Calls \ {k} : calls'[j] = calls[j]
  BY <1>2, OtherStep
<1>4. calls[k].base = nb
  BY <1>2 DEF AInv, Work, Based
<1>5. Drawn'
  <2>1. viewer' = viewer
    BY DEF SaveFails, SaveWrites, SaveClears, SaveRecords, screen
  <2> QED BY <1>2, <1>3, <2>1 DEF AInv, Drawn
<1>6. Filed'
  <2>1. \A j \in Calls \ {k} : Written(j)' <=> Written(j)
    BY <1>3 DEF Written
  <2>2. CASE SaveFails(k)
    <3>1. ~Written(k) /\ ~Written(k)'
      BY <2>2, CallEnds DEF SaveFails, Written, AInv, Work
    <3>2. UNCHANGED <<screen, file>>
      BY <2>2 DEF SaveFails
    <3> QED BY <1>2, <1>3, <2>1, <3>1, <3>2 DEF AInv, Filed, screen, file
  <2>3. CASE SaveWrites(k)
    <3>1. Written(k)'
      BY <2>3, MovesOn DEF SaveWrites, Written, AInv, Work
    <3>2. disk' = nb
      BY <1>4, <2>3 DEF SaveWrites
    <3> QED BY <1>2, <2>1, <3>1, <3>2 DEF AInv, Filed
  <2>4. CASE SaveClears(k)
    <3>1. Written(k) /\ Written(k)'
      BY <2>4, MovesOn DEF SaveClears, Written, AInv, Work
    <3>2. disk = nb
      BY <3>1 DEF AInv, Filed
    <3>3. UNCHANGED file
      BY <2>4 DEF SaveClears
    <3> QED BY <1>2, <2>1, <3>1, <3>2, <3>3 DEF AInv, Filed, file
  <2>5. CASE SaveRecords(k)
    <3>1. Written(k) /\ ~Written(k)'
      BY <2>5, CallEnds DEF SaveRecords, Written, AInv, Work
    <3>2. disk = nb
      BY <3>1 DEF AInv, Filed
    <3>3. saved' = takeStructuralSnapshot(nb) /\ disk' = disk
      BY <1>4, <2>5 DEF SaveRecords
    <3> QED BY <1>2, <2>1, <3>2, <3>3 DEF AInv, Filed
  <2> QED BY <2>2, <2>3, <2>4, <2>5
<1> QED BY <1>1, <1>3, <1>5, <1>6 DEF AInv, Work, Walks

LEMMA ViewStep ==
    ASSUME AInv, NEW k \in Calls, ViewRenders(k) \/ ViewFails(k)
    PROVE  AInv' /\ Walks
<1>1. Served'
  BY CallServed DEF CallStep, AInv, Work
<1>2. /\ k \in Busy /\ ~Rendering(k) /\ calls[k].pc = "render"
      /\ UNCHANGED <<nb, history, requests, file>> /\ Ends(k)
  BY DEF ViewRenders, ViewFails, Busy, Rendering
<1>3. /\ Solo' /\ Based' /\ Asked' /\ Line' /\ Stays
      /\ Undrawn' <=> Undrawn
      /\ \A j \in Calls \ {k} : calls'[j] = calls[j]
  BY <1>2, OtherStep
<1>4. calls[k].base = nb
  BY <1>2 DEF AInv, Work, Based
<1>5. Drawn'
  <2>1. CASE ViewRenders(k)
    <3>1. viewer' = [ok |-> TRUE, cells |-> takeStructuralSnapshot(nb)]
      BY <1>4, <2>1 DEF ViewRenders
    <3> QED BY <1>2, <3>1 DEF Drawn
  <2>2. CASE ViewFails(k)
    <3>1. viewer' = [viewer EXCEPT !.ok = FALSE]
      BY <2>2 DEF ViewFails, HalfDrawn
    <3> QED BY <3>1 DEF AInv, Drawn
  <2> QED BY <2>1, <2>2
<1>6. wiped' \/ ((wiped' <=> wiped) /\ ~modified)
  BY DEF ViewRenders, ViewFails, HalfDrawn
<1>7. Filed'
  <2>1. \A j \in Calls : Written(j)' <=> Written(j)
    BY <1>2, <1>3, CallEnds DEF Written, AInv, Work
  <2> QED BY <1>2, <1>3, <1>6, <2>1 DEF AInv, Filed, file
<1> QED BY <1>1, <1>3, <1>5, <1>7 DEF AInv, Work, Walks

(* Undo and redo.                                                           *)
LEMMA FinishIs ==
    ASSUME AInv, Finish
    PROVE  /\ queue' \in Seq({"undo", "redo"}) /\ req'.dir \in {"undo", "redo"}
           /\ req'.pc \in {"off", "start"} /\ (inFlight' => inFlight)
<1>1. queue \in Seq({"undo", "redo"})
  BY DEF AInv, Work, Asked
<1>2. CASE queue = <<>>
  BY <1>1, <1>2 DEF Finish, IdleReq
<1>3. CASE queue # <<>>
  <2>1. Head(queue) \in {"undo", "redo"} /\ Tail(queue) \in Seq({"undo", "redo"})
    BY <1>1, <1>3, HeadTailProperties
  <2>2. /\ req' = [IdleReq EXCEPT !.pc = "start", !.dir = Head(queue)]
        /\ queue' = Tail(queue) /\ UNCHANGED inFlight
    BY <1>3 DEF Finish
  <2> QED BY <2>1, <2>2 DEF IdleReq
<1> QED BY <1>2, <1>3

LEMMA EnqueueStep ==
    ASSUME AInv, Alone, NEW dir \in {"undo", "redo"}, Enqueue(dir)
    PROVE  AInv' /\ Walks
<1>1. Served'
  BY EnqueueServed DEF AInv, Work
<1>2. UNCHANGED <<nb, history, calls, screen, file>>
  BY DEF Enqueue
<1>3. Busy = {}
  <2> SUFFICES ASSUME NEW k \in Busy PROVE FALSE
    OBVIOUS
  <2>1. calls[k].kind \in Kinds
    BY DEF AInv, Work, Served, Shape, Busy
  <2> QED BY <2>1 DEF Enqueue, MayRun, Alone
<1>4. \/ UNCHANGED requests
      \/ queue' = Append(queue, dir) /\ UNCHANGED <<inFlight, req>>
      \/ /\ ~inFlight /\ req' = [IdleReq EXCEPT !.pc = "start", !.dir = dir]
         /\ UNCHANGED queue
  BY DEF Enqueue
<1>5. queue' \in Seq({"undo", "redo"})
  <2>1. queue \in Seq({"undo", "redo"})
    BY DEF AInv, Work, Asked
  <2>2. Append(queue, dir) \in Seq({"undo", "redo"})
    BY <2>1, AppendProperties
  <2> QED BY <1>4, <2>1, <2>2 DEF requests
<1>6. req' = req \/ (req.pc = "off" /\ req'.pc = "start" /\ req'.dir = dir)
  BY <1>4 DEF AInv, Work, Served, QueueServed, requests, IdleReq
<1>7. Busy' = {} /\ Uncommitted = {} /\ Uncommitted' = {}
  BY <1>2, <1>3 DEF Busy, Uncommitted
<1>8. Solo' /\ Based'
  BY <1>7 DEF Solo, Based
<1>9. Asked'
  BY <1>2, <1>5, <1>6 DEF AInv, Work, Asked, file
<1>10. Undrawn' <=> Undrawn
  BY <1>3, <1>6, <1>7 DEF Undrawn
<1>11. Drawn'
  BY <1>2, <1>10 DEF AInv, Drawn, screen
<1>12. \A k \in Calls : Written(k)' <=> Written(k)
  BY <1>2 DEF Written
<1>13. Filed'
  BY <1>2, <1>10, <1>12 DEF AInv, Filed, screen, file
<1>14. Line'
  BY <1>2, <1>7 DEF AInv, Line, history
<1>15. Stays
  BY <1>2, <1>6, <1>7, Untouched DEF history
<1> QED BY <1>1, <1>8, <1>9, <1>11, <1>13, <1>14, <1>15 DEF AInv, Work, Walks

(* While an undo is under way, nothing else is.                             *)
LEMMA UndoIsAlone ==
    ASSUME AInv, UndoStep
    PROVE  /\ Served' /\ Busy = {} /\ Busy' = {} /\ Uncommitted = {} /\ Uncommitted' = {}
           /\ Solo' /\ Based' /\ calls' = calls
           /\ \A k \in Calls : ~Written(k) /\ ~Written(k)'
<1>1. Served' /\ calls' = calls /\ inFlight
  BY UndoServed DEF AInv, Work
<1>2. Busy = {} /\ Busy' = {}
  BY <1>1 DEF AInv, Work, Solo, Busy
<1>3. Uncommitted = {} /\ Uncommitted' = {} /\ \A k \in Calls : ~Written(k) /\ ~Written(k)'
  BY <1>2 DEF Uncommitted, Written, Busy
<1>4. Solo' /\ Based'
  BY <1>2 DEF Solo, Based
<1> QED BY <1>1, <1>2, <1>3, <1>4

LEMMA UndoWaitsStep ==
    ASSUME AInv, UndoStarts \/ UndoRefused \/ NothingToUndo
    PROVE  AInv' /\ Walks
<1>1. /\ Served' /\ Busy = {} /\ Busy' = {} /\ Uncommitted = {} /\ Uncommitted' = {}
      /\ Solo' /\ Based' /\ calls' = calls
      /\ \A k \in Calls : ~Written(k) /\ ~Written(k)'
  BY UndoIsAlone DEF UndoStep
<1>2. UNCHANGED <<nb, history, screen, file>>
  BY DEF UndoStarts, UndoRefused, NothingToUndo
<1>3. req.pc \in {"start", "pop"} /\ req'.pc \in {"off", "start", "pop"} /\ Asked'
  <2>1. CASE UndoStarts
    <3>1. req' = [req EXCEPT !.pc = "pop", !.base = nb, !.saved = saved]
          /\ queue' = queue /\ req.pc = "start"
      BY <2>1 DEF UndoStarts
    <3>2. req'.pc = "pop" /\ req'.base = nb /\ req'.saved = saved /\ req'.dir = req.dir
      BY <3>1 DEF AInv, Work, Served, Shape, IdleReq
    <3> QED BY <1>2, <3>1, <3>2 DEF AInv, Work, Asked, file
  <2>2. CASE UndoRefused \/ NothingToUndo
    <3>1. Finish /\ req.pc \in {"start", "pop"}
      BY <2>2 DEF UndoRefused, NothingToUndo
    <3> QED BY <3>1, FinishIs DEF Asked
  <2> QED BY <2>1, <2>2
<1>4. ~Undrawn /\ ~Undrawn'
  BY <1>1, <1>3 DEF Undrawn
<1>5. Drawn' /\ Filed'
  <2>1. Drawn'
    BY <1>2, <1>4 DEF AInv, Drawn, screen
  <2>2. Filed'
    BY <1>1, <1>2, <1>4 DEF AInv, Filed, screen, file
  <2> QED BY <2>1, <2>2
<1>6. Line'
  BY <1>1, <1>2 DEF AInv, Line, history
<1>7. Stays
  BY <1>1, <1>2, <1>3, Untouched DEF history
<1> QED BY <1>1, <1>3, <1>5, <1>6, <1>7 DEF AInv, Work, Walks

LEMMA UndoPopsStep ==
    ASSUME AInv, UndoPops
    PROVE  AInv' /\ Walks
<1>1. /\ Served' /\ Busy = {} /\ Busy' = {} /\ Uncommitted = {} /\ Uncommitted' = {}
      /\ Solo' /\ Based' /\ calls' = calls
      /\ \A k \in Calls : ~Written(k) /\ ~Written(k)'
  BY UndoIsAlone DEF UndoStep
<1>2. /\ req.pc = "pop" /\ req.dir \in {"undo", "redo"} /\ req.base = nb /\ req.saved = saved
      /\ queue \in Seq({"undo", "redo"}) /\ IsHistory(undo) /\ IsHistory(redo)
  BY DEF UndoPops, AInv, Work, Asked, Line
<1>3. PICK entry : entry = Last(Stack)
  OBVIOUS
<1>4. /\ Stack # <<>> /\ nb' = restoreStructural(req.base, entry) /\ queue' = queue
      /\ req' = [req EXCEPT !.pc = "render", !.entry = entry]
      /\ UNCHANGED <<screen, file>>
  BY <1>3 DEF UndoPops
<1>5. /\ req'.pc = "render" /\ req'.entry = entry /\ req'.dir = req.dir
      /\ req'.base = req.base /\ req'.saved = req.saved
  BY <1>4 DEF AInv, Work, Served, Shape, IdleReq
<1>6. IsHistory(Stack) /\ IsSnapshot(entry)
  <2>1. IsHistory(Stack)
    BY <1>2 DEF Stack
  <2> QED BY <1>3, <1>4, <2>1, HistoryShrinks
<1>7. takeStructuralSnapshot(nb') = entry
  BY <1>4, <1>6, RestoredIs
<1>8. Asked'
  BY <1>2, <1>4, <1>5, <1>6, <1>7 DEF Asked, file
<1>9. Undrawn'
  BY <1>5 DEF Undrawn
<1>10. Drawn' /\ Filed'
  <2>1. Drawn'
    BY <1>4, <1>9 DEF AInv, Drawn, screen
  <2>2. Filed'
    BY <1>1, <1>4, <1>9 DEF AInv, Filed, file
  <2> QED BY <2>1, <2>2
<1>11. /\ \/ Stack = undo /\ req.dir = "undo" /\ undo' = Front(undo) /\ redo' = redo
          \/ Stack = redo /\ req.dir = "redo" /\ redo' = Front(redo) /\ undo' = undo
       /\ Append(Front(Stack), entry) = Stack /\ IsHistory(Front(Stack))
  <2>1. Append(Front(Stack), entry) = Stack /\ IsHistory(Front(Stack))
    BY <1>3, <1>4, <1>6, PoppedAndPushed, HistoryShrinks DEF IsHistory
  <2>2. \/ Stack = undo /\ req.dir = "undo" /\ undo' = Front(undo) /\ redo' = redo
        \/ Stack = redo /\ req.dir = "redo" /\ redo' = Front(redo) /\ undo' = undo
    BY <1>2 DEF UndoPops, Stack
  <2> QED BY <2>1, <2>2
<1>12. Line'
  BY <1>1, <1>2, <1>11 DEF Line
<1>13. Stays
  <2>1. Past = undo /\ Future = redo /\ Present = takeStructuralSnapshot(nb)
    BY <1>1, <1>2 DEF Past, Future, Present, Popped
  <2>2. Present' = takeStructuralSnapshot(nb)
    BY <1>2, <1>5 DEF Present
  <2>3. CASE req.dir = "undo"
    <3>1. undo' = Front(undo) /\ redo' = redo /\ Append(Front(undo), entry) = undo
      BY <1>11, <2>3
    <3>2. Past' = undo /\ Future' = redo
      BY <1>1, <1>5, <2>3, <3>1 DEF Past, Future, Popped
    <3> QED BY <2>1, <2>2, <3>2 DEF Stays
  <2>4. CASE req.dir = "redo"
    <3>1. redo' = Front(redo) /\ undo' = undo /\ Append(Front(redo), entry) = redo
      BY <1>11, <2>4
    <3>2. Past' = undo /\ Future' = redo
      BY <1>1, <1>5, <2>4, <3>1 DEF Past, Future, Popped
    <3> QED BY <2>1, <2>2, <3>2 DEF Stays
  <2> QED BY <1>2, <2>3, <2>4
<1> QED BY <1>1, <1>8, <1>10, <1>12, <1>13 DEF AInv, Work, Walks

(* What was popped still counts for the user, until the viewer is drawn.    *)
LEMMA PoppedLine ==
    ASSUME AInv, req.pc = "render", Uncommitted = {}
    PROVE  /\ Present = takeStructuralSnapshot(req.base)
           /\ req.dir = "undo" => Past = Append(undo, req.entry) /\ Future = redo
           /\ req.dir = "redo" => Past = undo /\ Future = Append(redo, req.entry)
BY DEF Past, Present, Future, Popped

LEMMA UndoRendersStep ==
    ASSUME AInv, UndoRenders
    PROVE  AInv' /\ Walks
<1>1. /\ Served' /\ Busy = {} /\ Busy' = {} /\ Uncommitted = {} /\ Uncommitted' = {}
      /\ Solo' /\ Based' /\ calls' = calls
      /\ \A k \in Calls : ~Written(k) /\ ~Written(k)'
  BY UndoIsAlone DEF UndoStep
<1>2. /\ req.pc = "render" /\ req.dir \in {"undo", "redo"} /\ req.saved = saved
      /\ takeStructuralSnapshot(nb) = req.entry /\ IsSnapshot(req.entry)
      /\ IsHistory(undo) /\ IsHistory(redo)
  BY DEF UndoRenders, AInv, Work, Asked, Line
<1>3. PICK now : now = takeStructuralSnapshot(req.base)
  OBVIOUS
<1>4. /\ viewer' = [ok |-> TRUE, cells |-> req.entry] /\ nb' = nb /\ UNCHANGED file
      /\ modified' = (req.entry # req.saved) /\ Finish
      /\ IF req.dir = "undo" THEN redo' = Append(redo, now) /\ UNCHANGED undo
                             ELSE undo' = Append(undo, now) /\ UNCHANGED redo
  BY <1>3 DEF UndoRenders, Opposite
<1>5. req'.pc \in {"off", "start"} /\ Asked'
  BY <1>4, FinishIs DEF Asked
<1>6. Drawn'
  BY <1>2, <1>4 DEF Drawn
<1>7. Filed'
  <2>1. saved = takeStructuralSnapshot(disk)
    BY <1>1 DEF AInv, Filed
  <2>2. ~modified' => takeStructuralSnapshot(nb') = takeStructuralSnapshot(disk')
    BY <1>2, <1>4, <2>1 DEF file
  <2> QED BY <1>1, <1>4, <2>1, <2>2 DEF Filed, file
<1>8. Line'
  <2>1. IsSnapshot(now)
    BY <1>3, SnapshotIs
  <2>2. IsHistory(undo') /\ IsHistory(redo')
    BY <1>2, <1>4, <2>1, HistoryGrows
  <2> QED BY <1>1, <2>2 DEF Line
<1>9. /\ Past' = undo' /\ Future' = redo' /\ Present' = req.entry /\ Present = now
  BY <1>1, <1>2, <1>3, <1>4, <1>5 DEF Past, Future, Present, Popped
<1>10. CASE req.dir = "undo"
  <2>1. Past = Append(undo, req.entry) /\ Future = redo
    BY <1>1, <1>2, <1>10, PoppedLine
  <2>2. Past # <<>> /\ Front(Past) = undo /\ Last(Past) = req.entry
    BY <1>2, <2>1, PushedAndPopped DEF IsHistory
  <2>3. Undoes
    BY <1>4, <1>9, <1>10, <2>1, <2>2 DEF Undoes
  <2> QED BY <1>1, <1>5, <1>6, <1>7, <1>8, <2>3 DEF AInv, Work, Walks
<1>11. CASE req.dir = "redo"
  <2>1. Past = undo /\ Future = Append(redo, req.entry)
    BY <1>1, <1>2, <1>11, PoppedLine
  <2>2. Future # <<>> /\ Front(Future) = redo /\ Last(Future) = req.entry
    BY <1>2, <2>1, PushedAndPopped DEF IsHistory
  <2>3. Redoes
    BY <1>4, <1>9, <1>11, <2>1, <2>2 DEF Redoes
  <2> QED BY <1>1, <1>5, <1>6, <1>7, <1>8, <2>3 DEF AInv, Work, Walks
<1> QED BY <1>2, <1>10, <1>11

LEMMA UndoThrowsStep ==
    ASSUME AInv, UndoThrows
    PROVE  AInv' /\ Walks
<1>1. /\ Served' /\ Busy = {} /\ Busy' = {} /\ Uncommitted = {} /\ Uncommitted' = {}
      /\ Solo' /\ Based' /\ calls' = calls
      /\ \A k \in Calls : ~Written(k) /\ ~Written(k)'
  BY UndoIsAlone DEF UndoStep
<1>2. /\ req.pc = "render" /\ req.dir \in {"undo", "redo"} /\ IsSnapshot(req.entry)
      /\ IsHistory(undo) /\ IsHistory(redo)
  BY DEF UndoThrows, AInv, Work, Asked, Line
<1>3. PICK now : now = takeStructuralSnapshot(req.base)
  OBVIOUS
<1>4. /\ nb' = restoreStructural(req.base, now) /\ queue' = queue
      /\ req' = [req EXCEPT !.pc = "redraw"] /\ UNCHANGED file
      /\ viewer' = [viewer EXCEPT !.ok = FALSE] /\ wiped' = TRUE
      /\ IF req.dir = "undo" THEN undo' = Append(undo, req.entry) /\ UNCHANGED redo
                             ELSE redo' = Append(redo, req.entry) /\ UNCHANGED undo
  BY <1>3 DEF UndoThrows, HalfDrawn
<1>5. /\ req'.pc = "redraw" /\ req'.dir = req.dir /\ req'.base = req.base
  BY <1>4 DEF AInv, Work, Served, Shape, IdleReq
<1>6. takeStructuralSnapshot(nb') = now
  BY <1>3, <1>4, SnapshotIs, RestoredIs
<1>7. Asked'
  BY <1>2, <1>3, <1>4, <1>5, <1>6 DEF AInv, Work, Asked
<1>8. Drawn' /\ Filed'
  <2>1. Drawn'
    BY <1>4, <1>5 DEF AInv, Drawn, Undrawn
  <2>2. Filed'
    BY <1>1, <1>4 DEF AInv, Filed, file
  <2> QED BY <2>1, <2>2
<1>9. Line'
  <2>1. IsHistory(undo') /\ IsHistory(redo')
    BY <1>2, <1>4, HistoryGrows
  <2> QED BY <1>1, <2>1 DEF Line
<1>10. Stays
  <2>1. Past' = undo' /\ Future' = redo' /\ Present' = now
    BY <1>1, <1>5, <1>6 DEF Past, Future, Present, Popped
  <2>2. Present = now /\ Past = undo' /\ Future = redo'
    BY <1>1, <1>2, <1>3, <1>4, PoppedLine
  <2> QED BY <2>1, <2>2 DEF Stays
<1> QED BY <1>1, <1>7, <1>8, <1>9, <1>10 DEF AInv, Work, Walks

(* The notebook that was restored is drawn again, or not.                   *)
LEMMA RedrawsStep ==
    ASSUME AInv, UndoRedraws \/ UndoBroken
    PROVE  AInv' /\ Walks
<1>1. /\ Served' /\ Busy = {} /\ Busy' = {} /\ Uncommitted = {} /\ Uncommitted' = {}
      /\ Solo' /\ Based' /\ calls' = calls
      /\ \A k \in Calls : ~Written(k) /\ ~Written(k)'
  BY UndoIsAlone DEF UndoStep
<1>2. /\ req.pc = "redraw" /\ Finish /\ UNCHANGED <<nb, history, file>> /\ wiped' = TRUE
  BY DEF UndoRedraws, UndoBroken, HalfDrawn
<1>3. takeStructuralSnapshot(nb) = takeStructuralSnapshot(req.base)
  BY <1>2 DEF AInv, Work, Asked
<1>4. req'.pc \in {"off", "start"} /\ Asked'
  BY <1>2, FinishIs DEF Asked
<1>5. Drawn'
  <2>1. CASE UndoRedraws
    BY <1>2, <1>3, <2>1 DEF UndoRedraws, Drawn
  <2>2. CASE UndoBroken
    <3>1. viewer' = [viewer EXCEPT !.ok = FALSE]
      BY <2>2 DEF UndoBroken, HalfDrawn
    <3> QED BY <3>1 DEF AInv, Drawn
  <2> QED BY <2>1, <2>2
<1>6. Filed'
  BY <1>1, <1>2 DEF AInv, Filed, file
<1>7. Line'
  BY <1>1, <1>2 DEF AInv, Line, history
<1>8. Stays
  BY <1>1, <1>2, <1>4, Untouched DEF history
<1> QED BY <1>1, <1>4, <1>5, <1>6, <1>7, <1>8 DEF AInv, Work, Walks

LEMMA ReopenStep ==
    ASSUME AInv, Reopen
    PROVE  AInv' /\ Walks
<1>1. /\ Busy = {} /\ ~inFlight /\ UNCHANGED <<requests, calls, disk>> /\ nb' = disk
      /\ saved' = takeStructuralSnapshot(disk) /\ undo' = <<>> /\ redo' = <<>>
      /\ viewer' = [ok |-> TRUE, cells |-> takeStructuralSnapshot(disk)]
  BY DEF Reopen, Quiet
<1>2. req.pc = "off"
  BY <1>1 DEF AInv, Work, Served, QueueServed
<1>3. /\ Busy' = {} /\ Uncommitted' = {} /\ ~Undrawn'
      /\ \A k \in Calls : ~Written(k)'
  BY <1>1, <1>2 DEF Busy, Uncommitted, Undrawn, Written, requests
<1>4. Served'
  BY <1>1 DEF AInv, Work, Served, Shape, QueueServed, requests
<1>5. Solo' /\ Based' /\ Asked'
  BY <1>1, <1>2, <1>3 DEF AInv, Work, Solo, Based, Asked, requests
<1>6. Drawn' /\ Filed'
  BY <1>1, <1>3 DEF Drawn, Filed
<1>7. Line'
  BY <1>1, <1>3, NoHistory DEF Line
<1>8. Restarts
  BY <1>1, <1>2, <1>3 DEF Restarts, Past, Future, Popped, requests
<1> QED BY <1>4, <1>5, <1>6, <1>7, <1>8 DEF AInv, Work, Walks

LEMMA InitAInv == Init => AInv /\ Past = <<>> /\ Future = <<>>
<1> SUFFICES ASSUME Init PROVE AInv /\ Past = <<>> /\ Future = <<>>
  OBVIOUS
<1>1. PICK f \in Files :
          /\ nb = f /\ disk = f /\ saved = takeStructuralSnapshot(f)
          /\ viewer = [ok |-> TRUE, cells |-> takeStructuralSnapshot(f)]
  BY DEF Init
<1>2. undo = <<>> /\ redo = <<>> /\ queue = <<>> /\ ~inFlight /\ req = IdleReq
  BY DEF Init
<1>3. Served
  BY InitShape
<1>4. \A k \in Calls : calls[k].pc = "off"
  BY DEF Init, IdleCall
<1>5. Busy = {} /\ Uncommitted = {} /\ \A k \in Calls : ~Written(k)
  BY <1>4 DEF Busy, Uncommitted, Written
<1>6. req.pc = "off" /\ req.dir = "undo"
  BY <1>2 DEF IdleReq
<1>7. Solo /\ Based
  BY <1>5 DEF Solo, Based
<1>8. Asked
  <2>1. <<>> \in Seq({"undo", "redo"})
    OBVIOUS
  <2> QED BY <1>2, <1>6, <2>1 DEF Asked
<1>9. Line
  BY <1>2, <1>5, NoHistory DEF Line
<1>10. Drawn /\ Filed
  BY <1>1, <1>5 DEF Drawn, Filed
<1>11. Past = <<>> /\ Future = <<>>
  BY <1>2, <1>5, <1>6 DEF Past, Future, Popped
<1> QED BY <1>3, <1>7, <1>8, <1>9, <1>10, <1>11 DEF AInv, Work

LEMMA AloneStep ==
    ASSUME AInv, Alone, [Next]_vars
    PROVE  AInv' /\ Walks
<1>1. ASSUME NEW k \in Calls, EditBegins(k) PROVE AInv' /\ Walks
  BY <1>1, EditBeginsStep
<1>2. ASSUME NEW k \in Calls, SaveBegins(k) \/ ViewBegins(k) PROVE AInv' /\ Walks
  BY <1>2, OtherBeginsStep
<1>3. ASSUME NEW k \in Calls, CallStep(k) PROVE AInv' /\ Walks
  BY <1>3, EditPushesStep, EditEndsStep, EditDrawsStep, SaveStep, ViewStep DEF CallStep
<1>4. ASSUME NEW dir \in {"undo", "redo"}, Enqueue(dir) PROVE AInv' /\ Walks
  BY <1>4, EnqueueStep
<1>5. CASE UndoStep
  BY <1>5, UndoWaitsStep, UndoPopsStep, UndoRendersStep, UndoThrowsStep, RedrawsStep
     DEF UndoStep
<1>6. CASE Reopen
  BY <1>6, ReopenStep
<1>7. CASE UNCHANGED vars
  <2>1. UNCHANGED <<nb, history, requests, calls, screen, file>>
    BY <1>7 DEF vars, history, requests, screen, file
  <2>2. Served'
    BY <1>7, ServedStep DEF AInv, Work
  <2>3. UNCHANGED <<Busy, Uncommitted>> /\ (Undrawn' <=> Undrawn)
        /\ \A k \in Calls : Written(k)' <=> Written(k)
    BY <2>1 DEF Busy, Uncommitted, Undrawn, Rendering, Written, requests
  <2>4. Solo' /\ Based' /\ Asked'
    BY <2>1, <2>3 DEF AInv, Work, Solo, Based, Asked, Rendering, requests, file
  <2>5. Line'
    BY <2>1, <2>3 DEF AInv, Line, Pushed, history
  <2>6. Drawn'
    BY <2>1, <2>3 DEF AInv, Drawn, screen
  <2>7. Filed'
    BY <2>1, <2>3 DEF AInv, Filed, screen, file
  <2>8. Stays
    BY <2>1, <2>3 DEF Stays, Past, Present, Future, Was, Popped, history, requests
  <2> QED BY <2>2, <2>4, <2>5, <2>6, <2>7, <2>8 DEF AInv, Work, Walks
<1> QED BY <1>1, <1>2, <1>3, <1>4, <1>5, <1>6, <1>7 DEF Next

LEMMA SpecAlone == ASSUME Alone PROVE Spec => []AInv
<1>1. Init => AInv
  BY InitAInv
<1>2. AInv /\ [Next]_vars => AInv'
  BY AloneStep
<1> QED BY <1>1, <1>2, PTL DEF Spec

(* Undo and redo walk along one line of notebooks (contracts/undo-history.ts*)
(* and doc/europa-commands.txt), through entries that are pushed before the *)
(* notebook is stored, calls that throw and undos that are rolled back.     *)
THEOREM UndoWalksTheLine ==
    ASSUME Alone
    PROVE  Spec => RefinesTimeline
<1>1. Init => Shown!Start
  BY InitAInv, StartIs
<1>2. AInv /\ [Next]_vars =>
          [Shown!Edit \/ Shown!Undo \/ Shown!Redo \/ Shown!Reopen]_(Shown!line)
  BY AloneStep, WalksIs
<1> QED BY <1>1, <1>2, SpecAlone, PTL DEF Spec, RefinesTimeline, Shown!Walk

(* When everything has ended, the viewer shows the notebook, unless drawing *)
(* it has failed (dispatcher/view.ts, dispatcher/undo.ts, dispatcher/cell/).*)
THEOREM ViewerShowsTheNotebook ==
    ASSUME Alone
    PROVE  Spec => []ViewerCurrent
<1>1. AInv => ViewerCurrent
  <2> SUFFICES ASSUME AInv, Quiet, viewer.ok
               PROVE  viewer.cells = takeStructuralSnapshot(nb)
    BY DEF ViewerCurrent
  <2>1. ~Undrawn
    BY DEF AInv, Work, Served, QueueServed, Quiet, Undrawn
  <2> QED BY <2>1 DEF AInv, Drawn
<1> QED BY <1>1, SpecAlone, PTL

(* When everything has ended, an unmodified buffer has the structure that   *)
(* is on disk, whatever was saved, undone and rolled back, unless a         *)
(* re-rendering cleared the flag (dispatcher/undo.ts, lastSavedSnapshot).   *)
THEOREM UnmodifiedIsSaved ==
    ASSUME Alone
    PROVE  Spec => []CleanMatchesDisk
<1>1. AInv => CleanMatchesDisk
  <2> SUFFICES ASSUME AInv, Quiet, ~modified, ~wiped
               PROVE  takeStructuralSnapshot(nb) = takeStructuralSnapshot(disk)
    BY DEF CleanMatchesDisk
  <2>1. ~Undrawn
    BY DEF AInv, Work, Served, QueueServed, Quiet, Undrawn
  <2> QED BY <2>1 DEF AInv, Filed
<1> QED BY <1>1, SpecAlone, PTL

(* What a cell operation replaces is what its undo will restore             *)
(* (contracts/undo-history.ts), as long as it runs alone: that two overlap  *)
(* is all that the counterexample of EditingOverlap.cfg needs.              *)
THEOREM UndoRestoresTheReplaced ==
    ASSUME Alone
    PROVE  Spec => SnapshotPrecedes
<1>1. ASSUME AInv, NEW k \in Calls, calls[k].pc = "commit"
      PROVE  Last(undo) = takeStructuralSnapshot(nb)
  <2>1. k \in Uncommitted
    BY <1>1, UncommittedBusy DEF Uncommitted, Busy
  <2>2. PICK past : IsHistory(past) /\ undo = Capped(Append(past, takeStructuralSnapshot(nb)))
    BY <1>1, <2>1 DEF AInv, Line, Pushed
  <2> QED BY <2>2, CappedLast DEF IsHistory
<1>2. AInv => \A k \in Calls : calls[k].pc = "commit" /\ calls'[k].pc = "render"
                  => Last(undo) = takeStructuralSnapshot(nb)
  BY <1>1
<1> QED BY <1>2, SpecAlone, PTL DEF Spec, SnapshotPrecedes

-----------------------------------------------------------------------------
(* Sequences that are joined, cut and searched.                            *)

LEMMA LeastNatural ==
    ASSUME NEW S, S \subseteq Nat, S # {}
    PROVE  \E n \in S : \A m \in S : n <= m
<1> DEFINE R == {p \in Nat \X Nat : p[1] < p[2]}
<1>1. IsWellFoundedOn(R, Nat)
  BY NatLessThanWellFounded DEF OpToRel
<1> HIDE DEF R
<1>2. PICK n \in S : \A m \in S : ~ (<<m, n>> \in R)
  BY <1>1, WFMin
<1>3. \A m \in S : <<m, n>> \in Nat \X Nat
  OBVIOUS
<1>4. \A m \in S : ~ (m < n)
  BY <1>2, <1>3 DEF R
<1> QED
  BY <1>4

LEMMA SeqIs ==
    ASSUME NEW s, IsSeq(s)
    PROVE  Len(s) \in Nat /\ DOMAIN s = 1 .. Len(s) /\ s = [i \in 1 .. Len(s) |-> s[i]]
BY DEF IsSeq

LEMMA MadeSeq ==
    ASSUME NEW n \in Nat, NEW s, s = [i \in 1 .. n |-> s[i]]
    PROVE  IsSeq(s) /\ Len(s) = n
<1> DEFINE S == {s[i] : i \in 1 .. n}
<1>1. [i \in 1 .. n |-> s[i]] \in Seq(S)
  OBVIOUS
<1>2. s \in Seq(S)
  BY <1>1
<1>3. Len(s) = n
  BY <1>2
<1> HIDE DEF S
<1> QED
  BY <1>2, <1>3 DEF IsSeq

LEMMA OneIsSeq ==
    ASSUME NEW e
    PROVE  IsSeq(<<e>>) /\ Len(<<e>>) = 1 /\ <<e>>[1] = e
<1>1. <<e>> \in Seq({e}) /\ Len(<<e>>) = 1 /\ <<e>>[1] = e
  OBVIOUS
<1> QED
  BY <1>1 DEF IsSeq

LEMMA Joined ==
    ASSUME NEW s, NEW t, IsSeq(s), IsSeq(t)
    PROVE  /\ IsSeq(s \o t) /\ Len(s \o t) = Len(s) + Len(t)
           /\ \A i \in 1 .. Len(s) : (s \o t)[i] = s[i]
           /\ \A i \in 1 .. Len(t) : (s \o t)[Len(s) + i] = t[i]
<1>1. PICK A, B : s \in Seq(A) /\ t \in Seq(B)
  BY DEF IsSeq
<1> DEFINE S == A \cup B
<1>2. ASSUME NEW r, NEW R, r \in Seq(R), R \subseteq S PROVE r \in Seq(S)
  <2>1. Len(r) \in Nat /\ r = [i \in 1 .. Len(r) |-> r[i]] /\ \A i \in 1 .. Len(r) : r[i] \in R
    BY <1>2
  <2>2. [i \in 1 .. Len(r) |-> r[i]] \in Seq(S)
    BY <1>2, <2>1
  <2> QED BY <2>1, <2>2
<1>3. s \in Seq(S) /\ t \in Seq(S)
  BY <1>1, <1>2
<1> HIDE DEF S
<1>4. /\ s \o t \in Seq(S) /\ Len(s \o t) = Len(s) + Len(t)
      /\ \A i \in 1 .. Len(s) + Len(t) :
            (s \o t)[i] = IF i <= Len(s) THEN s[i] ELSE t[i - Len(s)]
  BY <1>3, ConcatProperties
<1>5. Len(s) \in Nat /\ Len(t) \in Nat
  BY <1>3
<1>6. \A i \in 1 .. Len(t) : (s \o t)[Len(s) + i] = t[i]
  <2> SUFFICES ASSUME NEW i \in 1 .. Len(t) PROVE (s \o t)[Len(s) + i] = t[i]
    OBVIOUS
  <2>1. Len(s) + i \in 1 .. Len(s) + Len(t) /\ ~(Len(s) + i <= Len(s)) /\ Len(s) + i - Len(s) = i
    BY <1>5
  <2> QED BY <1>4, <2>1
<1>7. \A i \in 1 .. Len(s) : (s \o t)[i] = s[i]
  BY <1>4, <1>5
<1>8. IsSeq(s \o t)
  BY ONLY <1>4 DEF IsSeq
<1> QED
  BY ONLY <1>4, <1>6, <1>7, <1>8

LEMMA Cut ==
    ASSUME NEW s, IsSeq(s), NEW m \in 1 .. Len(s) + 1, NEW n \in m - 1 .. Len(s)
    PROVE  /\ IsSeq(SubSeq(s, m, n)) /\ Len(SubSeq(s, m, n)) = n - m + 1
           /\ \A i \in 1 .. n - m + 1 : SubSeq(s, m, n)[i] = s[m + i - 1]
<1>1. PICK S : s \in Seq(S)
  BY DEF IsSeq
<1>2. Len(s) \in Nat /\ \A i \in m .. n : s[i] \in S
  BY <1>1
<1>3. /\ SubSeq(s, m, n) \in Seq(S)
      /\ Len(SubSeq(s, m, n)) = IF m <= n THEN n - m + 1 ELSE 0
      /\ \A i \in 1 .. n - m + 1 : SubSeq(s, m, n)[i] = s[m + i - 1]
  BY <1>2, SubSeqProperties
<1>4. Len(SubSeq(s, m, n)) = n - m + 1
  BY <1>2, <1>3
<1> QED
  BY <1>3, <1>4 DEF IsSeq

LEMMA JoinedAround ==
    ASSUME NEW s, NEW one, NEW t, IsSeq(s), IsSeq(t), NEW l \in Nat, Len(s) = l,
           NEW o \in Nat, Len(t) = o
    PROVE  /\ IsSeq(s \o <<one>> \o t) /\ Len(s \o <<one>> \o t) = l + 1 + o
           /\ \A i \in 1 .. l : (s \o <<one>> \o t)[i] = s[i]
           /\ (s \o <<one>> \o t)[l + 1] = one
           /\ \A i \in 1 .. o : (s \o <<one>> \o t)[l + 1 + i] = t[i]
<1>1. /\ IsSeq(s \o <<one>>) /\ Len(s \o <<one>>) = l + 1
      /\ \A i \in 1 .. l : (s \o <<one>>)[i] = s[i]
      /\ (s \o <<one>>)[l + 1] = one
  BY Joined, OneIsSeq
<1>7. PICK k \in Nat : k = l + 1
  OBVIOUS
<1>2. PICK u : u = s \o <<one>> /\ k = l + 1
  BY <1>7
<1>5. IsSeq(u) /\ Len(u) = k
  BY ONLY <1>1, <1>2
<1>6. /\ IsSeq(u \o t) /\ Len(u \o t) = k + o
      /\ \A i \in 1 .. k : (u \o t)[i] = u[i]
      /\ \A i \in 1 .. o : (u \o t)[k + i] = t[i]
  BY ONLY <1>5, IsSeq(t), Len(t) = o, Joined
<1>3. /\ IsSeq(u \o t) /\ Len(u \o t) = l + 1 + o
      /\ \A i \in 1 .. l + 1 : (u \o t)[i] = u[i]
      /\ \A i \in 1 .. o : (u \o t)[l + 1 + i] = t[i]
  BY ONLY <1>2, <1>6, Zenon
<1>4. l + 1 \in 1 .. l + 1 /\ \A i \in 1 .. l : i \in 1 .. l + 1
  OBVIOUS
<1> QED BY ONLY <1>1, <1>2, <1>3, <1>4

LEMMA InsertedIs ==
    ASSUME NEW s, IsSeq(s), NEW n \in Nat, Len(s) = n, NEW i \in 1 .. n + 1, NEW e
    PROVE  /\ IsSeq(InsertAt(s, i, e)) /\ Len(InsertAt(s, i, e)) = n + 1
           /\ \A j \in 1 .. n + 1 : InsertAt(s, i, e)[j] =
                 IF j < i THEN s[j] ELSE IF j = i THEN e ELSE s[j - 1]
<1>0. PICK k \in Nat, l \in Nat : k = i - 1 /\ l = n - i + 1
  OBVIOUS
<1>1. PICK a, b, t :
         /\ k = i - 1 /\ l = n - i + 1
         /\ a = SubSeq(s, 1, i - 1) /\ b = SubSeq(s, i, n) /\ t = InsertAt(s, i, e)
  BY ONLY <1>0
<1>2. IsSeq(a) /\ Len(a) = k /\ \A j \in 1 .. k : a[j] = s[j]
  <2>1. 1 \in 1 .. Len(s) + 1 /\ i - 1 \in 1 - 1 .. Len(s) /\ i - 1 - 1 + 1 = i - 1
        /\ \A j \in 1 .. i - 1 : 1 + j - 1 = j
    OBVIOUS
  <2>2. /\ IsSeq(a) /\ Len(a) = i - 1 - 1 + 1
        /\ \A j \in 1 .. i - 1 - 1 + 1 : a[j] = s[1 + j - 1]
    BY ONLY <1>1, <2>1, IsSeq(s), Cut
  <2> QED BY ONLY <1>1, <2>1, <2>2, Zenon
<1>3. IsSeq(b) /\ Len(b) = l /\ \A j \in 1 .. l : b[j] = s[i + j - 1]
  <2>1. i \in 1 .. Len(s) + 1 /\ n \in i - 1 .. Len(s)
    OBVIOUS
  <2>2. IsSeq(b) /\ Len(b) = n - i + 1 /\ \A j \in 1 .. n - i + 1 : b[j] = s[i + j - 1]
    BY ONLY <1>1, <2>1, IsSeq(s), Cut
  <2> QED BY ONLY <1>1, <2>2, Zenon
<1>4. t = a \o <<e>> \o b
  <2>1. InsertAt(s, i, e) = SubSeq(s, 1, i - 1) \o <<e>> \o SubSeq(s, i, Len(s))
    BY Zenon DEF InsertAt
  <2> QED BY ONLY <1>1, <2>1, Len(s) = n, Zenon
<1>5. /\ IsSeq(t) /\ Len(t) = k + 1 + l
      /\ \A j \in 1 .. k : t[j] = a[j]
      /\ t[k + 1] = e
      /\ \A j \in 1 .. l : t[k + 1 + j] = b[j]
  <2>1. IsSeq(a) /\ IsSeq(b) /\ Len(a) = k /\ Len(b) = l
    BY ONLY <1>2, <1>3
  <2>2. /\ IsSeq(a \o <<e>> \o b) /\ Len(a \o <<e>> \o b) = k + 1 + l
        /\ \A j \in 1 .. k : (a \o <<e>> \o b)[j] = a[j]
        /\ (a \o <<e>> \o b)[k + 1] = e
        /\ \A j \in 1 .. l : (a \o <<e>> \o b)[k + 1 + j] = b[j]
    BY ONLY <2>1, k \in Nat, l \in Nat, JoinedAround
  <2> QED BY ONLY <1>4, <2>2, Zenon
<1>6. k + 1 + l = n + 1
  BY ONLY <1>1, n \in Nat, i \in 1 .. n + 1
<1>7. ASSUME NEW j \in 1 .. n + 1
      PROVE  t[j] = IF j < i THEN s[j] ELSE IF j = i THEN e ELSE s[j - 1]
  <2>1. CASE j < i
    <3>1. j \in 1 .. k
      BY ONLY <1>1, <2>1, n \in Nat, i \in 1 .. n + 1, j \in 1 .. n + 1
    <3> QED BY ONLY <1>2, <1>5, <2>1, <3>1
  <2>2. CASE j = i
    <3>1. k + 1 = j /\ ~ (j < i)
      BY ONLY <1>1, <2>2, n \in Nat, i \in 1 .. n + 1
    <3> QED BY ONLY <1>5, <2>2, <3>1
  <2>3. CASE j > i
    <3>1. PICK h \in 1 .. l : k + 1 + h = j /\ i + h - 1 = j - 1
      <4>1. j - i \in 1 .. l /\ k + 1 + (j - i) = j /\ i + (j - i) - 1 = j - 1
        BY ONLY <1>1, <2>3, n \in Nat, i \in 1 .. n + 1, j \in 1 .. n + 1
      <4> QED BY ONLY <4>1
    <3>2. t[j] = s[j - 1]
      BY ONLY <1>3, <1>5, <3>1, Zenon
    <3>3. ~ (j < i) /\ j # i
      BY ONLY <2>3, n \in Nat, i \in 1 .. n + 1, j \in 1 .. n + 1
    <3> QED BY ONLY <3>2, <3>3
  <2>4. j < i \/ j = i \/ j > i
    BY ONLY n \in Nat, i \in 1 .. n + 1, j \in 1 .. n + 1
  <2> QED BY ONLY <2>1, <2>2, <2>3, <2>4
<1> QED
  BY ONLY <1>1, <1>5, <1>6, <1>7, Zenon

LEMMA RemovedIs ==
    ASSUME NEW s, IsSeq(s), NEW n \in Nat, Len(s) = n, NEW i \in 1 .. n
    PROVE  /\ IsSeq(RemoveAt(s, i)) /\ Len(RemoveAt(s, i)) = n - 1
           /\ \A j \in 1 .. n - 1 : RemoveAt(s, i)[j] = IF j < i THEN s[j] ELSE s[j + 1]
<1>0. PICK k \in Nat, l \in Nat, m \in Nat : k = i - 1 /\ l = n - i /\ m = i + 1
  OBVIOUS
<1>1. PICK a, b, t :
         /\ k = i - 1 /\ l = n - i /\ m = i + 1
         /\ a = SubSeq(s, 1, i - 1) /\ b = SubSeq(s, m, n) /\ t = RemoveAt(s, i)
  BY ONLY <1>0
<1>2. IsSeq(a) /\ Len(a) = k /\ \A j \in 1 .. k : a[j] = s[j]
  <2>1. 1 \in 1 .. Len(s) + 1 /\ i - 1 \in 1 - 1 .. Len(s) /\ i - 1 - 1 + 1 = i - 1
        /\ \A j \in 1 .. i - 1 : 1 + j - 1 = j
    OBVIOUS
  <2>2. /\ IsSeq(a) /\ Len(a) = i - 1 - 1 + 1
        /\ \A j \in 1 .. i - 1 - 1 + 1 : a[j] = s[1 + j - 1]
    BY ONLY <1>1, <2>1, IsSeq(s), Cut
  <2> QED BY ONLY <1>1, <2>1, <2>2, Zenon
<1>3. IsSeq(b) /\ Len(b) = l /\ \A j \in 1 .. l : b[j] = s[m + j - 1]
  <2>1. m \in 1 .. Len(s) + 1 /\ n \in m - 1 .. Len(s) /\ n - m + 1 = l
    BY ONLY <1>1, n \in Nat, i \in 1 .. n, Len(s) = n
  <2>2. IsSeq(b) /\ Len(b) = n - m + 1 /\ \A j \in 1 .. n - m + 1 : b[j] = s[m + j - 1]
    BY ONLY <1>1, <2>1, IsSeq(s), Cut
  <2> QED BY ONLY <2>1, <2>2, Zenon
<1>4. t = a \o b
  <2>1. RemoveAt(s, i) = SubSeq(s, 1, i - 1) \o SubSeq(s, i + 1, Len(s))
    BY Zenon DEF RemoveAt
  <2> QED BY ONLY <1>1, <2>1, Len(s) = n, Zenon
<1>5. /\ IsSeq(t) /\ Len(t) = k + l
      /\ \A j \in 1 .. k : t[j] = a[j]
      /\ \A j \in 1 .. l : t[k + j] = b[j]
  BY ONLY <1>2, <1>3, <1>4, k \in Nat, l \in Nat, Joined, SMTT(30)
<1>6. k + l = n - 1
  BY ONLY <1>1, n \in Nat, i \in 1 .. n
<1>7. ASSUME NEW j \in 1 .. n - 1 PROVE t[j] = IF j < i THEN s[j] ELSE s[j + 1]
  <2>1. CASE j < i
    <3>1. j \in 1 .. k
      BY ONLY <1>1, <2>1, n \in Nat, i \in 1 .. n, j \in 1 .. n - 1
    <3> QED BY ONLY <1>2, <1>5, <2>1, <3>1
  <2>2. CASE ~ (j < i)
    <3>1. PICK h \in 1 .. l : k + h = j /\ m + h - 1 = j + 1
      <4>1. j - k \in 1 .. l /\ k + (j - k) = j /\ m + (j - k) - 1 = j + 1
        BY ONLY <1>1, <2>2, n \in Nat, i \in 1 .. n, j \in 1 .. n - 1
      <4> QED BY ONLY <4>1
    <3>2. t[j] = s[j + 1]
      BY ONLY <1>3, <1>5, <3>1, Zenon
    <3> QED BY ONLY <2>2, <3>2
  <2> QED BY ONLY <2>1, <2>2
<1> QED
  BY ONLY <1>1, <1>5, <1>6, <1>7, Zenon

LEMMA LeastIs ==
    ASSUME NEW S, S \subseteq Nat, S # {}
    PROVE  Min(S) \in S
<1>1. \E n \in S : \A m \in S : n <= m
  BY LeastNatural
<1> QED
  BY <1>1 DEF Min

LEMMA IndexIs ==
    ASSUME NEW cells, IsSeq(cells), NEW k \in 1 .. Len(cells)
    PROVE  Index(cells, cells[k].id) \in 1 .. Len(cells)
           /\ cells[Index(cells, cells[k].id)].id = cells[k].id
<1> DEFINE S == {i \in 1 .. Len(cells) : cells[i].id = cells[k].id}
<1>1. Len(cells) \in Nat
  BY SeqIs
<1>2. S \subseteq Nat /\ k \in S
  BY <1>1
<1>3. Index(cells, cells[k].id) = IF S # {} THEN Min(S) ELSE 0
  BY DEF Index, SelectInSeq
<1>4. Index(cells, cells[k].id) \in S
  <2> HIDE DEF S
  <2> QED BY <1>2, <1>3, LeastIs
<1> QED
  BY <1>4

LEMMA FoundIs ==
    ASSUME NEW cells, IsSeq(cells), NEW id \in CellIds(cells)
    PROVE  Index(cells, id) \in 1 .. Len(cells) /\ cells[Index(cells, id)].id = id
<1>1. PICK k \in 1 .. Len(cells) : cells[k].id = id
  BY SeqIs DEF CellIds
<1> QED
  BY <1>1, IndexIs

-----------------------------------------------------------------------------
(* Notebooks whose cells take nothing from other cells of an older notebook.*)
(* The ids given so far are up to n.                                        *)

Heir(c, old) ==
    \A i \in 1 .. Len(old) :
        old[i].id = c.id /\ old[i].cell_type = c.cell_type => old[i].outputs = c.outputs

SameOutputs(old, new) ==
    \A i \in DOMAIN old, j \in DOMAIN new :
        old[i].id = new[j].id /\ old[i].cell_type = new[j].cell_type
            => old[i].outputs = new[j].outputs

Good(c, n, old) ==
    /\ c = Cell(c.id, c.cell_type, c.source, c.outputs)
    /\ c.id \in 1 .. n
    /\ c.cell_type # "code" => c.outputs = NoOutputs
    /\ Heir(c, old)

Named(cells) ==
    IsSeq(cells) /\ \A i, j \in 1 .. Len(cells) : cells[i].id = cells[j].id => i = j

Book(cells, n, old) == Named(cells) /\ \A i \in 1 .. Len(cells) : Good(cells[i], n, old)

(* A snapshot of such a notebook.                                           *)
Shot(s, n) == Named(s) /\ \A i \in 1 .. Len(s) : s[i].id \in 1 .. n

LEMMA NamedDistinct == ASSUME NEW cells, Named(cells) PROVE Distinct(cells)
BY SeqIs DEF Named, Distinct

LEMMA CellIs ==
    ASSUME NEW id, NEW type, NEW source, NEW outputs, NEW c,
           c = Cell(id, type, source, outputs)
    PROVE  /\ c = Cell(c.id, c.cell_type, c.source, c.outputs)
           /\ c.id = id /\ c.cell_type = type /\ c.source = source /\ c.outputs = outputs
<1>1. c = [id |-> id, cell_type |-> type, source |-> source, outputs |-> outputs]
  BY DEF Cell
<1> QED
  BY ONLY <1>1 DEF Cell

LEMMA LaterIs ==
    ASSUME NEW cells, NEW old, NEW n \in Nat, Book(cells, n, old), NEW m \in Nat, n <= m
    PROVE  Book(cells, m, old)
<1>1. 1 .. n \subseteq 1 .. m
  OBVIOUS
<1>2. \A i \in 1 .. Len(cells) : Good(cells[i], m, old)
  BY <1>1 DEF Book, Good
<1> QED
  BY <1>2 DEF Book

LEMMA HeirOfItself ==
    ASSUME NEW cells, NEW old, NEW n, Book(cells, n, old)
    PROVE  Book(cells, n, cells)
<1>1. \A i \in 1 .. Len(cells) : Good(cells[i], n, old)
  BY DEF Book
<1>2. ASSUME NEW i \in 1 .. Len(cells) PROVE Heir(cells[i], cells)
  BY DEF Book, Named, Heir
<1>3. \A i \in 1 .. Len(cells) : Good(cells[i], n, cells)
  BY <1>1, <1>2 DEF Good
<1> QED
  BY <1>3 DEF Book

LEMMA BookKeeps ==
    ASSUME NEW old, NEW new, NEW n, Named(old), Book(new, n, old)
    PROVE  SameOutputs(old, new)
<1>1. DOMAIN old = 1 .. Len(old) /\ DOMAIN new = 1 .. Len(new)
  BY SeqIs DEF Book, Named
<1>2. \A j \in 1 .. Len(new) : Heir(new[j], old)
  BY DEF Book, Good
<1> QED
  BY <1>1, <1>2 DEF Heir, SameOutputs

Put(cells, i, c) == [cells EXCEPT ![i] = c]

(* A cell that is there for another of the same id.                         *)
LEMMA BookReplaced ==
    ASSUME NEW cells, NEW n, NEW old, Book(cells, n, old), NEW i \in 1 .. Len(cells),
           NEW c, Good(c, n, old), c.id = cells[i].id,
           NEW new, new = Put(cells, i, c)
    PROVE  Book(new, n, old) /\ Len(new) = Len(cells)
<1>1. PICK k \in Nat : Len(cells) = k
  BY SeqIs DEF Book, Named
<1>2. i \in 1 .. k /\ IsSeq(cells)
  BY <1>1 DEF Book, Named
<1>3. /\ IsSeq(new) /\ Len(new) = k
      /\ \A j \in 1 .. k : new[j] = IF j = i THEN c ELSE cells[j]
  <2>1. cells = [j \in 1 .. k |-> cells[j]]
    BY <1>1, <1>2, SeqIs
  <2>2. new = [j \in 1 .. k |-> new[j]] /\ \A j \in 1 .. k : new[j] = IF j = i THEN c ELSE cells[j]
    BY ONLY <1>2, <2>1, new = Put(cells, i, c) DEF Put
  <2> QED BY ONLY <2>2, k \in Nat, MadeSeq
<1>4. \A j \in 1 .. k : Good(new[j], n, old) /\ new[j].id = cells[j].id
  BY <1>1, <1>3 DEF Book
<1>5. \A j, h \in 1 .. k : new[j].id = new[h].id => j = h
  BY <1>1, <1>4 DEF Book, Named
<1> QED
  BY ONLY <1>1, <1>3, <1>4, <1>5 DEF Book, Named

(* A new cell.                                                              *)
LEMMA BookInserted ==
    ASSUME NEW cells, NEW n \in Nat, NEW old, Book(cells, n, old),
           NEW i \in 1 .. Len(cells) + 1,
           NEW c, Good(c, n + 1, old), c.id = n + 1,
           NEW new, new = InsertAt(cells, i, c)
    PROVE  Book(new, n + 1, old)
<1>1. PICK k \in Nat : Len(cells) = k
  BY SeqIs DEF Book, Named
<1>2. /\ IsSeq(new) /\ Len(new) = k + 1
      /\ \A j \in 1 .. k + 1 :
            new[j] = IF j < i THEN cells[j] ELSE IF j = i THEN c ELSE cells[j - 1]
  <2>1. IsSeq(cells) /\ i \in 1 .. k + 1
    BY <1>1 DEF Book, Named
  <2> QED BY ONLY <1>1, <2>1, new = InsertAt(cells, i, c), InsertedIs
<1>3. i \in 1 .. k + 1
  BY <1>1
<1>4. PICK m \in Nat : m = n + 1
  OBVIOUS
<1>5. Book(cells, m, old)
  BY <1>4, LaterIs
<1>6. Good(c, m, old)
  BY <1>4
<1> DEFINE was(j) == IF j < i THEN j ELSE j - 1
<1>7. ASSUME NEW j \in 1 .. k + 1, j # i
      PROVE  was(j) \in 1 .. k /\ new[j] = cells[was(j)]
  <2>1. was(j) \in 1 .. k
    BY ONLY <1>3, <1>7, k \in Nat
  <2>2. new[j] = cells[was(j)]
    BY ONLY <1>2, <1>7
  <2> QED BY ONLY <2>1, <2>2
<1>8. \A j, h \in 1 .. k + 1 : j # i /\ h # i /\ was(j) = was(h) => j = h
  BY ONLY <1>3, k \in Nat
<1> HIDE DEF was
<1>9. new[i] = c
  BY <1>2, <1>3
<1>10. \A j \in 1 .. k + 1 : Good(new[j], m, old)
  BY <1>1, <1>5, <1>6, <1>7, <1>9 DEF Book
<1>11. ASSUME NEW j \in 1 .. k + 1, j # i PROVE new[j].id # c.id
  <2>1. PICK id : id = new[j].id /\ id \in 1 .. n
    BY <1>1, <1>7, <1>11 DEF Book, Good
  <2>2. id # n + 1
    BY ONLY <2>1, n \in Nat
  <2> QED BY <2>1, <2>2
<1>12. \A j, h \in 1 .. k + 1 : new[j].id = new[h].id => j = h
  <2> SUFFICES ASSUME NEW j \in 1 .. k + 1, NEW h \in 1 .. k + 1, new[j].id = new[h].id
               PROVE  j = h
    OBVIOUS
  <2>1. CASE j = i
    BY <1>9, <1>11, <2>1
  <2>2. CASE h = i
    BY <1>9, <1>11, <2>2
  <2>3. CASE j # i /\ h # i
    <3>1. cells[was(j)].id = cells[was(h)].id /\ was(j) \in 1 .. k /\ was(h) \in 1 .. k
      BY <1>7, <2>3
    <3>2. was(j) = was(h)
      BY <1>1, <3>1 DEF Book, Named
    <3> QED BY <1>8, <2>3, <3>2
  <2> QED BY <2>1, <2>2, <2>3
<1>13. Book(new, m, old)
  BY ONLY <1>2, <1>10, <1>12 DEF Book, Named
<1> QED
  BY ONLY <1>4, <1>13

LEMMA BookRemoved ==
    ASSUME NEW cells, NEW n, NEW old, Book(cells, n, old), NEW i \in 1 .. Len(cells),
           NEW new, new = RemoveAt(cells, i)
    PROVE  Book(new, n, old)
<1>1. PICK k \in Nat : Len(cells) = k
  BY SeqIs DEF Book, Named
<1>2. /\ IsSeq(new) /\ Len(new) = k - 1
      /\ \A j \in 1 .. k - 1 : new[j] = IF j < i THEN cells[j] ELSE cells[j + 1]
  BY <1>1, RemovedIs DEF Book, Named
<1>3. i \in 1 .. k
  BY <1>1
<1> DEFINE was(j) == IF j < i THEN j ELSE j + 1
<1>4. ASSUME NEW j \in 1 .. k - 1
      PROVE  was(j) \in 1 .. k /\ new[j] = cells[was(j)]
  <2>1. was(j) \in 1 .. k
    BY ONLY <1>3, k \in Nat, j \in 1 .. k - 1
  <2>2. new[j] = cells[was(j)]
    BY ONLY <1>2, j \in 1 .. k - 1
  <2> QED BY ONLY <2>1, <2>2
<1>5. \A j, h \in 1 .. k - 1 : was(j) = was(h) => j = h
  BY ONLY <1>3, k \in Nat
<1> HIDE DEF was
<1>6. \A j \in 1 .. k - 1 : Good(new[j], n, old)
  BY <1>1, <1>4 DEF Book
<1>7. \A j, h \in 1 .. k - 1 : new[j].id = new[h].id => j = h
  BY <1>1, <1>4, <1>5 DEF Book, Named
<1> QED
  BY ONLY <1>2, <1>6, <1>7 DEF Book, Named

LEMMA BookSwapped ==
    ASSUME NEW cells, NEW n, NEW old, Book(cells, n, old), NEW i \in 1 .. Len(cells),
           NEW j \in 1 .. Len(cells), NEW new,
           new = [cells EXCEPT ![i] = cells[j], ![j] = cells[i]]
    PROVE  Book(new, n, old)
<1>1. PICK k \in Nat : Len(cells) = k
  BY SeqIs DEF Book, Named
<1>2. i \in 1 .. k /\ j \in 1 .. k
  BY <1>1
<1> DEFINE was(h) == IF h = j THEN i ELSE IF h = i THEN j ELSE h
<1>3. cells = [h \in 1 .. k |-> cells[h]]
  BY <1>1, SeqIs DEF Book, Named
<1>4. new = [h \in 1 .. k |-> new[h]] /\ \A h \in 1 .. k : new[h] = cells[was(h)]
  BY ONLY <1>2, <1>3, new = [cells EXCEPT ![i] = cells[j], ![j] = cells[i]]
<1>5. IsSeq(new) /\ Len(new) = k
  BY ONLY <1>4, k \in Nat, MadeSeq
<1>6. \A h \in 1 .. k : was(h) \in 1 .. k
  BY ONLY <1>2
<1>7. \A h, g \in 1 .. k : was(h) = was(g) => h = g
  OBVIOUS
<1> HIDE DEF was
<1>8. \A h \in 1 .. k : Good(new[h], n, old)
  BY <1>1, <1>4, <1>6 DEF Book
<1>9. \A h, g \in 1 .. k : new[h].id = new[g].id => h = g
  BY <1>1, <1>4, <1>6, <1>7 DEF Book, Named
<1> QED
  BY ONLY <1>5, <1>8, <1>9 DEF Book, Named

-----------------------------------------------------------------------------
(* What the operations make of a notebook.                                  *)

LEMMA NewCellIs ==
    ASSUME NEW cells, NEW n \in Nat, Book(cells, n, cells), NEW type, NEW source,
           NEW c, c = Cell(n + 1, type, source, NoOutputs)
    PROVE  Good(c, n + 1, cells) /\ c.id = n + 1
<1>1. /\ c = Cell(c.id, c.cell_type, c.source, c.outputs)
      /\ c.id = n + 1 /\ c.outputs = NoOutputs
  BY CellIs
<1>2. n + 1 \in 1 .. n + 1
  OBVIOUS
<1>3. ASSUME NEW i \in 1 .. Len(cells) PROVE cells[i].id # n + 1
  <2>1. PICK id : id = cells[i].id /\ id \in 1 .. n
    BY DEF Book, Good
  <2> QED BY <2>1
<1>4. Heir(c, cells)
  BY <1>1, <1>3 DEF Heir
<1> QED
  BY <1>1, <1>2, <1>4 DEF Good

LEMMA InsertCellIs ==
    ASSUME NEW cells, NEW n \in Nat, Book(cells, n, cells),
           NEW position, NEW type, NEW anchor, anchor \in CellIds(cells) \/ cells = <<>>,
           NEW new, new = insertCell(cells, position, type, anchor, n + 1)
    PROVE  Book(new, n + 1, cells)
<1>1. PICK blank : blank = Cell(n + 1, type, <<EmptyLine>>, NoOutputs)
  OBVIOUS
<1>2. Good(blank, n + 1, cells) /\ blank.id = n + 1
  BY <1>1, NewCellIs
<1>3. CASE cells = <<>>
  <2>1. new = <<blank>>
    BY <1>1, <1>3 DEF insertCell
  <2>2. IsSeq(new) /\ Len(new) = 1 /\ new[1] = blank
    BY ONLY <2>1, OneIsSeq
  <2>3. \A i \in 1 .. 1 : i = 1
    OBVIOUS
  <2> QED BY ONLY <1>2, <2>2, <2>3 DEF Book, Named
<1>4. CASE cells # <<>>
  <2>1. Index(cells, anchor) \in 1 .. Len(cells)
    BY <1>4, FoundIs DEF Book, Named
  <2>2. Len(cells) \in Nat
    BY SeqIs DEF Book, Named
  <2>3. PICK i : /\ i = IF position = "after" THEN Index(cells, anchor) + 1
                        ELSE Index(cells, anchor)
                 /\ i \in 1 .. Len(cells) + 1
    BY <2>1, <2>2
  <2>4. new = InsertAt(cells, i, blank)
    BY <1>1, <1>4, <2>3 DEF insertCell
  <2> QED BY <1>2, <2>3, <2>4, BookInserted
<1> QED
  BY <1>3, <1>4

LEMMA DeleteCellIs ==
    ASSUME NEW cells, NEW n, Book(cells, n, cells), NEW id \in CellIds(cells),
           NEW new, new = deleteCell(cells, id)
    PROVE  Book(new, n, cells)
<1>1. Index(cells, id) \in 1 .. Len(cells)
  BY FoundIs DEF Book, Named
<1> QED
  BY <1>1, BookRemoved DEF deleteCell

LEMMA MoveCellIs ==
    ASSUME NEW cells, NEW n, Book(cells, n, cells), NEW id \in CellIds(cells),
           NEW direction, NEW new, new = moveCell(cells, id, direction)
    PROVE  Book(new, n, cells)
<1>1. PICK i \in 1 .. Len(cells) : i = Index(cells, id)
  BY FoundIs DEF Book, Named
<1>2. DOMAIN cells = 1 .. Len(cells)
  BY SeqIs DEF Book, Named
<1>3. PICK j : j = IF direction = "up" THEN i - 1 ELSE i + 1
  OBVIOUS
<1>4. new = IF j \in 1 .. Len(cells) THEN [cells EXCEPT ![i] = cells[j], ![j] = cells[i]]
            ELSE cells
  BY <1>1, <1>2, <1>3 DEF moveCell
<1> QED
  BY <1>4, BookSwapped

LEMMA ChangeCellTypeIs ==
    ASSUME NEW cells, NEW n, Book(cells, n, cells), NEW id \in CellIds(cells),
           NEW type, NEW new, new = changeCellType(cells, id, type)
    PROVE  Book(new, n, cells)
<1>1. PICK i \in 1 .. Len(cells) : i = Index(cells, id) /\ cells[i].id = id
  BY FoundIs DEF Book, Named
<1>2. CASE cells[i].cell_type = type
  BY <1>1, <1>2 DEF changeCellType
<1>3. CASE cells[i].cell_type # type
  <2>1. PICK c : c = Cell(id, type, cells[i].source, NoOutputs)
    OBVIOUS
  <2>2. /\ c = Cell(c.id, c.cell_type, c.source, c.outputs)
        /\ c.id = id /\ c.cell_type = type /\ c.outputs = NoOutputs
    BY ONLY <2>1, CellIs
  <2>3. id \in 1 .. n
    BY <1>1 DEF Book, Good
  <2>4. Heir(c, cells)
    <3> SUFFICES ASSUME NEW j \in 1 .. Len(cells), cells[j].id = id PROVE cells[j].cell_type # type
      BY <2>2 DEF Heir
    <3>1. j = i
      BY <1>1 DEF Book, Named
    <3> QED BY <1>3, <3>1
  <2>5. Good(c, n, cells)
    BY <2>2, <2>3, <2>4 DEF Good
  <2>6. i \in DOMAIN cells
    BY SeqIs DEF Book, Named
  <2>7. new = Put(cells, i, c)
    BY <1>1, <1>3, <2>1, <2>6 DEF changeCellType, Put
  <2> QED BY <1>1, <2>2, <2>5, <2>7, BookReplaced
<1> QED
  BY <1>2, <1>3

(* A cell with another source.                                              *)
Sourced(c, source) == [c EXCEPT !.source = source]

LEMMA WithSource ==
    ASSUME NEW c, NEW n, NEW old, Good(c, n, old), NEW source, NEW d, d = Sourced(c, source)
    PROVE  Good(d, n, old) /\ d.id = c.id
<1>1. PICK id, type, text, outputs :
         c = [id |-> id, cell_type |-> type, source |-> text, outputs |-> outputs]
  BY DEF Good, Cell
<1>2. d = [id |-> id, cell_type |-> type, source |-> source, outputs |-> outputs]
  BY ONLY <1>1, d = Sourced(c, source) DEF Sourced
<1>3. /\ d = Cell(d.id, d.cell_type, d.source, d.outputs)
      /\ d.id = c.id /\ d.cell_type = c.cell_type /\ d.outputs = c.outputs
  BY ONLY <1>1, <1>2 DEF Cell
<1> QED
  BY <1>3 DEF Good, Heir

LEMMA SourceReplaced ==
    ASSUME NEW cells, NEW n, NEW old, Book(cells, n, old), NEW i \in 1 .. Len(cells),
           NEW source, NEW new, new = Put(cells, i, Sourced(cells[i], source))
    PROVE  Book(new, n, old) /\ Len(new) = Len(cells)
<1>1. PICK c : c = Sourced(cells[i], source)
  OBVIOUS
<1>2. Good(cells[i], n, old)
  BY DEF Book
<1>3. Good(c, n, old) /\ c.id = cells[i].id
  BY ONLY <1>1, <1>2, WithSource
<1> QED
  BY <1>1, <1>3, BookReplaced

LEMMA UpdatedIs ==
    ASSUME NEW cells, NEW n, Book(cells, n, cells), NEW id \in CellIds(cells),
           NEW source, NEW new, new = updateCellSource(cells, id, source)
    PROVE  Book(new, n, cells)
<1>1. PICK i \in 1 .. Len(cells) : i = Index(cells, id)
  BY FoundIs DEF Book, Named
<1>2. i # 0 /\ i \in DOMAIN cells
  BY SeqIs DEF Book, Named
<1>3. new = Put(cells, i, Sourced(cells[i], source))
  BY <1>1, <1>2 DEF updateCellSource, Sourced, Put
<1> QED
  BY ONLY <1>3, Book(cells, n, cells), SourceReplaced, Zenon

LEMMA JoinCellIs ==
    ASSUME NEW cells, NEW n, Book(cells, n, cells), NEW id \in CellIds(cells),
           NEW new, new = joinCell(cells, id)
    PROVE  Book(new, n, cells)
<1>1. PICK k \in Nat : Len(cells) = k
  BY SeqIs DEF Book, Named
<1>2. PICK i \in 1 .. k : i = Index(cells, id)
  BY <1>1, FoundIs DEF Book, Named
<1>3. CASE i <= 1
  BY <1>2, <1>3 DEF joinCell
<1>4. CASE ~ (i <= 1)
  <2>1. PICK h \in 1 .. k : h = i - 1
    BY <1>4
  <2>2. PICK source : source = cells[h].source \o cells[i].source
    OBVIOUS
  <2>3. PICK mid : mid = Put(cells, h, Sourced(cells[h], source))
    OBVIOUS
  <2>4. Book(mid, n, cells) /\ Len(mid) = k
    <3>1. h \in 1 .. Len(cells)
      BY <1>1
    <3>2. Book(mid, n, cells) /\ Len(mid) = Len(cells)
      BY ONLY <2>3, <3>1, Book(cells, n, cells), SourceReplaced
    <3> QED BY <1>1, <3>2
  <2>5. new = RemoveAt(mid, i)
    <3>1. Sourced(cells[h], source) = [cells[i - 1] EXCEPT !.source = @ \o cells[i].source]
      BY <2>1, <2>2 DEF Sourced
    <3>2. new = RemoveAt(ReplaceAt(cells, i - 1, Sourced(cells[h], source)), i)
      BY <1>2, <1>4, <3>1 DEF joinCell
    <3> QED BY <2>1, <2>3, <3>2 DEF ReplaceAt, Put
  <2> QED BY <2>4, <2>5, BookRemoved
<1> QED
  BY <1>3, <1>4

LEMMA SplitCellIs ==
    ASSUME NEW cells, NEW n \in Nat, Book(cells, n, cells), NEW id \in CellIds(cells),
           NEW at, NEW new, new = splitCell(cells, id, at, n + 1)
    PROVE  Book(new, n + 1, cells)
<1>1. PICK k \in Nat : Len(cells) = k
  BY SeqIs DEF Book, Named
<1>2. PICK i \in 1 .. k : i = Index(cells, id)
  BY <1>1, FoundIs DEF Book, Named
<1>3. PICK above, below :
         /\ above = Text(SubSeq(cells[i].source, 1, at))
         /\ below = Text(SubSeq(cells[i].source, at + 1, Len(cells[i].source)))
  OBVIOUS
<1>4. PICK lower : lower = Cell(n + 1, cells[i].cell_type, below, NoOutputs)
  OBVIOUS
<1>5. PICK mid : mid = Put(cells, i, Sourced(cells[i], above))
  OBVIOUS
<1>6. Book(mid, n, cells) /\ Len(mid) = k
  <2>1. i \in 1 .. Len(cells)
    BY <1>1
  <2>2. Book(mid, n, cells) /\ Len(mid) = Len(cells)
    BY ONLY <1>5, <2>1, Book(cells, n, cells), SourceReplaced
  <2> QED BY <1>1, <2>2
<1>7. new = InsertAt(mid, i + 1, lower)
  BY <1>2, <1>3, <1>4, <1>5 DEF splitCell, ReplaceAt, Sourced, Put
<1>8. Good(lower, n + 1, cells) /\ lower.id = n + 1
  BY <1>4, NewCellIs
<1>9. i + 1 \in 1 .. Len(mid) + 1
  BY <1>6
<1> QED
  BY <1>6, <1>7, <1>8, <1>9, BookInserted

-----------------------------------------------------------------------------
(* Snapshots, and what comes back from them.                                *)

LEMMA ShotTaken ==
    ASSUME NEW cells, NEW n, NEW old, Book(cells, n, old)
    PROVE  Shot(takeStructuralSnapshot(cells), n)
<1>1. PICK k \in Nat : Len(cells) = k /\ DOMAIN cells = 1 .. k
  BY SeqIs DEF Book, Named
<1>2. PICK s : s = takeStructuralSnapshot(cells)
  OBVIOUS
<1>3. s = [i \in 1 .. k |-> SnapshotCell(cells[i])]
  BY <1>1, <1>2 DEF takeStructuralSnapshot
<1>4. s = [i \in 1 .. k |-> s[i]] /\ \A i \in 1 .. k : s[i].id = cells[i].id
  BY <1>3 DEF SnapshotCell
<1>5. IsSeq(s) /\ Len(s) = k
  BY ONLY <1>4, k \in Nat, MadeSeq
<1>6. \A i \in 1 .. k : s[i].id \in 1 .. n
  BY <1>1, <1>4 DEF Book, Good
<1>7. \A i, j \in 1 .. k : s[i].id = s[j].id => i = j
  BY <1>1, <1>4 DEF Book, Named
<1> QED
  BY ONLY <1>2, <1>5, <1>6, <1>7 DEF Shot, Named

(* restoreStructural gives to an id and a type what the live notebook has.  *)
OutputsIn(base, id, type) ==
    IF Index(base, id) # 0 /\ type = "code" THEN base[Index(base, id)].outputs ELSE NoOutputs

From(cells, base) ==
    \A i \in 1 .. Len(cells) :
        cells[i].outputs = OutputsIn(base, cells[i].id, cells[i].cell_type)

LEMMA FromItself ==
    ASSUME NEW base, NEW n, NEW old, Book(base, n, old)
    PROVE  From(base, base)
<1> SUFFICES ASSUME NEW i \in 1 .. Len(base)
             PROVE  base[i].outputs = OutputsIn(base, base[i].id, base[i].cell_type)
  BY DEF From
<1>1. /\ Index(base, base[i].id) \in 1 .. Len(base)
      /\ base[Index(base, base[i].id)].id = base[i].id
  BY IndexIs DEF Book, Named
<1>2. Index(base, base[i].id) = i /\ i # 0
  BY <1>1 DEF Book, Named
<1>3. base[i].cell_type # "code" => base[i].outputs = NoOutputs
  BY DEF Book, Good
<1> QED
  BY <1>2, <1>3 DEF OutputsIn

LEMMA RestoredBook ==
    ASSUME NEW base, NEW s, NEW n, Shot(s, n), NEW old, From(old, base),
           NEW new, new = restoreStructural(base, s)
    PROVE  Book(new, n, old) /\ From(new, base)
<1>1. PICK k \in Nat : Len(s) = k /\ DOMAIN s = 1 .. k
  BY SeqIs DEF Shot, Named
<1>2. new = [i \in 1 .. k |->
                Cell(s[i].id, s[i].cell_type, s[i].source,
                     OutputsIn(base, s[i].id, s[i].cell_type))]
  BY <1>1 DEF restoreStructural, OutputsIn
<1>3. new = [i \in 1 .. k |-> new[i]]
  BY <1>2
<1>4. IsSeq(new) /\ Len(new) = k
  BY ONLY <1>3, k \in Nat, MadeSeq
<1>5. ASSUME NEW i \in 1 .. k
      PROVE  /\ new[i] = Cell(new[i].id, new[i].cell_type, new[i].source, new[i].outputs)
             /\ new[i].id = s[i].id
             /\ new[i].outputs = OutputsIn(base, new[i].id, new[i].cell_type)
  <2>1. new[i] = Cell(s[i].id, s[i].cell_type, s[i].source,
                      OutputsIn(base, s[i].id, s[i].cell_type))
    BY <1>2
  <2>2. /\ new[i] = Cell(new[i].id, new[i].cell_type, new[i].source, new[i].outputs)
        /\ new[i].id = s[i].id /\ new[i].cell_type = s[i].cell_type
        /\ new[i].outputs = OutputsIn(base, s[i].id, s[i].cell_type)
    BY ONLY <2>1, CellIs
  <2> QED BY ONLY <2>2
<1>6. ASSUME NEW i \in 1 .. k PROVE Good(new[i], n, old)
  <2>1. new[i].id \in 1 .. n
    BY <1>1, <1>5 DEF Shot
  <2>2. new[i].cell_type # "code" => new[i].outputs = NoOutputs
    BY <1>5 DEF OutputsIn
  <2>3. Heir(new[i], old)
    BY <1>5 DEF Heir, From
  <2> QED BY <1>5, <2>1, <2>2, <2>3 DEF Good
<1>7. \A i, j \in 1 .. k : new[i].id = new[j].id => i = j
  BY <1>1, <1>5 DEF Shot, Named
<1> QED
  BY ONLY <1>4, <1>5, <1>6, <1>7 DEF Book, Named, From

Entries(h, n) == IsSeq(h) /\ \A i \in 1 .. Len(h) : Shot(h[i], n)

LEMMA ShotLater ==
    ASSUME NEW s, NEW n \in Nat, Shot(s, n), NEW m \in Nat, n <= m
    PROVE  Shot(s, m)
<1>1. 1 .. n \subseteq 1 .. m
  OBVIOUS
<1> QED
  BY <1>1 DEF Shot

LEMMA EntriesLater ==
    ASSUME NEW h, NEW n \in Nat, Entries(h, n), NEW m \in Nat, n <= m
    PROVE  Entries(h, m)
BY ShotLater DEF Entries

LEMMA NoEntries == ASSUME NEW n PROVE Entries(<<>>, n)
BY EmptyLength DEF Entries

LEMMA EntryPushed ==
    ASSUME NEW h, NEW n, Entries(h, n), NEW e, Shot(e, n)
    PROVE  Entries(Append(h, e), n) /\ Entries(Capped(Append(h, e)), n)
<1>1. PICK t : t = Append(h, e)
  OBVIOUS
<1>2. /\ IsSeq(t) /\ Len(t) = Len(h) + 1 /\ Len(h) \in Nat /\ t[Len(h) + 1] = e
      /\ \A i \in 1 .. Len(h) : t[i] = h[i]
  BY <1>1, AppendLength, Elements DEF Entries
<1>3. \A i \in 1 .. Len(t) : i \in 1 .. Len(h) \/ i = Len(h) + 1
  BY <1>2
<1>4. Entries(t, n)
  BY <1>2, <1>3 DEF Entries
<1>5. t # <<>>
  BY <1>2, EmptyLength
<1>6. Entries(Tail(t), n)
  <2>1. /\ IsSeq(Tail(t)) /\ Len(Tail(t)) = Len(t) - 1 /\ Len(t) \in Nat
        /\ \A i \in 1 .. Len(t) - 1 : Tail(t)[i] = t[i + 1]
    BY <1>2, <1>5, ShorterLength, Shortened
  <2>2. \A i \in 1 .. Len(t) - 1 : i + 1 \in 1 .. Len(t)
    BY <2>1
  <2> QED BY <1>4, <2>1, <2>2 DEF Entries
<1> QED
  BY <1>1, <1>4, <1>6 DEF Capped

LEMMA EntryPopped ==
    ASSUME NEW h, NEW n, Entries(h, n), h # <<>>
    PROVE  Entries(Front(h), n) /\ Shot(Last(h), n)
<1>1. /\ IsSeq(Front(h)) /\ Len(Front(h)) = Len(h) - 1 /\ Len(h) \in Nat \ {0}
      /\ \A i \in 1 .. Len(h) - 1 : Front(h)[i] = h[i]
      /\ Last(h) = h[Len(h)]
  BY ShorterLength, Shortened DEF Entries
<1>2. \A i \in 1 .. Len(h) - 1 : i \in 1 .. Len(h)
  BY <1>1
<1> QED
  BY <1>1, <1>2 DEF Entries

-----------------------------------------------------------------------------
(* The notebooks, and the snapshots, of a session: cells have the ids given *)
(* so far, no two the same; a notebook to be stored takes its outputs from  *)
(* the one it replaces, and so does one that an undo has stored.            *)
Counted == /\ used = [ids |-> used.ids, edits |-> used.edits, work |-> used.work]
           /\ used.ids \in Nat

Stored == Book(nb, used.ids, nb) /\ Book(disk, used.ids, disk)

ToStore ==
    \A k \in Calls : calls[k].pc \in {"push", "commit"} => Book(calls[k].new, used.ids, nb)

Stacked == Entries(undo, used.ids) /\ Entries(redo, used.ids)

Restored ==
    req.pc = "render" =>
        Shot(req.entry, used.ids) /\ Book(req.base, used.ids, req.base) /\ From(nb, req.base)

Books == Counted /\ Stored /\ ToStore /\ Stacked /\ Restored

Keeps == SameOutputs(nb, nb')

LEMMA BooksUnique == ASSUME Books PROVE UniqueIds
<1>1. Distinct(nb) /\ Distinct(disk)
  BY NamedDistinct DEF Books, Stored, Book
<1>2. ASSUME NEW h, Entries(h, used.ids), NEW i \in DOMAIN h PROVE Distinct(h[i])
  <2>1. i \in 1 .. Len(h)
    BY <1>2, SeqIs DEF Entries
  <2> QED BY <1>2, <2>1, NamedDistinct DEF Entries, Shot
<1>3. \A s \in Snapshots : Distinct(s)
  BY <1>2 DEF Books, Stacked, Snapshots
<1> QED
  BY <1>1, <1>3 DEF UniqueIds

LEMMA InitBooks == Init => Books
<1> SUFFICES ASSUME Init PROVE Books
  OBVIOUS
<1>1. PICK f \in Files : nb = f /\ disk = f /\ used = [ids |-> Len(f), edits |-> 0, work |-> 0]
  BY DEF Init
<1>2. IsFile(f)
  BY EditingAssumption
<1>3. IsSeq(f)
  BY <1>2 DEF IsFile, IsSeq
<1>4. PICK k \in Nat : Len(f) = k /\ DOMAIN f = 1 .. k
  BY <1>3, SeqIs
<1>5. Named(f)
  BY <1>2, <1>3, <1>4 DEF IsFile, Named
<1>6. \A i \in 1 .. k : Good(f[i], k, f)
  <2> SUFFICES ASSUME NEW i \in 1 .. k PROVE Good(f[i], k, f)
    OBVIOUS
  <2>1. Heir(f[i], f)
    BY <1>4, <1>5 DEF Heir, Named
  <2> QED BY <1>2, <1>4, <2>1 DEF IsFile, Good
<1>7. Book(f, k, f)
  BY <1>4, <1>5, <1>6 DEF Book
<1>8. used.ids = k /\ Counted
  BY <1>1, <1>4 DEF Counted
<1>9. Stored
  BY <1>1, <1>7, <1>8 DEF Stored
<1>10. ToStore /\ Stacked /\ Restored
  BY NoEntries DEF Init, IdleCall, IdleReq, ToStore, Stacked, Restored
<1> QED
  BY <1>8, <1>9, <1>10 DEF Books

(* Steps that store, push and pop nothing; a save stores the notebook.      *)
LEMMA BooksStay ==
    ASSUME Books, nb' = nb, disk' = disk \/ disk' = nb, UNCHANGED history,
           used' = [used EXCEPT !.work = @ + 1] \/ used' = used,
           \A k \in Calls : calls'[k].pc \in {"push", "commit"} =>
               calls[k].pc \in {"push", "commit"} /\ calls'[k].new = calls[k].new,
           req' = req \/ req'.pc # "render"
    PROVE  Books' /\ Keeps
<1>1. Counted' /\ used'.ids = used.ids
  <2>1. CASE used' = used
    BY <2>1 DEF Books, Counted
  <2>2. CASE used' = [used EXCEPT !.work = @ + 1]
    <3>1. PICK ids, edits, work :
             ids \in Nat /\ used = [ids |-> ids, edits |-> edits, work |-> work]
      BY DEF Books, Counted
    <3>2. used' = [ids |-> ids, edits |-> edits, work |-> work + 1]
      BY ONLY <2>2, <3>1
    <3>3. /\ used'.ids = used.ids /\ used'.ids \in Nat
          /\ used' = [ids |-> used'.ids, edits |-> used'.edits, work |-> used'.work]
      BY ONLY <3>1, <3>2
    <3> QED BY <3>3 DEF Counted
  <2> QED BY <2>1, <2>2
<1>2. Stored'
  BY <1>1 DEF Books, Stored
<1>3. ToStore'
  BY <1>1 DEF Books, ToStore
<1>4. Stacked'
  BY <1>1 DEF Books, Stacked, history
<1>5. Restored'
  BY <1>1 DEF Books, Restored
<1>6. Keeps
  <2>1. Named(nb) /\ Book(nb, used.ids, nb)
    BY DEF Books, Stored, Book
  <2> QED BY <2>1, BookKeeps DEF Keeps
<1> QED
  BY <1>1, <1>2, <1>3, <1>4, <1>5, <1>6 DEF Books

LEMMA BeginsBooks ==
    ASSUME AInv, Books, Alone, NEW k \in Calls, EditBegins(k)
    PROVE  Books' /\ Keeps
<1>1. Busy = {} /\ req.pc = "off"
  BY BeginsRecord, BeginsAlone DEF BeginsAny, AInv, Work
<1>0. PICK n \in Nat : n = used.ids
  BY DEF Books, Counted
<1>2. PICK cells : n = used.ids /\ cells = nb
  BY <1>0
<1>3. Book(cells, n, cells)
  BY <1>2 DEF Books, Stored
<1>4. ASSUME NEW ids \in {0, 1}, NEW new, NEW call, call.new = new, Book(new, n + ids, cells),
             Begins(k, ids, call), UNCHANGED history \/ Push(nb)
      PROVE  Books' /\ Keeps
  <2>1. /\ calls' = [calls EXCEPT ![k] = call] /\ UNCHANGED <<nb, requests, file>>
        /\ used' = [used EXCEPT !.edits = @ + 1, !.work = @ + 1, !.ids = @ + ids]
    BY <1>4 DEF Begins
  <2>2. Counted' /\ used'.ids = n + ids
    <3>1. PICK edits, work : used = [ids |-> n, edits |-> edits, work |-> work]
      BY <1>2 DEF Books, Counted
    <3>2. PICK m \in Nat : m = n + ids
      BY <1>4
    <3>3. used' = [ids |-> m, edits |-> edits + 1, work |-> work + 1]
      BY ONLY <2>1, <3>1, <3>2
    <3>4. /\ used'.ids = m /\ used'.ids \in Nat
          /\ used' = [ids |-> used'.ids, edits |-> used'.edits, work |-> used'.work]
      BY ONLY <3>2, <3>3
    <3> QED BY <3>2, <3>4 DEF Counted
  <2>3. PICK m \in Nat : m = n + ids /\ n <= m /\ m = used'.ids
    BY <1>4, <2>2
  <2>4. nb' = nb /\ disk' = disk /\ nb = cells
    BY <1>2, <2>1 DEF file
  <2>5. Book(cells, m, cells) /\ Book(disk, m, disk)
    BY <1>2, <1>3, <2>3, LaterIs DEF Books, Stored
  <2>6. Stored'
    BY <2>3, <2>4, <2>5 DEF Stored
  <2>7. ToStore'
    <3> SUFFICES ASSUME NEW j \in Calls, calls'[j].pc \in {"push", "commit"}
                 PROVE  Book(calls'[j].new, m, cells)
      BY <2>3, <2>4 DEF ToStore
    <3>1. calls[j].pc = "off"
      BY <1>1 DEF Busy
    <3>2. DOMAIN calls = Calls
      BY DEF AInv, Work, Served, Shape
    <3>3. j = k /\ calls'[k] = call
      BY <2>1, <3>1, <3>2
    <3> QED BY <1>4, <2>3, <3>3
  <2>8. Entries(undo, m) /\ Entries(redo, m)
    BY <1>2, <2>3, EntriesLater DEF Books, Stacked
  <2>9. Stacked'
    <3>1. CASE UNCHANGED history
      BY <2>3, <2>8, <3>1 DEF Stacked, history
    <3>2. CASE Push(nb)
      <4>1. undo' = Capped(Append(undo, takeStructuralSnapshot(cells))) /\ redo' = <<>>
        BY <1>2, <3>2 DEF Push
      <4>2. Shot(takeStructuralSnapshot(cells), m)
        BY <2>5, ShotTaken
      <4> QED BY <2>3, <2>8, <4>1, <4>2, EntryPushed, NoEntries DEF Stacked
    <3> QED BY <1>4, <3>1, <3>2
  <2>10. Restored'
    BY <1>1, <2>1 DEF Restored, requests
  <2>11. Keeps
    BY <1>2, <1>3, <2>4, BookKeeps DEF Keeps, Book
  <2> QED BY <2>2, <2>6, <2>7, <2>9, <2>10, <2>11 DEF Books
<1>5. ASSUME NEW ids \in {0, 1}, NEW new, Book(new, n + ids, cells), PushesLater(k, ids, new)
      PROVE  Books' /\ Keeps
  <2>1. PICK call : call = [IdleCall EXCEPT !.pc = "push", !.base = nb, !.new = new]
    OBVIOUS
  <2>2. call.new = new
    BY <2>1 DEF IdleCall
  <2> QED BY <1>4, <1>5, <2>1, <2>2 DEF PushesLater
<1>6. ASSUME NEW new, Book(new, n, cells), PushesNow(k, new) PROVE Books' /\ Keeps
  <2>1. PICK call : call = [IdleCall EXCEPT !.pc = "commit", !.base = nb, !.new = new,
                                            !.was = history]
    OBVIOUS
  <2>2. call.new = new
    BY <2>1 DEF IdleCall
  <2>3. n + 0 = n
    OBVIOUS
  <2> QED BY <1>4, <1>6, <2>1, <2>2, <2>3 DEF PushesNow
<1>7. n + 0 = n
  OBVIOUS
<1>8. CASE InsertCell(k)
  <2>1. PICK position \in {"before", "after"}, type \in Types, anchor \in CellIds(cells) \cup {0} :
            /\ anchor = 0 <=> cells = <<>>
            /\ PushesLater(k, 1, insertCell(cells, position, type, anchor, n + 1))
    BY <1>2, <1>8 DEF InsertCell
  <2>2. anchor \in CellIds(cells) \/ cells = <<>>
    BY <2>1
  <2> QED BY <1>3, <1>5, <2>1, <2>2, InsertCellIs
<1>9. CASE DeleteCell(k)
  <2>1. PICK id \in CellIds(cells) : PushesLater(k, 0, deleteCell(cells, id))
    BY <1>2, <1>9 DEF DeleteCell
  <2> QED BY <1>3, <1>5, <1>7, <2>1, DeleteCellIs
<1>10. CASE MoveCell(k)
  <2>1. PICK id \in CellIds(cells), direction \in {"up", "down"} :
            PushesNow(k, moveCell(cells, id, direction))
    BY <1>2, <1>10 DEF MoveCell
  <2> QED BY <1>3, <1>6, <2>1, MoveCellIs
<1>11. CASE SplitCell(k)
  <2>1. PICK id \in CellIds(cells) : \E at \in 0 .. Len(cells[Index(cells, id)].source) :
            PushesLater(k, 1, splitCell(cells, id, at, n + 1))
    BY <1>2, <1>11 DEF SplitCell
  <2>2. PICK at : PushesLater(k, 1, splitCell(cells, id, at, n + 1))
    BY <2>1
  <2> QED BY <1>3, <1>5, <2>2, SplitCellIs
<1>12. CASE JoinCell(k)
  <2>1. PICK id \in CellIds(cells) : PushesLater(k, 0, joinCell(cells, id))
    BY <1>2, <1>12 DEF JoinCell
  <2> QED BY <1>3, <1>5, <1>7, <2>1, JoinCellIs
<1>13. CASE ChangeCellType(k)
  <2>1. PICK id \in CellIds(cells), type \in Types : PushesNow(k, changeCellType(cells, id, type))
    BY <1>2, <1>13 DEF ChangeCellType
  <2> QED BY <1>3, <1>6, <2>1, ChangeCellTypeIs
<1>14. CASE SaveCellEdit(k)
  <2>1. PICK id \in CellIds(cells), source \in Sources :
            PushesLater(k, 0, updateCellSource(cells, id, source))
    BY <1>2, <1>14 DEF SaveCellEdit
  <2> QED BY <1>3, <1>5, <1>7, <2>1, UpdatedIs
<1> QED
  BY <1>8, <1>9, <1>10, <1>11, <1>12, <1>13, <1>14 DEF EditBegins

LEMMA CallBooks ==
    ASSUME AInv, Books, NEW k \in Calls, CallStep(k)
    PROVE  Books' /\ Keeps
<1>1. Served /\ DOMAIN calls = Calls
  BY DEF AInv, Work, Served, Shape
<1>2. CASE EditPushes(k)
  <2>1. calls[k].pc = "push" /\ calls[k].kind = "edit" /\ k \in Busy
    BY <1>2 DEF EditPushes, AInv, Work, Served, Shape, Busy
  <2>2. Busy = {k} /\ req.pc = "off"
    BY <2>1, CallIsAlone
  <2>3. calls[k].base = nb
    BY <2>1 DEF AInv, Work, Based, Rendering
  <2>4. /\ UNCHANGED <<nb, requests, file, used>>
        /\ calls' = [calls EXCEPT ![k].pc = "commit", ![k].was = history]
        /\ undo' = Capped(Append(undo, takeStructuralSnapshot(nb))) /\ redo' = <<>>
    BY <1>2, <2>3 DEF EditPushes, Push
  <2>5. /\ \A j \in Calls \ {k} : calls'[j] = calls[j]
        /\ calls'[k].new = calls[k].new
    BY <2>4 DEF AInv, Work, Served, Shape, IdleCall
  <2>6. Counted' /\ Stored' /\ Restored'
    BY <2>2, <2>4 DEF Books, Counted, Stored, Restored, requests, file
  <2>7. ToStore'
    BY <2>1, <2>4, <2>5 DEF Books, ToStore
  <2>8. Stacked'
    <3>1. Shot(takeStructuralSnapshot(nb), used.ids)
      BY ShotTaken DEF Books, Stored
    <3>2. Entries(undo', used.ids) /\ Entries(redo', used.ids)
      BY <2>4, <3>1, EntryPushed, NoEntries DEF Books, Stacked
    <3> QED BY <2>4, <3>2 DEF Stacked
  <2>9. Keeps
    BY <2>4, BookKeeps DEF Keeps, Books, Stored, Book
  <2> QED BY <2>6, <2>7, <2>8, <2>9 DEF Books
<1>3. CASE EditCommits(k)
  <2>1. calls[k].pc = "commit" /\ calls[k].kind = "edit" /\ k \in Busy
    BY <1>3 DEF EditCommits, AInv, Work, Served, Shape, Busy
  <2>2. Busy = {k} /\ req.pc = "off"
    BY <2>1, CallIsAlone
  <2>3. /\ nb' = calls[k].new /\ calls' = [calls EXCEPT ![k].pc = "render"]
        /\ UNCHANGED <<history, requests, file, used>>
    BY <1>3 DEF EditCommits
  <2>4. calls'[k].pc = "render" /\ \A j \in Calls \ {k} : calls'[j] = calls[j]
    BY <1>1, <2>3, MovesOn
  <2>5. Book(nb', used.ids, nb)
    BY <2>1, <2>3 DEF Books, ToStore
  <2>6. Stored'
    BY <2>3, <2>5, HeirOfItself DEF Books, Stored, file
  <2>7. ToStore'
    <3>1. \A j \in Calls \ {k} : calls[j].pc = "off"
      BY <2>2 DEF Busy
    <3> QED BY <2>4, <3>1 DEF ToStore
  <2>8. Counted' /\ Stacked' /\ Restored'
    BY <2>2, <2>3 DEF Books, Counted, Stacked, Restored, history, requests
  <2>9. Keeps
    BY <2>5, BookKeeps DEF Keeps, Books, Stored, Book
  <2> QED BY <2>6, <2>7, <2>8, <2>9 DEF Books
<1>4. CASE SaveWrites(k)
  <2>1. /\ calls[k].pc = "write" /\ disk' = calls[k].base
        /\ calls' = [calls EXCEPT ![k].pc = "clear"]
        /\ UNCHANGED <<nb, history, requests, used>>
    BY <1>4 DEF SaveWrites
  <2>2. disk' = nb
    BY <2>1 DEF AInv, Work, Based, Rendering, Busy
  <2>3. calls'[k].pc = "clear" /\ \A j \in Calls \ {k} : calls'[j] = calls[j]
    BY <1>1, <2>1, MovesOn
  <2> QED BY <2>1, <2>2, <2>3, BooksStay DEF requests
<1>5. CASE SaveClears(k)
  <2>1. /\ calls' = [calls EXCEPT ![k].pc = "record"]
        /\ UNCHANGED <<nb, history, requests, file, used>>
    BY <1>5 DEF SaveClears
  <2>2. calls'[k].pc = "record" /\ \A j \in Calls \ {k} : calls'[j] = calls[j]
    BY <1>1, <2>1, MovesOn
  <2> QED BY <2>1, <2>2, BooksStay DEF requests, file
<1>6. CASE Ends(k) /\ UNCHANGED <<nb, disk, history, requests, used>>
  <2>1. calls'[k].pc = "off" /\ \A j \in Calls \ {k} : calls'[j] = calls[j]
    BY <1>1, <1>6, CallEnds
  <2> QED BY <1>6, <2>1, BooksStay DEF requests
<1> QED
  BY <1>2, <1>3, <1>4, <1>5, <1>6
     DEF CallStep, EditThrows, EditRenders, EditHalfDrawn, SaveFails, SaveRecords, ViewRenders,
         ViewFails, file

LEMMA UndoBooks ==
    ASSUME AInv, Books, UndoStep
    PROVE  Books' /\ Keeps
<1>1. calls' = calls /\ Busy = {}
  BY UndoIsAlone
<1>2. \A k \in Calls : calls[k].pc = "off"
  BY <1>1 DEF Busy
<1>3. IsSeq(undo) /\ IsSeq(redo) /\ req.dir \in {"undo", "redo"}
  BY DEF AInv, Line, IsHistory, Work, Asked
<1>4. CASE UndoStarts
  <2>1. /\ req' = [req EXCEPT !.pc = "pop", !.base = nb, !.saved = saved]
        /\ UNCHANGED <<nb, history, file, used>>
    BY <1>4 DEF UndoStarts
  <2>2. req'.pc = "pop"
    BY <2>1 DEF AInv, Work, Served, Shape, IdleReq
  <2> QED BY <1>1, <2>1, <2>2, BooksStay DEF file
<1>5. CASE UndoRefused \/ NothingToUndo \/ UndoRedraws \/ UndoBroken
  <2>1. Finish /\ UNCHANGED <<nb, history, file, used>>
    BY <1>5 DEF UndoRefused, NothingToUndo, UndoRedraws, UndoBroken
  <2>2. req'.pc \in {"off", "start"}
    BY <2>1, FinishIs
  <2> QED BY <1>1, <2>1, <2>2, BooksStay DEF file
<1>6. CASE UndoPops
  <2>1. req.pc = "pop" /\ req.base = nb
    BY <1>6 DEF UndoPops, AInv, Work, Asked
  <2>2. PICK entry, stack : entry = Last(stack) /\ stack = Stack
    OBVIOUS
  <2>3. /\ stack # <<>> /\ nb' = restoreStructural(nb, entry)
        /\ req' = [req EXCEPT !.pc = "render", !.entry = entry]
        /\ UNCHANGED <<file, used>>
        /\ \/ stack = undo /\ undo' = Front(stack) /\ redo' = redo
           \/ stack = redo /\ redo' = Front(stack) /\ undo' = undo
    BY <1>6, <2>1, <2>2 DEF UndoPops, Stack
  <2>4. req'.entry = entry /\ req'.base = nb
    BY <2>1, <2>3 DEF AInv, Work, Served, Shape, IdleReq
  <2>5. Entries(Front(stack), used.ids) /\ Shot(entry, used.ids)
    BY <2>2, <2>3, EntryPopped DEF Books, Stacked
  <2>6. Stacked'
    BY <2>3, <2>5 DEF Books, Stacked
  <2>7. From(nb, nb)
    BY FromItself DEF Books, Stored
  <2>8. Book(nb', used.ids, nb) /\ From(nb', nb)
    BY <2>3, <2>5, <2>7, RestoredBook
  <2>9. Stored'
    BY <2>3, <2>8, HeirOfItself DEF Books, Stored, file
  <2>10. Restored'
    BY <2>3, <2>4, <2>5, <2>8 DEF Books, Stored, Restored
  <2>11. Counted' /\ ToStore'
    BY <1>1, <1>2, <2>3 DEF Books, Counted, ToStore
  <2>12. Keeps
    BY <2>8, BookKeeps DEF Keeps, Books, Stored, Book
  <2> QED BY <2>6, <2>9, <2>10, <2>11, <2>12 DEF Books
<1>7. CASE UndoRenders
  <2>1. req.pc = "render" /\ Finish /\ UNCHANGED <<nb, file, used>>
        /\ Opposite(takeStructuralSnapshot(req.base))
    BY <1>7 DEF UndoRenders
  <2>2. req'.pc \in {"off", "start"}
    BY <2>1, FinishIs
  <2>3. Shot(takeStructuralSnapshot(req.base), used.ids)
    BY <2>1, ShotTaken DEF Books, Restored
  <2>4. Stacked'
    <3>1. \/ /\ redo' = Append(redo, takeStructuralSnapshot(req.base)) /\ undo' = undo
          \/ /\ undo' = Append(undo, takeStructuralSnapshot(req.base)) /\ redo' = redo
      BY <2>1 DEF Opposite
    <3> QED BY <2>1, <2>3, <3>1, EntryPushed DEF Books, Stacked
  <2>5. Counted' /\ Stored' /\ ToStore' /\ Restored'
    BY <1>1, <1>2, <2>1, <2>2 DEF Books, Counted, Stored, ToStore, Restored, file
  <2>6. Keeps
    BY <2>1, BookKeeps DEF Keeps, Books, Stored, Book
  <2> QED BY <2>4, <2>5, <2>6 DEF Books
<1>8. CASE UndoThrows
  <2>1. /\ req.pc = "render" /\ UNCHANGED <<file, used>>
        /\ nb' = restoreStructural(req.base, takeStructuralSnapshot(req.base))
        /\ req' = [req EXCEPT !.pc = "redraw"]
        /\ \/ undo' = Append(undo, req.entry) /\ redo' = redo
           \/ redo' = Append(redo, req.entry) /\ undo' = undo
    BY <1>8 DEF UndoThrows
  <2>2. /\ Shot(req.entry, used.ids) /\ Book(req.base, used.ids, req.base)
        /\ From(nb, req.base)
    BY <2>1 DEF Books, Restored
  <2>3. Shot(takeStructuralSnapshot(req.base), used.ids)
    BY <2>2, ShotTaken
  <2>4. Book(nb', used.ids, nb)
    BY <2>1, <2>2, <2>3, RestoredBook
  <2>5. Stored'
    BY <2>1, <2>4, HeirOfItself DEF Books, Stored, file
  <2>6. Stacked'
    BY <2>1, <2>2, EntryPushed DEF Books, Stacked
  <2>7. req'.pc = "redraw"
    BY <2>1 DEF AInv, Work, Served, Shape, IdleReq
  <2>8. Counted' /\ ToStore' /\ Restored'
    BY <1>1, <1>2, <2>1, <2>7 DEF Books, Counted, ToStore, Restored
  <2>9. Keeps
    BY <2>4, BookKeeps DEF Keeps, Books, Stored, Book
  <2> QED BY <2>5, <2>6, <2>8, <2>9 DEF Books
<1> QED
  BY <1>4, <1>5, <1>6, <1>7, <1>8 DEF UndoStep

LEMMA BooksStep ==
    ASSUME AInv, Books, Alone, [Next]_vars
    PROVE  Books' /\ (Reopen \/ Keeps)
<1>1. ASSUME NEW k \in Calls, EditBegins(k) PROVE Books' /\ Keeps
  BY <1>1, BeginsBooks
<1>2. ASSUME NEW k \in Calls, SaveBegins(k) \/ ViewBegins(k) PROVE Books' /\ Keeps
  <2>1. PICK kind, pc : Other(k, kind, pc) /\ pc \in {"write", "render"}
    BY <1>2 DEF SaveBegins, ViewBegins
  <2>2. PICK call : call = [IdleCall EXCEPT !.pc = pc, !.kind = kind, !.base = nb]
    OBVIOUS
  <2>3. /\ calls' = [calls EXCEPT ![k] = call] /\ call.pc = pc
        /\ used' = [used EXCEPT !.work = @ + 1]
        /\ UNCHANGED <<nb, history, requests, file>>
    BY <2>1, <2>2 DEF Other, IdleCall
  <2>4. DOMAIN calls = Calls
    BY DEF AInv, Work, Served, Shape
  <2>5. calls'[k].pc = pc /\ \A j \in Calls \ {k} : calls'[j] = calls[j]
    BY <2>3, <2>4
  <2> QED BY <2>1, <2>3, <2>5, BooksStay DEF requests, file
<1>3. ASSUME NEW k \in Calls, CallStep(k) PROVE Books' /\ Keeps
  BY <1>3, CallBooks
<1>4. ASSUME NEW dir \in {"undo", "redo"}, Enqueue(dir) PROVE Books' /\ Keeps
  <2>1. /\ UNCHANGED <<nb, history, calls, file>> /\ used' = [used EXCEPT !.work = @ + 1]
        /\ req' = req \/ req' = [IdleReq EXCEPT !.pc = "start", !.dir = dir]
    BY <1>4 DEF Enqueue, requests
  <2>2. req' = req \/ req'.pc # "render"
    BY <2>1 DEF IdleReq
  <2> QED BY <2>1, <2>2, BooksStay DEF file
<1>5. CASE UndoStep
  BY <1>5, UndoBooks
<1>6. CASE Reopen
  <2>1. /\ Busy = {} /\ UNCHANGED <<requests, calls, disk>> /\ nb' = disk
        /\ undo' = <<>> /\ redo' = <<>> /\ used' = [used EXCEPT !.work = @ + 1] /\ ~inFlight
    BY <1>6 DEF Reopen, Quiet
  <2>2. Counted' /\ used'.ids = used.ids
    <3>1. PICK ids, edits, work :
             ids \in Nat /\ used = [ids |-> ids, edits |-> edits, work |-> work]
      BY DEF Books, Counted
    <3>2. used' = [ids |-> ids, edits |-> edits, work |-> work + 1]
      BY ONLY <2>1, <3>1
    <3>3. /\ used'.ids = used.ids /\ used'.ids \in Nat
          /\ used' = [ids |-> used'.ids, edits |-> used'.edits, work |-> used'.work]
      BY ONLY <3>1, <3>2
    <3> QED BY <3>3 DEF Counted
  <2>3. Stored'
    BY <2>1, <2>2 DEF Books, Stored
  <2>4. req.pc = "off" /\ \A k \in Calls : calls[k].pc = "off"
    BY <2>1 DEF AInv, Work, Served, QueueServed, Busy
  <2>5. ToStore' /\ Stacked' /\ Restored'
    BY <2>1, <2>4, NoEntries DEF ToStore, Stacked, Restored, requests
  <2> QED BY <1>6, <2>2, <2>3, <2>5 DEF Books
<1>7. CASE UNCHANGED vars
  BY <1>7, BooksStay DEF vars, history
<1> QED
  BY <1>1, <1>2, <1>3, <1>4, <1>5, <1>6, <1>7 DEF Next

(* Ids stay distinct and code cells keep their outputs, through every cell  *)
(* operation, save, undo, redo and rollback, until the file is opened again *)
(* (notebook/cell.ts, notebook/structural-snapshot.ts, dispatcher/undo.ts). *)
THEOREM OutputsStayWithTheirCells ==
    ASSUME Alone
    PROVE  Spec => OutputsKept
<1>1. AInv /\ Books /\ [Next]_vars => Books'
  BY BooksStep
<1>2. AInv /\ Books /\ [Next]_vars =>
          [Reopen \/ \A i \in DOMAIN nb, j \in DOMAIN nb' :
               nb[i].id = nb'[j].id /\ nb[i].cell_type = nb'[j].cell_type
                   => nb[i].outputs = nb'[j].outputs]_nb
  BY BooksStep DEF Keeps, SameOutputs
<1>3. Books => UniqueIds
  BY BooksUnique
<1> QED
  BY <1>1, <1>2, <1>3, InitBooks, SpecAlone, PTL DEF Spec, OutputsKept
=============================================================================

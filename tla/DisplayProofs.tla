---------------------------- MODULE DisplayProofs ---------------------------
(***************************************************************************)
(* Theorems about Display.  For any notebooks, messages and bounds, with   *)
(* any overlap and any failures, no message is stranded in the scheduler.  *)
(* When runs, messages and redraws do not overlap, the buffer shows the    *)
(* notebook and the cursor stays in its cell: the drawings that replace    *)
(* the lines from one cell on keep the buffer that of a whole plan, since  *)
(* two plans agree on the lines of the first cells they have in common.    *)
(* What the user may follow then leads where it says, a fact of how a plan *)
(* is built from a notebook.                                               *)
(***************************************************************************)
EXTENDS Display, TLAPS, WellFoundedInduction, SequenceTheorems

IsSeq(s) == \E S : s \in Seq(S)

(* The queue is a sequence, and a flush a record whose step is named.      *)
Shapes ==
    /\ IsSeq(queue)
    /\ flush = [pc |-> flush.pc, ids |-> flush.ids, nb |-> flush.nb,
                svgs |-> flush.svgs, plan |-> flush.plan]

IInv == Shapes /\ NoStrand

LEMMA Queued ==
    ASSUME NEW s, IsSeq(s), NEW e
    PROVE  IsSeq(Append(s, e)) /\ Append(s, e) # <<>>
<1>1. PICK S : s \in Seq(S)
    BY DEF IsSeq
<1> DEFINE T == S \cup {e}
<1>2. s \in Seq(T)
    <2>1. Len(s) \in Nat /\ DOMAIN s = 1 .. Len(s) /\ \A i \in 1 .. Len(s) : s[i] \in S
        BY <1>1
    <2>2. s = [i \in 1 .. Len(s) |-> s[i]]
        BY <1>1
    <2>3. \A i \in 1 .. Len(s) : s[i] \in T
        BY <2>1
    <2> HIDE DEF T
    <2> QED BY <2>1, <2>2, <2>3
<1>3. Append(s, e) \in Seq(T) /\ Len(Append(s, e)) = Len(s) + 1 /\ Len(s) \in Nat
    BY <1>2
<1> HIDE DEF T
<1>4. IsSeq(Append(s, e))
    BY ONLY <1>3 DEF IsSeq
<1>5. ASSUME Append(s, e) = <<>> PROVE FALSE
    <2>1. Len(<<>>) = 0
        OBVIOUS
    <2> QED BY ONLY <1>3, <1>5, <2>1
<1> QED
    BY <1>4, <1>5

-----------------------------------------------------------------------------
(* The steps of the scheduler, whoever takes them.                         *)

(* What is queued has been taken by a flush, or has a timer.               *)
LEMMA DoFlushIs ==
    ASSUME Shapes, NEW q, IsSeq(q), NEW waiting, DoFlush(q, waiting),
           flush.pc = "none", q = <<>> => queue = <<>>
    PROVE  Shapes' /\ NoStrand'
<1>1. CASE q = <<>>
    <2>1. UNCHANGED <<queue, flush>> /\ queue = <<>>
        BY <1>1 DEF DoFlush
    <2> QED BY <2>1 DEF Shapes, NoStrand
<1>2. CASE q # <<>>
    <2>1. queue' = <<>> /\ flush' = [NoFlush EXCEPT !.pc = "winid", !.ids = ToSet(q)]
        BY <1>2 DEF DoFlush
    <2>2. flush' = [pc |-> "winid", ids |-> ToSet(q), nb |-> <<>>, svgs |-> {}, plan |-> <<>>]
        BY <2>1 DEF NoFlush
    <2>3. <<>> \in Seq({})
        OBVIOUS
    <2>4. IsSeq(queue')
        BY <2>1, <2>3 DEF IsSeq
    <2>5. flush'.pc = "winid"
        BY ONLY <2>2
    <2>6. flush' = [pc |-> flush'.pc, ids |-> flush'.ids, nb |-> flush'.nb,
                    svgs |-> flush'.svgs, plan |-> flush'.plan]
        BY ONLY <2>2
    <2> QED BY ONLY <2>4, <2>5, <2>6 DEF Shapes, NoStrand
<1> QED BY <1>1, <1>2

LEMMA EndFlushIs ==
    ASSUME IInv, EndFlush
    PROVE  IInv'
<1>1. /\ UNCHANGED <<queue, disposed>> /\ flush' = NoFlush
      /\ timer' = (timer \/ (~disposed /\ queue # <<>>))
    BY DEF EndFlush
<1>2. flush' = [pc |-> flush'.pc, ids |-> flush'.ids, nb |-> flush'.nb,
                svgs |-> flush'.svgs, plan |-> flush'.plan]
    BY <1>1 DEF NoFlush
<1> QED BY ONLY IInv, <1>1, <1>2 DEF IInv, Shapes, NoStrand

(* A flush goes from one await to the next.                                *)
LEMMA GoesOn ==
    ASSUME IInv, UNCHANGED <<queue, timer, disposed>>, NEW pc, pc # "none",
           NEW ids, NEW book, NEW svgs, NEW p,
           \/ flush' = [flush EXCEPT !.pc = pc, !.plan = p]
           \/ flush' = [flush EXCEPT !.pc = pc, !.nb = book, !.svgs = svgs, !.ids = ids]
    PROVE  IInv'
<1>1. PICK a, b, c, d, e :
         flush = [pc |-> a, ids |-> b, nb |-> c, svgs |-> d, plan |-> e]
    BY DEF IInv, Shapes
<1>2. \/ flush' = [pc |-> pc, ids |-> b, nb |-> c, svgs |-> d, plan |-> p]
      \/ flush' = [pc |-> pc, ids |-> ids, nb |-> book, svgs |-> svgs, plan |-> e]
    BY <1>1
<1>3. /\ flush'.pc = pc
      /\ flush' = [pc |-> flush'.pc, ids |-> flush'.ids, nb |-> flush'.nb,
                   svgs |-> flush'.svgs, plan |-> flush'.plan]
    BY ONLY <1>2
<1> QED BY ONLY IInv, <1>3, UNCHANGED <<queue, timer, disposed>>, pc # "none"
           DEF IInv, Shapes, NoStrand

LEMMA SchedulerInv ==
    ASSUME IInv, Scheduler
    PROVE  IInv'
<1>1. CASE TimerFires
    <2>1. CASE flush.pc # "none"
        BY <1>1, <2>1 DEF TimerFires, IInv, Shapes, NoStrand
    <2>2. CASE flush.pc = "none"
        <3>1. DoFlush(queue, <<>>)
            BY <1>1, <2>2 DEF TimerFires
        <3> QED BY <2>2, <3>1, DoFlushIs DEF IInv, Shapes
    <2> QED BY <2>1, <2>2
<1>2. CASE Resume
    <2>1. disposed' = disposed
        BY <1>2 DEF Resume
    <2>2. CASE UNCHANGED <<queue, timer, flush>>
        BY <2>1, <2>2 DEF IInv, Shapes, NoStrand
    <2>3. CASE flush.pc = "none" /\ \E waiting : DoFlush(queue, waiting)
        BY <2>3, DoFlushIs DEF IInv, Shapes
    <2> QED BY <1>2, <2>2, <2>3 DEF Resume
<1>3. CASE FlushHidden \/ FlushHook \/ FlushFails
    BY <1>3, EndFlushIs DEF FlushHidden, FlushHook, FlushFails
<1>4. CASE FlushBuild
    <2>1. UNCHANGED <<queue, timer, disposed>>
        BY <1>4 DEF FlushBuild
    <2>2. \/ \E p : flush' = [flush EXCEPT !.pc = "hook", !.plan = p]
          \/ \E book, svgs, ids :
                flush' = [flush EXCEPT !.pc = "svg", !.nb = book, !.svgs = svgs, !.ids = ids]
        BY <1>4 DEF FlushBuild, DrawPart
    <2> QED BY <2>1, <2>2, GoesOn
<1>5. CASE FlushSvg
    <2>1. UNCHANGED <<queue, timer, disposed>>
        BY <1>5 DEF FlushSvg
    <2>2. \E p : flush' = [flush EXCEPT !.pc = "hook", !.plan = p]
        BY <1>5 DEF FlushSvg, DrawPart
    <2> QED BY <2>1, <2>2, GoesOn
<1> QED BY <1>1, <1>2, <1>3, <1>4, <1>5 DEF Scheduler

(* flushNow, from an operation or a socket that closes.                    *)
LEMMA FlushNowInv ==
    ASSUME IInv, NEW w, FlushNow(w), UNCHANGED disposed
    PROVE  IInv'
<1>1. CASE flush.pc # "none"
    BY <1>1 DEF FlushNow, IInv, Shapes, NoStrand
<1>2. CASE flush.pc = "none"
    <2>1. \E waiting : DoFlush(queue, waiting)
        BY <1>2 DEF FlushNow
    <2> QED BY <1>2, <2>1, DoFlushIs DEF IInv, Shapes
<1> QED BY <1>1, <1>2

(* A message that is queued and flushed at once.                           *)
LEMMA FlushAfterInv ==
    ASSUME IInv, NEW pc, FlushAfter(pc)
    PROVE  IInv'
<1> DEFINE q == IF disposed THEN queue ELSE Append(queue, run.cell)
<1>1. IsSeq(q) /\ (q = <<>> => queue = <<>>)
    BY Queued DEF IInv, Shapes
<1>2. disposed' = disposed
    BY DEF FlushAfter
<1>3. CASE flush.pc # "none"
    <2>1. queue' = q /\ UNCHANGED flush
        BY <1>3 DEF FlushAfter
    <2> QED BY <1>1, <1>3, <2>1 DEF IInv, Shapes, NoStrand
<1>4. CASE flush.pc = "none"
    <2>1. \E waiting : DoFlush(q, waiting)
        BY <1>4 DEF FlushAfter
    <2> HIDE DEF q
    <2> QED BY <1>1, <1>4, <2>1, DoFlushIs DEF IInv
<1> QED BY <1>3, <1>4

LEMMA RunMessageInv ==
    ASSUME IInv, RunMessage
    PROVE  IInv'
<1>1. /\ UNCHANGED <<flush, disposed>>
      /\ queue' = IF disposed THEN queue ELSE Append(queue, run.cell)
      /\ timer' = (timer \/ (~disposed /\ flush.pc = "none"))
    BY DEF RunMessage, Enqueue
<1>2. IsSeq(queue')
    BY <1>1, Queued DEF IInv, Shapes
<1> QED BY ONLY IInv, <1>1, <1>2 DEF IInv, Shapes, NoStrand

LEMMA DisposeInv ==
    ASSUME IInv, Dispose
    PROVE  IInv'
<1>1. disposed'
    BY DEF Dispose
<1>2. CASE flush.pc # "none"
    BY <1>1, <1>2 DEF Dispose, IInv, Shapes, NoStrand
<1>3. CASE flush.pc = "none"
    <2>1. \E waiting : DoFlush(queue, waiting)
        BY <1>3 DEF Dispose
    <2> QED BY <1>3, <2>1, DoFlushIs DEF IInv, Shapes
<1> QED BY <1>2, <1>3

-----------------------------------------------------------------------------
LEMMA InitInv == Init => IInv
<1> SUFFICES ASSUME Init PROVE IInv
    OBVIOUS
<1>1. queue = <<>> /\ flush = NoFlush /\ <<>> \in Seq({})
    BY DEF Init
<1>2. flush = [pc |-> flush.pc, ids |-> flush.ids, nb |-> flush.nb,
               svgs |-> flush.svgs, plan |-> flush.plan]
    BY <1>1 DEF NoFlush
<1> QED BY ONLY <1>1, <1>2 DEF IInv, Shapes, NoStrand, IsSeq

LEMMA NextInv == IInv /\ [Next]_vars => IInv'
<1> SUFFICES ASSUME IInv, [Next]_vars PROVE IInv'
    OBVIOUS
<1>1. CASE Scheduler
    BY <1>1, SchedulerInv
<1>2. CASE OpBegin \/ SocketClose
    BY <1>2, FlushNowInv DEF OpBegin, SocketClose
<1>3. CASE RunReply \/ RunIdle
    BY <1>3, FlushAfterInv DEF RunReply, RunIdle
<1>4. CASE RunMessage
    BY <1>4, RunMessageInv
<1>5. CASE Dispose
    BY <1>5, DisposeInv
<1>6. CASE Redraw \/ RunStart \/ RunEnds \/ RunAborted \/ Hide \/ Show \/ UNCHANGED vars
    <2>1. UNCHANGED sched
        BY <1>6 DEF Redraw, OpFlushed, OpMutate, OpCommit, OpDraw, OpRestore, ShowBuild,
                    ShowDraw, RunStart, RunEnds, RunAborted, Hide, Show, vars
    <2> QED BY <2>1 DEF sched, IInv, Shapes, NoStrand
<1> QED BY <1>1, <1>2, <1>3, <1>4, <1>5, <1>6 DEF Next

(* However the timer, a run, a socket that closes, an operation and a       *)
(* shutdown flush between the messages, and whichever flushes fail, what is *)
(* queued has a timer or a flush whose end sets one (iopub-batch.ts,        *)
(* enqueue, flushNow and the finally block of _runFlush).                   *)
THEOREM NoMessageIsStranded == FairSpec => []NoStrand
<1>1. IInv => NoStrand
    BY DEF IInv
<1> QED
    BY <1>1, InitInv, NextInv, PTL DEF FairSpec, Spec

-----------------------------------------------------------------------------
(* Induction, by the least counterexample.                                 *)

LEMMA LeastNatural ==
    ASSUME NEW S, S \subseteq Nat, S # {}
    PROVE  \E n \in S : \A m \in S : n <= m
<1> DEFINE R == {p \in Nat \X Nat : p[1] < p[2]}
<1>1. IsWellFoundedOn(R, Nat)
    BY NatLessThanWellFounded DEF OpToRel
<1> HIDE DEF R
<1>2. PICK n \in S : \A m \in S : ~ (<<m, n>> \in R)
    BY <1>1, WFMin
<1>3. \A m \in S : <<m, n>> \in Nat \X Nat
    OBVIOUS
<1>4. \A m \in S : ~ (m < n)
    BY <1>2, <1>3 DEF R
<1> QED
    BY <1>4

(* What holds of 0 and goes from n to n + 1, as a set, has all numbers.    *)
LEMMA Induction ==
    ASSUME NEW S, NEW N \in Nat, 0 \in S, \A n \in 0 .. N - 1 : n \in S => n + 1 \in S
    PROVE  0 .. N \subseteq S
<1> DEFINE T == (0 .. N) \ S
<1>1. ASSUME T # {} PROVE FALSE
    <2>1. T \subseteq Nat
        OBVIOUS
    <2>2. PICK n \in T : \A m \in T : n <= m
        BY <1>1, <2>1, LeastNatural
    <2>3. n # 0 /\ n \in 0 .. N
        BY <2>2
    <2>4. n - 1 \notin T /\ n - 1 \in 0 .. N - 1
        BY <2>2, <2>3
    <2>5. n - 1 \in S /\ n - 1 + 1 = n
        BY <2>3, <2>4
    <2> QED BY <2>2, <2>4, <2>5
<1> QED
    BY <1>1

-----------------------------------------------------------------------------
(* Sequences.                                                              *)

LEMMA SeqIs ==
    ASSUME NEW s, IsSeq(s)
    PROVE  Len(s) \in Nat /\ DOMAIN s = 1 .. Len(s) /\ s = [i \in 1 .. Len(s) |-> s[i]]
BY DEF IsSeq

LEMMA MadeSeq ==
    ASSUME NEW n \in Nat, NEW s, s = [i \in 1 .. n |-> s[i]]
    PROVE  IsSeq(s) /\ Len(s) = n
<1> DEFINE S == {s[i] : i \in 1 .. n}
<1>1. [i \in 1 .. n |-> s[i]] \in Seq(S)
    OBVIOUS
<1>2. s \in Seq(S)
    BY <1>1
<1>3. Len(s) = n
    BY <1>2
<1> HIDE DEF S
<1> QED
    BY <1>2, <1>3 DEF IsSeq

LEMMA NoneIsSeq == IsSeq(<<>>) /\ Len(<<>>) = 0
<1>1. <<>> \in Seq({}) /\ Len(<<>>) = 0
    OBVIOUS
<1> QED
    BY <1>1 DEF IsSeq

LEMMA OneIsSeq ==
    ASSUME NEW e
    PROVE  IsSeq(<<e>>) /\ Len(<<e>>) = 1 /\ <<e>>[1] = e
<1>1. <<e>> \in Seq({e}) /\ Len(<<e>>) = 1 /\ <<e>>[1] = e
    OBVIOUS
<1> QED
    BY <1>1 DEF IsSeq

LEMMA Joined ==
    ASSUME NEW s, NEW t, IsSeq(s), IsSeq(t)
    PROVE  /\ IsSeq(s \o t) /\ Len(s \o t) = Len(s) + Len(t)
           /\ \A i \in 1 .. Len(s) : (s \o t)[i] = s[i]
           /\ \A i \in 1 .. Len(t) : (s \o t)[Len(s) + i] = t[i]
<1>1. PICK A, B : s \in Seq(A) /\ t \in Seq(B)
    BY DEF IsSeq
<1> DEFINE S == A \cup B
<1>2. ASSUME NEW r, NEW R, r \in Seq(R), R \subseteq S PROVE r \in Seq(S)
    <2>1. Len(r) \in Nat /\ r = [i \in 1 .. Len(r) |-> r[i]] /\ \A i \in 1 .. Len(r) : r[i] \in R
        BY <1>2
    <2>2. [i \in 1 .. Len(r) |-> r[i]] \in Seq(S)
        BY <1>2, <2>1
    <2> QED BY <2>1, <2>2
<1>3. s \in Seq(S) /\ t \in Seq(S)
    BY <1>1, <1>2
<1> HIDE DEF S
<1>4. /\ s \o t \in Seq(S) /\ Len(s \o t) = Len(s) + Len(t)
      /\ \A i \in 1 .. Len(s) + Len(t) :
            (s \o t)[i] = IF i <= Len(s) THEN s[i] ELSE t[i - Len(s)]
    BY <1>3, ConcatProperties
<1>5. Len(s) \in Nat /\ Len(t) \in Nat
    BY <1>3
<1>6. \A i \in 1 .. Len(t) : (s \o t)[Len(s) + i] = t[i]
    <2> SUFFICES ASSUME NEW i \in 1 .. Len(t) PROVE (s \o t)[Len(s) + i] = t[i]
        OBVIOUS
    <2>1. Len(s) + i \in 1 .. Len(s) + Len(t) /\ ~(Len(s) + i <= Len(s)) /\ Len(s) + i - Len(s) = i
        BY <1>5
    <2> QED BY <1>4, <2>1
<1>7. \A i \in 1 .. Len(s) : (s \o t)[i] = s[i]
    BY <1>4, <1>5
<1>8. IsSeq(s \o t)
    BY ONLY <1>4 DEF IsSeq
<1> QED
    BY ONLY <1>4, <1>6, <1>7, <1>8

LEMMA Appended ==
    ASSUME NEW s, IsSeq(s), NEW e
    PROVE  /\ IsSeq(Append(s, e)) /\ Len(Append(s, e)) = Len(s) + 1
           /\ Append(s, e)[Len(s) + 1] = e
           /\ \A i \in 1 .. Len(s) : Append(s, e)[i] = s[i]
<1>1. Len(s) \in Nat
    BY SeqIs
<1>2. /\ IsSeq(s \o <<e>>) /\ Len(s \o <<e>>) = Len(s) + 1
      /\ \A i \in 1 .. Len(s) : (s \o <<e>>)[i] = s[i]
      /\ (s \o <<e>>)[Len(s) + 1] = e
    BY <1>1, OneIsSeq, Joined
<1>3. Append(s, e) = s \o <<e>>
    <2>1. PICK S : s \in Seq(S)
        BY DEF IsSeq
    <2>2. s \in Seq(S \cup {e})
        <3>1. s = [i \in 1 .. Len(s) |-> s[i]] /\ \A i \in 1 .. Len(s) : s[i] \in S \cup {e}
            BY <2>1
        <3>2. [i \in 1 .. Len(s) |-> s[i]] \in Seq(S \cup {e})
            BY <1>1, <3>1
        <3> QED BY <3>1, <3>2
    <2> QED BY <2>2, AppendIsConcat
<1> QED
    BY <1>2, <1>3

LEMMA Cut ==
    ASSUME NEW s, IsSeq(s), NEW m \in 1 .. Len(s) + 1, NEW n \in m - 1 .. Len(s)
    PROVE  /\ IsSeq(SubSeq(s, m, n)) /\ Len(SubSeq(s, m, n)) = n - m + 1
           /\ \A i \in 1 .. n - m + 1 : SubSeq(s, m, n)[i] = s[m + i - 1]
<1>1. PICK S : s \in Seq(S)
    BY DEF IsSeq
<1>2. Len(s) \in Nat /\ \A i \in m .. n : s[i] \in S
    BY <1>1
<1>3. /\ SubSeq(s, m, n) \in Seq(S)
      /\ Len(SubSeq(s, m, n)) = IF m <= n THEN n - m + 1 ELSE 0
      /\ \A i \in 1 .. n - m + 1 : SubSeq(s, m, n)[i] = s[m + i - 1]
    BY <1>2, SubSeqProperties
<1>4. Len(SubSeq(s, m, n)) = n - m + 1
    BY <1>2, <1>3
<1> QED
    BY <1>3, <1>4 DEF IsSeq

-----------------------------------------------------------------------------
(* The functions that a plan is built with, step by step: each is told by   *)
(* what it is before the last step.                                        *)

Summed(f, s, n) == IF n = 0 THEN 0 ELSE f[n - 1] + s[n]
Merging(f, outputs, n) == IF n = 0 THEN <<>> ELSE Merge(f[n - 1], outputs[n])
Adding(f, merged, png, i, n) ==
    IF n = 0 THEN NoLines ELSE Join(f[n - 1], dispatchOutput(merged[n], png[n], <<i, n>>))

Blank == [text |-> NoLines, ranges |-> <<>>, sources |-> <<>>]
Growing(f, book, pngs, n) ==
    IF n = 0 THEN Blank ELSE AddCell(f[n - 1], book[n], n, pngs)

LEMMA SummedIs ==
    ASSUME NEW s, NEW N \in Nat
    PROVE  \E f : f = [n \in 0 .. N |-> Summed(f, s, n)]
<1> DEFINE P(m) == \E f : f = [n \in 0 .. m |-> Summed(f, s, n)]
           S == {m \in Nat : P(m)}
<1>1. 0 \in S
    <2>1. PICK b : \A f : Summed(f, s, 0) = b
        BY DEF Summed
    <2>2. PICK f : f = [n \in 0 .. 0 |-> b]
        OBVIOUS
    <2>3. f = [n \in 0 .. 0 |-> Summed(f, s, n)]
        BY <2>1, <2>2
    <2> QED BY <2>3
<1>2. ASSUME NEW m \in 0 .. N - 1, m \in S PROVE m + 1 \in S
    <2>1. PICK f : f = [n \in 0 .. m |-> Summed(f, s, n)]
        BY <1>2
    <2>2. PICK v, g : /\ v = Summed(f, s, m + 1)
                      /\ g = [n \in 0 .. m + 1 |-> IF n = m + 1 THEN v ELSE f[n]]
        OBVIOUS
    <2>3. ASSUME NEW n \in 0 .. m + 1 PROVE g[n] = Summed(g, s, n)
        <3>1. n # 0 => g[n - 1] = f[n - 1]
            BY <2>2
        <3>2. Summed(g, s, n) = Summed(f, s, n)
            BY <3>1 DEF Summed
        <3>3. n # m + 1 => f[n] = Summed(f, s, n)
            BY <2>1
        <3> QED BY <2>2, <3>2, <3>3
    <2>4. g = [n \in 0 .. m + 1 |-> Summed(g, s, n)]
        BY <2>2, <2>3
    <2> QED BY <2>4
<1>3. 0 .. N \subseteq S
    <2> HIDE DEF S
    <2> QED BY <1>1, <1>2, Induction
<1>4. N \in S
    BY <1>3
<1> QED
    BY <1>4

LEMMA MergingIs ==
    ASSUME NEW outputs, NEW N \in Nat
    PROVE  \E f : f = [n \in 0 .. N |-> Merging(f, outputs, n)]
<1> DEFINE P(m) == \E f : f = [n \in 0 .. m |-> Merging(f, outputs, n)]
           S == {m \in Nat : P(m)}
<1>1. 0 \in S
    <2>1. PICK b : \A f : Merging(f, outputs, 0) = b
        BY DEF Merging
    <2>2. PICK f : f = [n \in 0 .. 0 |-> b]
        OBVIOUS
    <2>3. f = [n \in 0 .. 0 |-> Merging(f, outputs, n)]
        BY <2>1, <2>2
    <2> QED BY <2>3
<1>2. ASSUME NEW m \in 0 .. N - 1, m \in S PROVE m + 1 \in S
    <2>1. PICK f : f = [n \in 0 .. m |-> Merging(f, outputs, n)]
        BY <1>2
    <2>2. PICK v, g : /\ v = Merging(f, outputs, m + 1)
                      /\ g = [n \in 0 .. m + 1 |-> IF n = m + 1 THEN v ELSE f[n]]
        OBVIOUS
    <2>3. ASSUME NEW n \in 0 .. m + 1 PROVE g[n] = Merging(g, outputs, n)
        <3>1. n # 0 => g[n - 1] = f[n - 1]
            BY <2>2
        <3>2. Merging(g, outputs, n) = Merging(f, outputs, n)
            BY <3>1 DEF Merging
        <3>3. n # m + 1 => f[n] = Merging(f, outputs, n)
            BY <2>1
        <3> QED BY <2>2, <3>2, <3>3
    <2>4. g = [n \in 0 .. m + 1 |-> Merging(g, outputs, n)]
        BY <2>2, <2>3
    <2> QED BY <2>4
<1>3. 0 .. N \subseteq S
    <2> HIDE DEF S
    <2> QED BY <1>1, <1>2, Induction
<1>4. N \in S
    BY <1>3
<1> QED
    BY <1>4

LEMMA AddingIs ==
    ASSUME NEW merged, NEW png, NEW i, NEW N \in Nat
    PROVE  \E f : f = [n \in 0 .. N |-> Adding(f, merged, png, i, n)]
<1> DEFINE P(m) == \E f : f = [n \in 0 .. m |-> Adding(f, merged, png, i, n)]
           S == {m \in Nat : P(m)}
<1>1. 0 \in S
    <2>1. PICK b : \A f : Adding(f, merged, png, i, 0) = b
        BY DEF Adding
    <2>2. PICK f : f = [n \in 0 .. 0 |-> b]
        OBVIOUS
    <2>3. f = [n \in 0 .. 0 |-> Adding(f, merged, png, i, n)]
        BY <2>1, <2>2
    <2> QED BY <2>3
<1>2. ASSUME NEW m \in 0 .. N - 1, m \in S PROVE m + 1 \in S
    <2>1. PICK f : f = [n \in 0 .. m |-> Adding(f, merged, png, i, n)]
        BY <1>2
    <2>2. PICK v, g : /\ v = Adding(f, merged, png, i, m + 1)
                      /\ g = [n \in 0 .. m + 1 |-> IF n = m + 1 THEN v ELSE f[n]]
        OBVIOUS
    <2>3. ASSUME NEW n \in 0 .. m + 1 PROVE g[n] = Adding(g, merged, png, i, n)
        <3>1. n # 0 => g[n - 1] = f[n - 1]
            BY <2>2
        <3>2. Adding(g, merged, png, i, n) = Adding(f, merged, png, i, n)
            BY <3>1 DEF Adding
        <3>3. n # m + 1 => f[n] = Adding(f, merged, png, i, n)
            BY <2>1
        <3> QED BY <2>2, <3>2, <3>3
    <2>4. g = [n \in 0 .. m + 1 |-> Adding(g, merged, png, i, n)]
        BY <2>2, <2>3
    <2> QED BY <2>4
<1>3. 0 .. N \subseteq S
    <2> HIDE DEF S
    <2> QED BY <1>1, <1>2, Induction
<1>4. N \in S
    BY <1>3
<1> QED
    BY <1>4

LEMMA GrowingIs ==
    ASSUME NEW book, NEW pngs, NEW N \in Nat
    PROVE  \E f : f = [n \in 0 .. N |-> Growing(f, book, pngs, n)]
<1> DEFINE P(m) == \E f : f = [n \in 0 .. m |-> Growing(f, book, pngs, n)]
           S == {m \in Nat : P(m)}
<1>1. 0 \in S
    <2>1. PICK b : \A f : Growing(f, book, pngs, 0) = b
        BY DEF Growing
    <2>2. PICK f : f = [n \in 0 .. 0 |-> b]
        OBVIOUS
    <2>3. f = [n \in 0 .. 0 |-> Growing(f, book, pngs, n)]
        BY <2>1, <2>2
    <2> QED BY <2>3
<1>2. ASSUME NEW m \in 0 .. N - 1, m \in S PROVE m + 1 \in S
    <2>1. PICK f : f = [n \in 0 .. m |-> Growing(f, book, pngs, n)]
        BY <1>2
    <2>2. PICK v, g : /\ v = Growing(f, book, pngs, m + 1)
                      /\ g = [n \in 0 .. m + 1 |-> IF n = m + 1 THEN v ELSE f[n]]
        OBVIOUS
    <2>3. ASSUME NEW n \in 0 .. m + 1 PROVE g[n] = Growing(g, book, pngs, n)
        <3>1. n # 0 => g[n - 1] = f[n - 1]
            BY <2>2
        <3>2. Growing(g, book, pngs, n) = Growing(f, book, pngs, n)
            BY <3>1 DEF Growing
        <3>3. n # m + 1 => f[n] = Growing(f, book, pngs, n)
            BY <2>1
        <3> QED BY <2>2, <3>2, <3>3
    <2>4. g = [n \in 0 .. m + 1 |-> Growing(g, book, pngs, n)]
        BY <2>2, <2>3
    <2> QED BY <2>4
<1>3. 0 .. N \subseteq S
    <2> HIDE DEF S
    <2> QED BY <1>1, <1>2, Induction
<1>4. N \in S
    BY <1>3
<1> QED
    BY <1>4

LEMMA TotalIs ==
    ASSUME NEW s, IsSeq(s)
    PROVE  \E f : /\ f = [n \in 0 .. Len(s) |-> Summed(f, s, n)]
                  /\ Total(s) = f[Len(s)]
<1>1. Len(s) \in Nat
    BY SeqIs
<1>2. PICK f : /\ f = CHOOSE g : g = [n \in 0 .. Len(s) |-> Summed(g, s, n)]
               /\ f = [n \in 0 .. Len(s) |-> Summed(f, s, n)]
    BY <1>1, SummedIs
<1>3. Total(s) = (CHOOSE g : g = [n \in 0 .. Len(s) |->
                                     IF n = 0 THEN 0 ELSE g[n - 1] + s[n]])[Len(s)]
    BY DEF Total
<1>4. Total(s) = f[Len(s)]
    BY <1>2, <1>3 DEF Summed
<1> QED
    BY <1>2, <1>4, ZenonT(30)

LEMMA mergeStreamsIs ==
    ASSUME NEW outputs, IsSeq(outputs)
    PROVE  \E f : /\ f = [n \in 0 .. Len(outputs) |-> Merging(f, outputs, n)]
                  /\ mergeStreams(outputs) = f[Len(outputs)]
<1>1. Len(outputs) \in Nat
    BY SeqIs
<1>2. PICK f : /\ f = CHOOSE g : g = [n \in 0 .. Len(outputs) |-> Merging(g, outputs, n)]
               /\ f = [n \in 0 .. Len(outputs) |-> Merging(f, outputs, n)]
    BY <1>1, MergingIs, SMTT(30)
<1>3. mergeStreams(outputs) =
         (CHOOSE g : g = [n \in 0 .. Len(outputs) |->
                             IF n = 0 THEN <<>> ELSE Merge(g[n - 1], outputs[n])])[Len(outputs)]
    BY DEF mergeStreams
<1>4. mergeStreams(outputs) = f[Len(outputs)]
    BY <1>2, <1>3 DEF Merging
<1> QED
    BY <1>2, <1>4, ZenonT(30)

(* The pictures of the outputs of a cell.                                  *)
PngsOf(pngs, i, merged) == [j \in DOMAIN merged |-> PngAt(pngs, <<i, j>>)]

LEMMA OutputsAre ==
    ASSUME NEW outputs, NEW i, NEW pngs, NEW merged, merged = mergeStreams(outputs),
           IsSeq(merged), NEW png, png = PngsOf(pngs, i, merged)
    PROVE  \E f : /\ f = [n \in 0 .. Len(merged) |-> Adding(f, merged, png, i, n)]
                  /\ appendCellOutputs(outputs, i, pngs) = Truncated(f[Len(merged)])
<1>1. Len(merged) \in Nat
    BY SeqIs
<1>5. \E f : f = [n \in 0 .. Len(merged) |-> Adding(f, merged, png, i, n)]
    BY ONLY <1>1, AddingIs
<1>2. PICK f : /\ f = CHOOSE g : g = [n \in 0 .. Len(merged) |-> Adding(g, merged, png, i, n)]
               /\ f = [n \in 0 .. Len(merged) |-> Adding(f, merged, png, i, n)]
    BY ONLY <1>5
<1>3. appendCellOutputs(outputs, i, pngs) =
         Truncated((CHOOSE g : g = [n \in 0 .. Len(merged) |->
             IF n = 0 THEN NoLines
             ELSE Join(g[n - 1], dispatchOutput(merged[n], png[n], <<i, n>>))])[Len(merged)])
    BY DEF appendCellOutputs, JoinedOutputs, PngsOf
<1>4. appendCellOutputs(outputs, i, pngs) = Truncated(f[Len(merged)])
    BY <1>2, <1>3 DEF Adding
<1> QED
    BY ONLY <1>2, <1>4, ZenonT(30)

LEMMA PlanIs ==
    ASSUME NEW book, IsSeq(book), NEW pngs
    PROVE  \E f : /\ f = [n \in 0 .. Len(book) |-> Growing(f, book, pngs, n)]
                  /\ buildRenderPlan(book, pngs) =
                        PlanFrom(IF book = <<>> THEN Guidance ELSE f[Len(book)], book)
<1>1. Len(book) \in Nat
    BY SeqIs
<1>5. \E f : f = [n \in 0 .. Len(book) |-> Growing(f, book, pngs, n)]
    BY ONLY <1>1, GrowingIs
<1>2. PICK f : /\ f = CHOOSE g : g = [n \in 0 .. Len(book) |-> Growing(g, book, pngs, n)]
               /\ f = [n \in 0 .. Len(book) |-> Growing(f, book, pngs, n)]
    BY ONLY <1>5
<1>3. buildRenderPlan(book, pngs) =
         PlanFrom(IF book = <<>> THEN Guidance
                  ELSE (CHOOSE g : g = [n \in 0 .. Len(book) |->
                           IF n = 0 THEN [text |-> NoLines, ranges |-> <<>>, sources |-> <<>>]
                           ELSE AddCell(g[n - 1], book[n], n, pngs)])[Len(book)], book)
    BY DEF buildRenderPlan
<1>4. buildRenderPlan(book, pngs) =
         PlanFrom(IF book = <<>> THEN Guidance ELSE f[Len(book)], book)
    BY <1>2, <1>3 DEF Growing, Blank
<1> QED
    BY <1>2, <1>4, ZenonT(30)

-----------------------------------------------------------------------------
(* What is typed.                                                          *)

LEMMA TotalIsNat ==
    ASSUME NEW s, s \in Seq(Nat)
    PROVE  Total(s) \in Nat
<1>1. IsSeq(s) /\ Len(s) \in Nat /\ \A n \in 1 .. Len(s) : s[n] \in Nat
    BY DEF IsSeq
<1>2. PICK f : /\ f = [n \in 0 .. Len(s) |-> Summed(f, s, n)]
               /\ Total(s) = f[Len(s)]
    BY <1>1, TotalIs
<1> DEFINE S == {n \in 0 .. Len(s) : f[n] \in Nat}
<1>3. 0 \in S
    <2>1. 0 \in 0 .. Len(s)
        BY <1>1
    <2>2. f[0] = Summed(f, s, 0)
        BY <1>2, <2>1
    <2> QED BY <2>1, <2>2 DEF Summed
<1>4. ASSUME NEW n \in 0 .. Len(s) - 1, n \in S PROVE n + 1 \in S
    <2>1. n + 1 \in 0 .. Len(s) /\ n + 1 # 0 /\ n + 1 - 1 = n /\ s[n + 1] \in Nat
        BY <1>1
    <2>2. f[n + 1] = Summed(f, s, n + 1)
        BY <1>2, <2>1
    <2>3. f[n + 1] = f[n] + s[n + 1]
        BY <2>1, <2>2 DEF Summed
    <2> QED BY <1>4, <2>1, <2>3
<1>5. 0 .. Len(s) \subseteq S
    <2> HIDE DEF S
    <2> QED BY <1>1, <1>3, <1>4, Induction
<1> QED
    BY <1>1, <1>2, <1>5

LEMMA SequenceIs ==
    ASSUME NEW s, IsSequence(s)
    PROVE  IsSeq(s)
BY DEF IsSequence, IsSeq

Outs(s) == IsSeq(s) /\ \A i \in 1 .. Len(s) : IsOutput(s[i])

LEMMA NoOuts == Outs(<<>>)
BY NoneIsSeq DEF Outs

LEMMA OutsGrow ==
    ASSUME NEW s, Outs(s), NEW e, IsOutput(e)
    PROVE  Outs(Append(s, e))
<1>1. IsSeq(s) /\ Len(s) \in Nat
    BY SeqIs DEF Outs
<1>2. PICK t : t = Append(s, e)
    OBVIOUS
<1>3. /\ IsSeq(t) /\ Len(t) = Len(s) + 1 /\ t[Len(s) + 1] = e
      /\ \A i \in 1 .. Len(s) : t[i] = s[i]
    BY <1>1, <1>2, Appended
<1>4. ASSUME NEW i \in 1 .. Len(t) PROVE IsOutput(t[i])
    <2>1. i \in 1 .. Len(s) \/ i = Len(s) + 1
        BY <1>1, <1>3
    <2> QED BY <1>3, <2>1 DEF Outs
<1> QED
    BY <1>2, <1>3, <1>4 DEF Outs

LEMMA MergeTyped ==
    ASSUME NEW m, Outs(m), NEW o, IsOutput(o)
    PROVE  Outs(Merge(m, o))
<1>1. IsSeq(m) /\ Len(m) \in Nat
    BY SeqIs DEF Outs
<1>2. CASE ~(m # <<>> /\ o.kind = "stream" /\ Last(m).kind = "stream" /\ Last(m).name = o.name)
    <2>1. Merge(m, o) = Append(m, o)
        BY <1>2 DEF Merge
    <2> QED BY <2>1, OutsGrow
<1>3. CASE m # <<>> /\ o.kind = "stream" /\ Last(m).kind = "stream" /\ Last(m).name = o.name
    <2>1. PICK e, t, h : /\ t = Last(m).text \o o.text /\ e = Stream(o.name, t) /\ h = Front(m)
        OBVIOUS
    <2>2. Merge(m, o) = Append(h, e)
        BY <1>3, <2>1 DEF Merge
    <2>3. Len(m) \in 1 .. Len(m)
        BY <1>1, <1>3, NoneIsSeq, SeqIs
    <2>4. Last(m) = m[Len(m)] /\ IsOutput(Last(m))
        BY <2>3 DEF Outs, Last
    <2>5. Last(m).text \in Seq(Nat) /\ o.text \in Seq(Nat)
        BY <1>3, <2>4 DEF IsOutput
    <2>6. t \in Seq(Nat)
        BY <2>1, <2>5
    <2>7. IsOutput(e)
        BY <2>1, <2>6 DEF IsOutput, Stream
    <2>8. h = SubSeq(m, 1, Len(m) - 1)
        BY <2>1 DEF Front
    <2>9. 1 \in 1 .. Len(m) + 1 /\ Len(m) - 1 \in 1 - 1 .. Len(m) /\ Len(m) - 1 - 1 + 1 = Len(m) - 1
        BY <1>1, <2>3
    <2>10. /\ IsSeq(h) /\ Len(h) = Len(m) - 1 - 1 + 1
           /\ \A i \in 1 .. Len(m) - 1 - 1 + 1 : h[i] = m[1 + i - 1]
        BY ONLY <1>1, <2>8, <2>9, Cut
    <2>11. \A i \in 1 .. Len(h) : h[i] = m[i] /\ i \in 1 .. Len(m)
        BY ONLY <1>1, <2>3, <2>10
    <2>12. Outs(h)
        BY <2>10, <2>11 DEF Outs
    <2> QED BY <2>2, <2>7, <2>12, OutsGrow
<1> QED
    BY <1>2, <1>3

LEMMA MergedTyped ==
    ASSUME NEW outputs, Outs(outputs)
    PROVE  Outs(mergeStreams(outputs))
<1>1. IsSeq(outputs) /\ Len(outputs) \in Nat
    BY SeqIs DEF Outs
<1>2. PICK f : /\ f = [n \in 0 .. Len(outputs) |-> Merging(f, outputs, n)]
               /\ mergeStreams(outputs) = f[Len(outputs)]
    BY <1>1, mergeStreamsIs
<1> DEFINE S == {n \in 0 .. Len(outputs) : Outs(f[n])}
<1>3. 0 \in S
    <2>1. 0 \in 0 .. Len(outputs)
        BY <1>1
    <2>2. f[0] = Merging(f, outputs, 0)
        BY <1>2, <2>1
    <2> QED BY <2>1, <2>2, NoOuts DEF Merging
<1>4. ASSUME NEW n \in 0 .. Len(outputs) - 1, n \in S PROVE n + 1 \in S
    <2>1. n + 1 \in 0 .. Len(outputs) /\ n + 1 # 0 /\ n + 1 - 1 = n /\ n + 1 \in 1 .. Len(outputs)
        BY <1>1
    <2>2. f[n + 1] = Merging(f, outputs, n + 1)
        BY <1>2, <2>1
    <2>3. f[n + 1] = Merge(f[n], outputs[n + 1])
        BY <2>1, <2>2 DEF Merging
    <2>4. Outs(f[n]) /\ IsOutput(outputs[n + 1])
        BY <1>4, <2>1 DEF Outs
    <2>5. Outs(f[n + 1])
        BY ONLY <2>3, <2>4, MergeTyped
    <2> QED BY <2>1, <2>5
<1>5. 0 .. Len(outputs) \subseteq S
    <2> HIDE DEF S
    <2> QED BY <1>1, <1>3, <1>4, Induction
<1> QED
    BY <1>1, <1>2, <1>5

Lined(r) == r = Fragment(r.lines, r.clicks) /\ IsSeq(r.lines)

LEMMA FragmentIs ==
    ASSUME NEW l, IsSeq(l), NEW c
    PROVE  Lined(Fragment(l, c)) /\ Fragment(l, c).lines = l
BY DEF Lined, Fragment

LEMMA JoinIs ==
    ASSUME NEW a, Lined(a), NEW b, Lined(b)
    PROVE  Lined(Join(a, b)) /\ Join(a, b).lines = a.lines \o b.lines
<1>1. IsSeq(a.lines \o b.lines)
    BY Joined DEF Lined
<1> QED
    BY <1>1, FragmentIs DEF Join

LEMMA NoLinesIs == Lined(NoLines) /\ NoLines.lines = <<>>
BY NoneIsSeq, FragmentIs DEF NoLines

LEMMA ImageLines ==
    ASSUME NEW rows \in Nat, NEW place
    PROVE  Lined(renderImage(rows, place))
<1>1. PICK n, s : n = (IF Sixel THEN rows ELSE 0) /\ s = [k \in 1 .. n |-> <<k, rows>>]
    OBVIOUS
<1>2. n \in Nat /\ s = [k \in 1 .. n |-> s[k]]
    BY <1>1
<1>3. IsSeq(<<<<rows>>>> \o s)
    BY <1>2, MadeSeq, OneIsSeq, Joined
<1> QED
    BY <1>1, <1>3, FragmentIs DEF renderImage

LEMMA TextLines ==
    ASSUME NEW n \in Nat
    PROVE  Lined(renderText(n))
<1>1. PICK s : s = [k \in 1 .. n |-> <<k, n>>] /\ s = [k \in 1 .. n |-> s[k]]
    OBVIOUS
<1> QED
    BY <1>1, MadeSeq, FragmentIs DEF renderText

LEMMA StreamLines ==
    ASSUME NEW text, text \in Seq(Nat)
    PROVE  Lined(renderStream(text))
<1>1. PICK n \in Nat : n = Total(text) + 1
    BY TotalIsNat
<1>2. PICK s : s = [k \in 1 .. n |-> <<k>> \o text]
    OBVIOUS
<1>3. s = [k \in 1 .. n |-> s[k]]
    BY <1>2
<1> QED
    BY <1>1, <1>2, <1>3, MadeSeq, FragmentIs DEF renderStream

LEMMA ErrorLines ==
    ASSUME NEW frames, IsSeq(frames)
    PROVE  Lined(renderError(frames))
<1>1. PICK s : s = [k \in DOMAIN frames |-> <<frames[k].count, frames[k].line>>]
    OBVIOUS
<1>2. Len(frames) \in Nat /\ s = [k \in 1 .. Len(frames) |-> s[k]]
    BY <1>1, SeqIs
<1>3. IsSeq(<<<<0>>>> \o s)
    BY <1>2, MadeSeq, OneIsSeq, Joined
<1> QED
    BY <1>1, <1>3, FragmentIs DEF renderError

LEMMA LeastIs ==
    ASSUME NEW P, P \subseteq Nat, P # {}
    PROVE  Min(P) \in P /\ \A y \in P : Min(P) <= y
BY LeastNatural DEF Min

LEMMA ChosenIs ==
    ASSUME NEW bundle, Chosen(bundle) # ""
    PROVE  Chosen(bundle) \in DOMAIN bundle
<1>1. IsSeq(MimePriority) /\ Len(MimePriority) \in Nat
    BY RenderAssumption, SequenceIs, SeqIs
<1>2. PICK P : P = {i \in 1 .. Len(MimePriority) : MimePriority[i] \in DOMAIN bundle}
    OBVIOUS
<1>3. P # {} => Min(P) \in P /\ Min(P) \in 1 .. Len(MimePriority)
    <2>1. P \subseteq 1 .. Len(MimePriority)
        BY ONLY <1>2, Zenon
    <2>2. P \subseteq Nat
        BY ONLY <1>1, <2>1
    <2> QED BY ONLY <2>1, <2>2, LeastIs, Zenon
<1>4. PICK i : i = IF P # {} THEN Min(P) ELSE 0
    OBVIOUS
<1>5. Chosen(bundle) = IF i = 0 THEN "" ELSE MimePriority[i]
    BY <1>2, <1>4 DEF Chosen, SelectInSeq
<1> QED
    BY <1>2, <1>3, <1>4, <1>5

LEMMA OutputLines ==
    ASSUME NEW o, IsOutput(o), NEW png \in Nat, NEW place
    PROVE  Lined(dispatchOutput(o, png, place))
<1>1. CASE o.kind = "stream"
    BY <1>1, StreamLines DEF dispatchOutput, IsOutput
<1>2. CASE o.kind = "error"
    BY <1>2, ErrorLines, SequenceIs DEF dispatchOutput, IsOutput
<1>3. CASE o.kind = "data"
    <2>1. dispatchOutput(o, png, place) = renderMimeData(o.bundle, png, place)
        BY <1>3 DEF dispatchOutput
    <2>2. \A m \in DOMAIN o.bundle : o.bundle[m] \in Nat
        BY <1>3 DEF IsOutput
    <2>3. PICK mime : mime = Chosen(o.bundle)
        OBVIOUS
    <2>4. mime # "" => o.bundle[mime] \in Nat
        BY <2>2, <2>3, ChosenIs
    <2>5. \/ \E rows \in Nat : renderMimeData(o.bundle, png, place) = renderImage(rows, place)
          \/ \E n \in Nat : renderMimeData(o.bundle, png, place) = renderText(n)
        BY <2>3, <2>4 DEF renderMimeData, Images
    <2> QED BY <2>1, <2>5, ImageLines, TextLines
<1> QED
    BY <1>1, <1>2, <1>3 DEF IsOutput

Pictures(pngs) == \A p \in DOMAIN pngs : pngs[p] \in Nat

LEMMA OutputsLined ==
    ASSUME NEW outputs, Outs(outputs), NEW i, NEW pngs, Pictures(pngs)
    PROVE  Lined(appendCellOutputs(outputs, i, pngs))
<1>1. PICK merged, png : merged = mergeStreams(outputs) /\ png = PngsOf(pngs, i, merged)
    OBVIOUS
<1>2. Outs(merged) /\ IsSeq(merged) /\ Len(merged) \in Nat /\ DOMAIN merged = 1 .. Len(merged)
    BY <1>1, MergedTyped, SeqIs DEF Outs
<1>3. PICK f : /\ f = [n \in 0 .. Len(merged) |-> Adding(f, merged, png, i, n)]
               /\ appendCellOutputs(outputs, i, pngs) = Truncated(f[Len(merged)])
    BY <1>1, <1>2, OutputsAre
<1>4. \A n \in 1 .. Len(merged) : png[n] \in Nat
    BY <1>1, <1>2 DEF PngsOf, PngAt, Pictures
<1> DEFINE S == {n \in 0 .. Len(merged) : Lined(f[n])}
<1>5. 0 \in S
    <2>1. 0 \in 0 .. Len(merged)
        BY <1>2
    <2>2. f[0] = Adding(f, merged, png, i, 0)
        BY <1>3, <2>1
    <2> QED BY <2>1, <2>2, NoLinesIs DEF Adding
<1>6. ASSUME NEW n \in 0 .. Len(merged) - 1, n \in S PROVE n + 1 \in S
    <2>1. n + 1 \in 0 .. Len(merged) /\ n + 1 # 0 /\ n + 1 - 1 = n /\ n + 1 \in 1 .. Len(merged)
        BY <1>2
    <2>2. f[n + 1] = Adding(f, merged, png, i, n + 1)
        BY <1>3, <2>1
    <2>3. PICK a, b, o : /\ a = f[n] /\ o = merged[n + 1]
                         /\ b = dispatchOutput(o, png[n + 1], <<i, n + 1>>)
        OBVIOUS
    <2>4. f[n + 1] = Join(a, b)
        BY <2>1, <2>2, <2>3 DEF Adding
    <2>5. Lined(a) /\ IsOutput(o) /\ png[n + 1] \in Nat
        BY <1>2, <1>4, <1>6, <2>1, <2>3 DEF Outs
    <2>6. Lined(b)
        BY ONLY <2>3, <2>5, OutputLines
    <2>7. Lined(f[n + 1])
        BY ONLY <2>4, <2>5, <2>6, JoinIs
    <2> QED BY <2>1, <2>7
<1>7. 0 .. Len(merged) \subseteq S
    <2> HIDE DEF S
    <2> QED BY <1>2, <1>5, <1>6, Induction
<1>8. PICK all : all = f[Len(merged)] /\ Lined(all)
    BY <1>2, <1>7
<1>9. CASE Len(all.lines) <= MaxOutputLines
    BY <1>3, <1>8, <1>9 DEF Truncated
<1>10. CASE ~(Len(all.lines) <= MaxOutputLines)
    <2>1. Len(all.lines) \in Nat /\ IsSeq(all.lines) /\ MaxOutputLines \in Nat \ {0}
        BY <1>8, SeqIs, RenderAssumption DEF Lined
    <2>2. PICK b : b = MaxOutputLines - 1
        OBVIOUS
    <2>3. 1 \in 1 .. Len(all.lines) + 1 /\ b \in 1 - 1 .. Len(all.lines)
        BY <1>10, <2>1, <2>2
    <2>4. IsSeq(SubSeq(all.lines, 1, b))
        BY ONLY <2>1, <2>3, Cut
    <2>5. IsSeq(SubSeq(all.lines, 1, b) \o <<<<Len(all.lines) - b>>>>)
        BY <2>4, OneIsSeq, Joined
    <2>6. Truncated(all) = Fragment(SubSeq(all.lines, 1, b) \o <<<<Len(all.lines) - b>>>>,
                                    Below(all.clicks, b))
        BY <1>10, <2>2 DEF Truncated
    <2> QED BY <1>3, <1>8, <2>5, <2>6, FragmentIs
<1> QED
    BY <1>9, <1>10

(* Lines of a cell, one or more.                                           *)
OfCell(lines, id) ==
    IsSeq(lines) /\ \A k \in 1 .. Len(lines) : lines[k].cell = id

LEMMA LinesAre ==
    ASSUME NEW id, NEW part, NEW whats, IsSeq(whats)
    PROVE  /\ OfCell(Lines(id, part, whats), id)
           /\ Len(Lines(id, part, whats)) = Len(whats)
<1>1. PICK s : s = Lines(id, part, whats)
    OBVIOUS
<1>2. Len(whats) \in Nat /\ DOMAIN whats = 1 .. Len(whats)
    BY SeqIs
<1>3. s = [k \in 1 .. Len(whats) |-> Line(id, part, k, whats[k])]
    BY <1>1, <1>2 DEF Lines
<1>4. s = [k \in 1 .. Len(whats) |-> s[k]] /\ \A k \in 1 .. Len(whats) : s[k].cell = id
    BY <1>3 DEF Line
<1>5. IsSeq(s) /\ Len(s) = Len(whats)
    BY <1>2, <1>4, MadeSeq
<1> QED
    BY <1>1, <1>4, <1>5 DEF OfCell

LEMMA OneOfCell ==
    ASSUME NEW id, NEW part, NEW at, NEW what
    PROVE  OfCell(<<Line(id, part, at, what)>>, id) /\ Len(<<Line(id, part, at, what)>>) = 1
<1>1. Line(id, part, at, what).cell = id
    BY DEF Line
<1> QED
    BY <1>1, OneIsSeq DEF OfCell

LEMMA JoinOfCell ==
    ASSUME NEW id, NEW s, NEW t, OfCell(s, id), OfCell(t, id)
    PROVE  OfCell(s \o t, id) /\ Len(s \o t) = Len(s) + Len(t)
<1>1. PICK r, m, n : r = s \o t /\ m = Len(s) /\ n = Len(t)
    OBVIOUS
<1>2. /\ m \in Nat /\ n \in Nat /\ IsSeq(r) /\ Len(r) = m + n
      /\ \A i \in 1 .. m : r[i] = s[i]
      /\ \A i \in 1 .. n : r[m + i] = t[i]
    BY <1>1, Joined, SeqIs DEF OfCell
<1>3. ASSUME NEW i \in 1 .. m + n PROVE r[i].cell = id
    <2>1. CASE i <= m
        BY <1>1, <1>2, <2>1 DEF OfCell
    <2>2. CASE i > m
        <3>1. PICK j : j = i - m
            OBVIOUS
        <3>2. j \in 1 .. n /\ m + j = i
            BY ONLY <1>2, <2>2, <3>1, i \in 1 .. m + n
        <3> QED BY <1>1, <1>2, <3>2 DEF OfCell
    <2> QED BY <1>2, <2>1, <2>2
<1> QED
    BY <1>1, <1>2, <1>3 DEF OfCell

Piece(r, id, n) == n \in Nat /\ Lined(r) /\ OfCell(r.lines, id) /\ Len(r.lines) = n

LEMMA JoinPieces ==
    ASSUME NEW id, NEW a, NEW b, NEW m, NEW n, Piece(a, id, m), Piece(b, id, n)
    PROVE  Piece(Join(a, b), id, m + n)
<1>1. PICK r : r = Join(a, b)
    OBVIOUS
<1>2. Lined(r) /\ r.lines = a.lines \o b.lines
    BY <1>1, JoinIs DEF Piece
<1>3. OfCell(a.lines \o b.lines, id) /\ Len(a.lines \o b.lines) = m + n
    BY JoinOfCell DEF Piece
<1>4. m + n \in Nat
    BY DEF Piece
<1> QED
    BY <1>1, <1>2, <1>3, <1>4 DEF Piece

LEMMA BlockIs ==
    ASSUME NEW c, IsCell(c), NEW i, NEW pngs, Pictures(pngs)
    PROVE  /\ Lined(CellBlock(c, i, pngs))
           /\ OfCell(CellBlock(c, i, pngs).lines, c.id)
           /\ Len(CellBlock(c, i, pngs).lines) >= 1
<1>1. /\ IsSeq(c.source) /\ Len(c.source) \in Nat /\ DOMAIN c.source = 1 .. Len(c.source)
      /\ Outs(c.outputs)
    BY SequenceIs, SeqIs DEF IsCell, Outs
<1>2. PICK whats : whats = [k \in DOMAIN c.source |-> <<c.source[k]>>]
    OBVIOUS
<1>3. IsSeq(whats)
    <2>1. whats = [k \in 1 .. Len(c.source) |-> whats[k]]
        BY <1>1, <1>2
    <2> QED BY <1>1, <2>1, MadeSeq
<1>4. PICK source : source = Lines(c.id, "source", whats)
    OBVIOUS
<1>5. OfCell(source, c.id) /\ Len(source) \in Nat
    BY <1>3, <1>4, LinesAre, SeqIs DEF OfCell
<1>6. PICK h : h = <<Line(c.id, "head", 1, <<c.count>>)>> \o source
    OBVIOUS
<1>7. OfCell(h, c.id) /\ Len(h) = 1 + Len(source)
    BY <1>5, <1>6, OneOfCell, JoinOfCell
<1>8. PICK top, mid : /\ top = Fragment(h, {})
                      /\ mid = Fragment(<<Line(c.id, "mid", 1, <<c.count>>)>>, {})
    OBVIOUS
<1>9. Lined(top) /\ top.lines = h /\ Lined(mid) /\ OfCell(mid.lines, c.id) /\ Len(mid.lines) = 1
    BY <1>7, <1>8, FragmentIs, OneOfCell DEF OfCell
<1>10. PICK out : out = appendCellOutputs(c.outputs, i, pngs)
    OBVIOUS
<1>11. PICK l, k : out = Fragment(l, k) /\ IsSeq(l) /\ l = out.lines
    BY <1>1, <1>10, OutputsLined DEF Lined
<1>12. PICK low : low = [out EXCEPT !.lines = Lines(c.id, "out", @)]
    OBVIOUS
<1>13. low = Fragment(Lines(c.id, "out", l), k)
    BY <1>11, <1>12 DEF Fragment
<1>14. Lined(low) /\ OfCell(low.lines, c.id) /\ Len(low.lines) \in Nat
    BY <1>11, <1>13, LinesAre, FragmentIs, SeqIs DEF OfCell
<1>15. CellBlock(c, i, pngs) = IF HasOutputs(c) THEN Join(Join(top, mid), low) ELSE top
    BY <1>2, <1>4, <1>6, <1>8, <1>10, <1>12 DEF CellBlock
<1>16. PICK n, m : n = 1 + Len(source) /\ m = Len(low.lines)
    OBVIOUS
<1>17. Piece(top, c.id, n) /\ Piece(mid, c.id, 1) /\ Piece(low, c.id, m)
    BY <1>5, <1>7, <1>9, <1>14, <1>16 DEF Piece
<1>18. Piece(Join(Join(top, mid), low), c.id, n + 1 + m)
    BY ONLY <1>17, JoinPieces
<1>19. n \in Nat /\ n >= 1 /\ m \in Nat
    BY <1>5, <1>14, <1>16
<1>20. PICK q : q \in Nat /\ q >= 1 /\ Piece(CellBlock(c, i, pngs), c.id, q)
    <2>1. CASE HasOutputs(c)
        <3>1. n + 1 + m \in Nat /\ n + 1 + m >= 1
            BY ONLY <1>19
        <3> QED BY ONLY <1>15, <1>18, <2>1, <3>1
    <2>2. CASE ~HasOutputs(c)
        BY ONLY <1>15, <1>17, <1>19, <2>2
    <2> QED BY <2>1, <2>2
<1> QED
    BY ONLY <1>20 DEF Piece

-----------------------------------------------------------------------------
(* How the lines of a plan are laid out.                                   *)

Starts(s, t) ==
    IsSeq(s) /\ IsSeq(t) /\ Len(s) <= Len(t) /\ \A i \in 1 .. Len(s) : t[i] = s[i]

LEMMA StartsItself ==
    ASSUME NEW s, IsSeq(s)
    PROVE  Starts(s, s)
BY SeqIs DEF Starts

LEMMA StartsLonger ==
    ASSUME NEW s, NEW t, Starts(s, t), NEW u, IsSeq(u)
    PROVE  Starts(s, t \o u)
<1>1. PICK w, l, m, n : w = t \o u /\ l = Len(s) /\ m = Len(t) /\ n = Len(u)
    OBVIOUS
<1>2. /\ IsSeq(w) /\ Len(w) = m + n /\ l \in Nat /\ m \in Nat /\ n \in Nat
      /\ \A i \in 1 .. m : w[i] = t[i]
    BY <1>1, Joined, SeqIs DEF Starts
<1>3. l <= m /\ \A i \in 1 .. l : t[i] = s[i]
    BY <1>1 DEF Starts
<1>4. l <= m + n /\ \A i \in 1 .. l : w[i] = s[i]
    BY ONLY <1>2, <1>3
<1> QED
    BY <1>1, <1>2, <1>4 DEF Starts

(* What starts with `m` elements of `s` and goes on with the rest is `s`.  *)
LEMMA Rejoined ==
    ASSUME NEW s, IsSeq(s), NEW t, IsSeq(t), NEW m \in Nat, m <= Len(s), m <= Len(t),
           \A i \in 1 .. m : t[i] = s[i]
    PROVE  SubSeq(t, 1, m) \o SubSeq(s, m + 1, Len(s)) = s
<1>1. PICK a, b, n, k : /\ a = SubSeq(t, 1, m) /\ b = SubSeq(s, m + 1, Len(s))
                        /\ n = Len(s) /\ k = Len(t)
    OBVIOUS
<1>2. n \in Nat /\ k \in Nat
    BY <1>1, SeqIs
<1>3. IsSeq(a) /\ Len(a) = m /\ \A i \in 1 .. m : a[i] = t[i]
    <2>1. 1 \in 1 .. Len(t) + 1 /\ m \in 1 - 1 .. Len(t) /\ m - 1 + 1 = m
        BY <1>1, <1>2
    <2>2. /\ IsSeq(a) /\ Len(a) = m - 1 + 1
          /\ \A i \in 1 .. m - 1 + 1 : a[i] = t[1 + i - 1]
        BY <1>1, <2>1, Cut
    <2> QED BY <2>1, <2>2
<1>4. IsSeq(b) /\ Len(b) = n - m /\ \A i \in 1 .. n - m : b[i] = s[m + i]
    <2>1. m + 1 \in 1 .. Len(s) + 1 /\ n \in m + 1 - 1 .. Len(s) /\ n - (m + 1) + 1 = n - m
        BY <1>1, <1>2
    <2>2. /\ IsSeq(b) /\ Len(b) = n - (m + 1) + 1
          /\ \A i \in 1 .. n - (m + 1) + 1 : b[i] = s[m + 1 + i - 1]
        BY <1>1, <2>1, Cut
    <2> QED BY <2>1, <2>2
<1>5. PICK w : w = a \o b
    OBVIOUS
<1>6. /\ IsSeq(w) /\ Len(w) = m + (n - m)
      /\ \A i \in 1 .. m : w[i] = a[i]
      /\ \A i \in 1 .. n - m : w[m + i] = b[i]
    <2>1. /\ IsSeq(w) /\ Len(w) = Len(a) + Len(b)
          /\ \A i \in 1 .. Len(a) : w[i] = a[i]
          /\ \A i \in 1 .. Len(b) : w[Len(a) + i] = b[i]
        <3>1. IsSeq(a) /\ IsSeq(b)
            BY <1>3, <1>4
        <3>2. /\ IsSeq(a \o b) /\ Len(a \o b) = Len(a) + Len(b)
              /\ \A i \in 1 .. Len(a) : (a \o b)[i] = a[i]
              /\ \A i \in 1 .. Len(b) : (a \o b)[Len(a) + i] = b[i]
            BY ONLY <3>1, Joined
        <3> QED BY ONLY <1>5, <3>2, Zenon
    <2> QED BY ONLY <1>3, <1>4, <2>1
<1>7. Len(w) = n
    BY ONLY <1>2, <1>6, m \in Nat
<1>8. ASSUME NEW i \in 1 .. n PROVE w[i] = s[i]
    <2>1. CASE i <= m
        <3>1. i \in 1 .. m
            BY <2>1
        <3> QED BY <1>3, <1>6, <3>1
    <2>2. CASE i > m
        <3>1. PICK j : j = i - m
            OBVIOUS
        <3>2. j \in 1 .. n - m /\ m + j = i
            BY <1>2, <2>2, <3>1
        <3> QED BY <1>4, <1>6, <3>2
    <2> QED BY <2>1, <2>2
<1>9. w = [i \in 1 .. n |-> w[i]] /\ s = [i \in 1 .. n |-> s[i]]
    BY <1>1, <1>6, <1>7, SeqIs
<1>10. w = s
    BY ONLY <1>8, <1>9
<1> QED
    BY <1>1, <1>5, <1>10

Book(book) == IsSeq(book) /\ \A i \in 1 .. Len(book) : IsCell(book[i])

(* The plan up to cell `n`: `f` is the plan up to each cell before it.     *)
Ranged(r, f, book, k) ==
    /\ r.cell = book[k].id
    /\ r.start = Len(f[k - 1].text.lines) /\ r.end = Len(f[k].text.lines) - 1

Coloured(lines, f, book, k) ==
    /\ Len(f[k - 1].text.lines) < Len(f[k].text.lines)
    /\ \A l \in Len(f[k - 1].text.lines) + 1 .. Len(f[k].text.lines) :
          lines[l].cell = book[k].id

Laid(f, book, n) ==
    /\ Lined(f[n].text) /\ IsSeq(f[n].ranges) /\ Len(f[n].ranges) = n
    /\ \A k \in 0 .. n : Starts(f[k].text.lines, f[n].text.lines)
    /\ \A k \in 1 .. n : Ranged(f[n].ranges[k], f, book, k)
    /\ \A k \in 1 .. n : Coloured(f[n].text.lines, f, book, k)

LEMMA BlankLaid ==
    ASSUME NEW f, f[0] = Blank, NEW book
    PROVE  Laid(f, book, 0)
<1>1. Lined(f[0].text) /\ f[0].ranges = <<>>
    BY NoLinesIs DEF Blank
<1>2. IsSeq(f[0].ranges) /\ Len(f[0].ranges) = 0
    BY <1>1, NoneIsSeq
<1>3. \A k \in 0 .. 0 : Starts(f[k].text.lines, f[0].text.lines)
    BY <1>1, StartsItself DEF Lined
<1> QED
    BY <1>1, <1>2, <1>3 DEF Laid

LEMMA NextLaid ==
    ASSUME NEW f, NEW book, NEW n \in Nat, Laid(f, book, n), NEW pngs, Pictures(pngs),
           IsCell(book[n + 1]), f[n + 1] = AddCell(f[n], book[n + 1], n + 1, pngs)
    PROVE  Laid(f, book, n + 1)
<1>1. PICK c, b, p, q, m : /\ c = book[n + 1] /\ b = CellBlock(c, n + 1, pngs)
                           /\ p = f[n] /\ q = f[n + 1] /\ m = n + 1
    OBVIOUS
<1>2. Lined(b) /\ OfCell(b.lines, c.id) /\ Len(b.lines) >= 1
    BY <1>1, BlockIs
<1>3. PICK r : r = [cell |-> c.id, start |-> Len(p.text.lines),
                    end |-> Len(p.text.lines) + Len(b.lines) - 1]
    OBVIOUS
<1>4. q.text = Join(p.text, b) /\ q.ranges = Append(p.ranges, r)
    <2>1. q = AddCell(p, c, m, pngs)
        BY <1>1
    <2>2. PICK x : x = p.sources \o SourceRange(c, b, Len(p.text.lines))
        OBVIOUS
    <2>3. q = [text |-> Join(p.text, b), ranges |-> Append(p.ranges, r), sources |-> x]
        BY <1>1, <1>3, <2>1, <2>2 DEF AddCell, AddBlock
    <2> QED BY ONLY <2>3
<1>5. /\ Lined(p.text) /\ IsSeq(p.ranges) /\ Len(p.ranges) = n
      /\ \A k \in 0 .. n : Starts(f[k].text.lines, p.text.lines)
      /\ \A k \in 1 .. n : Ranged(p.ranges[k], f, book, k)
      /\ \A k \in 1 .. n : Coloured(p.text.lines, f, book, k)
    BY <1>1 DEF Laid
<1>6. Lined(q.text) /\ q.text.lines = p.text.lines \o b.lines
    BY <1>2, <1>4, <1>5, JoinIs
<1>7. PICK s, t, u, d, e : /\ s = p.text.lines /\ t = b.lines /\ u = q.text.lines
                           /\ d = Len(s) /\ e = Len(t)
    OBVIOUS
<1>8. /\ IsSeq(s) /\ IsSeq(t) /\ d \in Nat /\ e \in Nat /\ e >= 1 /\ u = s \o t
    BY <1>2, <1>5, <1>6, <1>7, SeqIs DEF Lined
<1>9. /\ IsSeq(u) /\ Len(u) = d + e
      /\ \A i \in 1 .. d : u[i] = s[i]
      /\ \A i \in 1 .. e : u[d + i] = t[i]
    <2>1. /\ IsSeq(u) /\ Len(u) = Len(s) + Len(t)
          /\ \A i \in 1 .. Len(s) : u[i] = s[i]
          /\ \A i \in 1 .. Len(t) : u[Len(s) + i] = t[i]
        BY ONLY <1>8, Joined
    <2>2. d = Len(s) /\ e = Len(t)
        BY <1>7
    <2> QED BY ONLY <2>1, <2>2
<1>10. /\ IsSeq(q.ranges) /\ Len(q.ranges) = n + 1 /\ q.ranges[n + 1] = r
       /\ \A k \in 1 .. n : q.ranges[k] = p.ranges[k]
    BY <1>4, <1>5, Appended
<1>11. ASSUME NEW k \in 0 .. m PROVE Starts(f[k].text.lines, u)
    <2>1. CASE k = m
        BY <1>1, <1>7, <1>9, <2>1, StartsItself
    <2>2. CASE k \in 0 .. n
        <3>1. Starts(f[k].text.lines, s)
            BY <1>5, <1>7, <2>2
        <3> QED BY <1>8, <3>1, StartsLonger
    <2>3. k = m \/ k \in 0 .. n
        BY <1>1
    <2> QED BY <2>1, <2>2, <2>3
<1>12. Ranged(r, f, book, m)
    <2>1. PICK w : w = d + e
        OBVIOUS
    <2>2. r.cell = c.id /\ r.start = d /\ r.end = w - 1
        BY <1>3, <1>7, <2>1
    <2>3. m - 1 = n
        BY <1>1
    <2>4. d = Len(f[m - 1].text.lines) /\ w = Len(f[m].text.lines) /\ c.id = book[m].id
        BY <1>1, <1>7, <1>9, <2>1, <2>3
    <2> QED BY ONLY <2>2, <2>4 DEF Ranged
<1>13. ASSUME NEW k \in 1 .. m PROVE Ranged(q.ranges[k], f, book, k)
    <2>1. k = m \/ k \in 1 .. n
        BY <1>1
    <2> QED BY <1>1, <1>5, <1>10, <1>12, <2>1
<1>14. Coloured(u, f, book, m)
    <2>1. m - 1 = n
        BY <1>1
    <2>2. Len(f[m - 1].text.lines) = d /\ Len(f[m].text.lines) = d + e
        BY <1>1, <1>7, <1>9, <2>1
    <2>3. ASSUME NEW l \in d + 1 .. d + e PROVE u[l].cell = book[m].id
        <3>1. PICK j : j = l - d
            OBVIOUS
        <3>2. j \in 1 .. e /\ d + j = l
            BY <1>8, <3>1
        <3>3. u[l] = t[j]
            BY <1>9, <3>2
        <3> QED BY <1>1, <1>2, <1>7, <3>2, <3>3 DEF OfCell
    <2>4. d < d + e
        BY <1>8
    <2> QED BY <2>2, <2>3, <2>4 DEF Coloured
<1>15. ASSUME NEW k \in 1 .. n PROVE Coloured(u, f, book, k)
    <2>1. PICK x, y : x = Len(f[k - 1].text.lines) /\ y = Len(f[k].text.lines)
        OBVIOUS
    <2>2. k \in 0 .. n /\ k - 1 \in 0 .. n
        OBVIOUS
    <2>3. Starts(f[k].text.lines, s) /\ Starts(f[k - 1].text.lines, s)
        BY <1>5, <1>7, <2>2
    <2>4. x \in Nat /\ y \in Nat /\ y <= d
        BY <1>7, <2>1, <2>3, SeqIs DEF Starts
    <2>5. x < y /\ \A l \in x + 1 .. y : s[l].cell = book[k].id
        BY <1>5, <1>7, <2>1 DEF Coloured
    <2>6. \A l \in x + 1 .. y : l \in 1 .. d
        BY ONLY <2>4, <1>8
    <2>7. \A l \in x + 1 .. y : u[l].cell = book[k].id
        BY ONLY <1>9, <2>5, <2>6
    <2> QED BY <2>1, <2>5, <2>7 DEF Coloured
<1>16. ASSUME NEW k \in 1 .. m PROVE Coloured(u, f, book, k)
    <2>1. k = m \/ k \in 1 .. n
        BY <1>1
    <2> QED BY <1>14, <1>15, <2>1
<1>17. /\ Lined(f[m].text) /\ IsSeq(f[m].ranges) /\ Len(f[m].ranges) = m
       /\ f[m].text.lines = u /\ f[m].ranges = q.ranges
    BY <1>1, <1>6, <1>7, <1>10
<1>18. Laid(f, book, m)
    BY <1>11, <1>13, <1>16, <1>17 DEF Laid
<1> QED
    BY <1>1, <1>18

-----------------------------------------------------------------------------
(* Plans of notebooks.                                                     *)

IsGrowth(f, book, pngs) == f = [n \in 0 .. Len(book) |-> Growing(f, book, pngs, n)]

LEMMA GrowthSteps ==
    ASSUME NEW book, IsSeq(book), NEW pngs, NEW f, IsGrowth(f, book, pngs)
    PROVE  /\ f[0] = Blank
           /\ \A n \in 0 .. Len(book) - 1 : f[n + 1] = AddCell(f[n], book[n + 1], n + 1, pngs)
<1>1. Len(book) \in Nat
    BY SeqIs
<1>2. \A n \in 0 .. Len(book) : f[n] = Growing(f, book, pngs, n)
    BY DEF IsGrowth
<1>3. f[0] = Blank
    <2>1. f[0] = Growing(f, book, pngs, 0)
        BY <1>1, <1>2
    <2> QED BY <2>1 DEF Growing
<1>4. ASSUME NEW n \in 0 .. Len(book) - 1
      PROVE  f[n + 1] = AddCell(f[n], book[n + 1], n + 1, pngs)
    <2>1. n + 1 \in 0 .. Len(book) /\ n + 1 # 0 /\ n + 1 - 1 = n
        BY <1>1
    <2>2. f[n + 1] = Growing(f, book, pngs, n + 1)
        BY <1>2, <2>1
    <2> QED BY <2>1, <2>2 DEF Growing
<1> QED
    BY <1>3, <1>4

LEMMA AllLaid ==
    ASSUME NEW book, Book(book), NEW pngs, Pictures(pngs), NEW f, IsGrowth(f, book, pngs)
    PROVE  \A n \in 0 .. Len(book) : Laid(f, book, n)
<1>1. IsSeq(book) /\ Len(book) \in Nat
    BY SeqIs DEF Book
<1>2. /\ f[0] = Blank
      /\ \A n \in 0 .. Len(book) - 1 : f[n + 1] = AddCell(f[n], book[n + 1], n + 1, pngs)
    BY <1>1, GrowthSteps
<1> DEFINE S == {n \in 0 .. Len(book) : Laid(f, book, n)}
<1>3. 0 \in S
    BY <1>1, <1>2, BlankLaid
<1>4. ASSUME NEW n \in 0 .. Len(book) - 1, n \in S PROVE n + 1 \in S
    <2>1. n + 1 \in 0 .. Len(book) /\ n + 1 \in 1 .. Len(book) /\ n \in Nat
        BY <1>1
    <2>2. IsCell(book[n + 1])
        BY <2>1 DEF Book
    <2>3. Laid(f, book, n) /\ f[n + 1] = AddCell(f[n], book[n + 1], n + 1, pngs)
        BY <1>2, <1>4
    <2>4. Laid(f, book, n + 1)
        BY ONLY <2>1, <2>2, <2>3, Pictures(pngs), NextLaid
    <2> QED BY <2>1, <2>4
<1>5. 0 .. Len(book) \subseteq S
    <2> HIDE DEF S
    <2> QED BY <1>1, <1>3, <1>4, Induction
<1> QED
    BY <1>5

LEMMA GuidanceIs ==
    /\ IsSeq(Guidance.text.lines) /\ Len(Guidance.text.lines) = 8
    /\ \A k \in 1 .. 8 : Guidance.text.lines[k].cell = NoCell
    /\ Guidance.ranges = <<>>
<1>1. PICK w : w = [k \in 1 .. 8 |-> <<k>>] /\ w = [k \in 1 .. 8 |-> w[k]]
    OBVIOUS
<1>2. IsSeq(w) /\ Len(w) = 8
    BY <1>1, MadeSeq
<1>3. /\ OfCell(Lines(NoCell, "guide", w), NoCell)
      /\ Len(Lines(NoCell, "guide", w)) = 8
    BY <1>2, LinesAre
<1>4. /\ Guidance.text.lines = Lines(NoCell, "guide", w) /\ Guidance.ranges = <<>>
    BY <1>1 DEF Guidance, Fragment
<1> QED
    BY <1>3, <1>4 DEF OfCell

(* A plan of `book`: built as `f` tells.                                   *)
Grown(p, book, f) ==
    /\ book = <<>> => p.lines = Guidance.text.lines /\ p.ranges = <<>>
    /\ book # <<>> => /\ p.lines = f[Len(book)].text.lines
                      /\ p.ranges = f[Len(book)].ranges

LEMMA PlanGrown ==
    ASSUME NEW book, IsSeq(book), NEW pngs, NEW p, p = buildRenderPlan(book, pngs)
    PROVE  \E f : IsGrowth(f, book, pngs) /\ Grown(p, book, f)
<1>1. PICK f : /\ f = [n \in 0 .. Len(book) |-> Growing(f, book, pngs, n)]
               /\ p = PlanFrom(IF book = <<>> THEN Guidance ELSE f[Len(book)], book)
    BY PlanIs
<1>2. CASE book = <<>>
    BY <1>1, <1>2 DEF PlanFrom, IsGrowth, Grown, Guidance
<1>3. CASE book # <<>>
    <2>1. p = PlanFrom(f[Len(book)], book)
        BY <1>1, <1>3
    <2>2. p.lines = f[Len(book)].text.lines /\ p.ranges = f[Len(book)].ranges
        BY ONLY <2>1 DEF PlanFrom
    <2>3. IsGrowth(f, book, pngs)
        BY <1>1 DEF IsGrowth
    <2>4. Grown(p, book, f)
        BY ONLY <1>3, <2>2 DEF Grown
    <2> QED BY <2>3, <2>4
<1> QED
    BY <1>2, <1>3

LEMMA PlanLines ==
    ASSUME NEW book, Book(book), NEW pngs, Pictures(pngs),
           NEW p, p = buildRenderPlan(book, pngs)
    PROVE  /\ IsSeq(p.lines) /\ Len(p.lines) >= 1
           /\ IsSeq(p.ranges) /\ Len(p.ranges) = Len(book)
           /\ \A k \in 1 .. Len(book) : p.ranges[k].cell = book[k].id
<1>1. IsSeq(book) /\ Len(book) \in Nat
    BY SeqIs DEF Book
<1>2. PICK f : IsGrowth(f, book, pngs) /\ Grown(p, book, f)
    BY <1>1, PlanGrown
<1>3. CASE book = <<>>
    BY <1>2, <1>3, GuidanceIs, NoneIsSeq DEF Grown
<1>4. CASE book # <<>>
    <2>1. PICK n : n = Len(book)
        OBVIOUS
    <2>2. n \in Nat \ {0} /\ n \in 0 .. Len(book)
        <3>1. book = [i \in 1 .. n |-> book[i]]
            BY <1>1, <2>1, SeqIs
        <3>2. n # 0
            <4> SUFFICES ASSUME n = 0 PROVE FALSE
                OBVIOUS
            <4>1. book = [i \in 1 .. 0 |-> book[i]] /\ 1 .. 0 = {}
                BY <3>1
            <4>2. book = <<>>
                BY <4>1
            <4> QED BY <1>4, <4>2
        <3> QED BY <1>1, <2>1, <3>2
    <2>3. Laid(f, book, n)
        BY <1>2, <2>2, AllLaid
    <2>4. p.lines = f[n].text.lines /\ p.ranges = f[n].ranges
        BY <1>2, <1>4, <2>1 DEF Grown
    <2>5. /\ IsSeq(p.lines) /\ IsSeq(p.ranges) /\ Len(p.ranges) = n
          /\ \A k \in 1 .. n : p.ranges[k].cell = book[k].id
        BY <2>3, <2>4 DEF Laid, Lined, Ranged
    <2>6. Len(p.lines) >= 1
        <3>1. PICK x, y : x = Len(f[n - 1].text.lines) /\ y = Len(f[n].text.lines)
            OBVIOUS
        <3>2. n - 1 \in 0 .. n /\ n \in 1 .. n
            BY <2>2
        <3>3. x < y /\ Starts(f[n - 1].text.lines, f[n].text.lines)
            BY <2>3, <3>1, <3>2 DEF Laid, Coloured
        <3>4. x \in Nat /\ y \in Nat
            BY <3>1, <3>3, SeqIs DEF Starts
        <3>5. y >= 1
            BY ONLY <3>3, <3>4
        <3> QED BY <2>4, <3>1, <3>5
    <2> QED BY <2>1, <2>5, <2>6
<1> QED
    BY <1>3, <1>4

-----------------------------------------------------------------------------
(* Two notebooks that agree on their first cells, and on the pictures of    *)
(* these, have the same lines there.                                       *)

AgreeAt(book, other, pngs, others, i) ==
    book[i] = other[i] /\ \A j : PngAt(pngs, <<i, j>>) = PngAt(others, <<i, j>>)

LEMMA SameBlock ==
    ASSUME NEW c, IsCell(c), NEW i, NEW pngs, NEW others,
           \A j : PngAt(pngs, <<i, j>>) = PngAt(others, <<i, j>>)
    PROVE  CellBlock(c, i, pngs) = CellBlock(c, i, others)
<1>1. PICK merged : merged = mergeStreams(c.outputs)
    OBVIOUS
<1>2. PngsOf(pngs, i, merged) = PngsOf(others, i, merged)
    BY DEF PngsOf
<1>3. appendCellOutputs(c.outputs, i, pngs) = appendCellOutputs(c.outputs, i, others)
    <2>1. Outs(c.outputs)
        BY SequenceIs, SeqIs DEF IsCell, Outs
    <2>2. IsSeq(merged)
        BY <1>1, <2>1, MergedTyped DEF Outs
    <2>3. PICK png : png = PngsOf(pngs, i, merged) /\ png = PngsOf(others, i, merged)
        BY <1>2
    <2>4. appendCellOutputs(c.outputs, i, pngs) =
             Truncated((CHOOSE g : g = [n \in 0 .. Len(merged) |->
                 IF n = 0 THEN NoLines
                 ELSE Join(g[n - 1], dispatchOutput(merged[n], png[n], <<i, n>>))])[Len(merged)])
        <3>1. png = PngsOf(pngs, i, merged)
            BY <2>3
        <3> QED BY ONLY <1>1, <3>1 DEF appendCellOutputs, JoinedOutputs, PngsOf
    <2>5. appendCellOutputs(c.outputs, i, others) =
             Truncated((CHOOSE g : g = [n \in 0 .. Len(merged) |->
                 IF n = 0 THEN NoLines
                 ELSE Join(g[n - 1], dispatchOutput(merged[n], png[n], <<i, n>>))])[Len(merged)])
        <3>1. png = PngsOf(others, i, merged)
            BY <2>3
        <3> QED BY ONLY <1>1, <3>1 DEF appendCellOutputs, JoinedOutputs, PngsOf
    <2> QED BY ONLY <2>4, <2>5
<1> QED
    BY <1>3 DEF CellBlock

LEMMA SameStep ==
    ASSUME NEW p, NEW c, IsCell(c), NEW i, NEW pngs, NEW others,
           \A j : PngAt(pngs, <<i, j>>) = PngAt(others, <<i, j>>)
    PROVE  AddCell(p, c, i, pngs) = AddCell(p, c, i, others)
<1>1. CellBlock(c, i, pngs) = CellBlock(c, i, others)
    BY SameBlock
<1> QED
    BY <1>1 DEF AddCell

LEMMA SameGrowth ==
    ASSUME NEW book, Book(book), NEW other, IsSeq(other), Len(other) = Len(book),
           NEW pngs, NEW others, NEW f, IsGrowth(f, book, pngs),
           NEW g, IsGrowth(g, other, others),
           NEW n \in 0 .. Len(book),
           \A i \in 1 .. n : AgreeAt(book, other, pngs, others, i)
    PROVE  \A k \in 0 .. n : f[k] = g[k]
<1>1. IsSeq(book) /\ Len(book) \in Nat /\ n \in Nat
    BY SeqIs DEF Book
<1>2. /\ f[0] = Blank
      /\ \A m \in 0 .. Len(book) - 1 : f[m + 1] = AddCell(f[m], book[m + 1], m + 1, pngs)
    BY <1>1, GrowthSteps
<1>3. /\ g[0] = Blank
      /\ \A m \in 0 .. Len(book) - 1 : g[m + 1] = AddCell(g[m], other[m + 1], m + 1, others)
    BY <1>1, GrowthSteps
<1> DEFINE S == {k \in 0 .. n : f[k] = g[k]}
<1>4. 0 \in S
    BY <1>1, <1>2, <1>3
<1>5. ASSUME NEW k \in 0 .. n - 1, k \in S PROVE k + 1 \in S
    <2>1. k + 1 \in 0 .. n /\ k + 1 \in 1 .. n /\ k \in 0 .. Len(book) - 1
          /\ k + 1 \in 1 .. Len(book)
        BY <1>1
    <2>2. PICK m, c, p : m = k + 1 /\ c = book[m] /\ p = f[k]
        OBVIOUS
    <2>3. /\ f[m] = AddCell(p, c, m, pngs) /\ g[m] = AddCell(p, other[m], m, others)
        BY <1>2, <1>3, <1>5, <2>1, <2>2
    <2>4. IsCell(c) /\ AgreeAt(book, other, pngs, others, m)
        BY <2>1, <2>2 DEF Book
    <2>5. c = other[m] /\ \A j : PngAt(pngs, <<m, j>>) = PngAt(others, <<m, j>>)
        BY <2>2, <2>4 DEF AgreeAt
    <2>6. AddCell(p, c, m, pngs) = AddCell(p, c, m, others)
        BY ONLY <2>4, <2>5, SameStep
    <2>7. f[m] = g[m]
        BY ONLY <2>3, <2>5, <2>6
    <2> QED BY <2>1, <2>2, <2>7
<1>6. 0 .. n \subseteq S
    <2> HIDE DEF S
    <2> QED BY <1>1, <1>4, <1>5, Induction
<1> QED
    BY <1>6

LEMMA SamePlan ==
    ASSUME NEW book, Book(book), NEW other, IsSeq(other), Len(other) = Len(book),
           NEW pngs, NEW others,
           \A i \in 1 .. Len(book) : AgreeAt(book, other, pngs, others, i)
    PROVE  buildRenderPlan(book, pngs) = buildRenderPlan(other, others)
<1>1. IsSeq(book) /\ Len(book) \in Nat
    BY SeqIs DEF Book
<1>2. PICK n : n = Len(book)
    OBVIOUS
<1>3. book = other
    <2>1. /\ book = [i \in 1 .. n |-> book[i]] /\ other = [i \in 1 .. n |-> other[i]]
        BY <1>1, <1>2, SeqIs
    <2>2. \A i \in 1 .. n : book[i] = other[i]
        BY <1>2 DEF AgreeAt
    <2> QED BY ONLY <2>1, <2>2
<1>4. PICK f : /\ f = [k \in 0 .. Len(book) |-> Growing(f, book, pngs, k)]
               /\ buildRenderPlan(book, pngs) =
                     PlanFrom(IF book = <<>> THEN Guidance ELSE f[Len(book)], book)
    BY <1>1, PlanIs
<1>5. PICK g : /\ g = [k \in 0 .. Len(other) |-> Growing(g, other, others, k)]
               /\ buildRenderPlan(other, others) =
                     PlanFrom(IF other = <<>> THEN Guidance ELSE g[Len(other)], other)
    BY PlanIs
<1>6. IsGrowth(f, book, pngs) /\ IsGrowth(g, other, others)
    BY <1>4, <1>5 DEF IsGrowth
<1>7. n \in 0 .. Len(book) /\ n \in 0 .. n
    BY <1>1, <1>2
<1>8. \A i \in 1 .. n : AgreeAt(book, other, pngs, others, i)
    BY <1>2
<1>9. \A k \in 0 .. n : f[k] = g[k]
    BY ONLY <1>6, <1>7, <1>8, SameGrowth, Book(book), IsSeq(other), Len(other) = Len(book)
<1>10. f[n] = g[n]
    BY <1>7, <1>9
<1> QED
    BY <1>2, <1>3, <1>4, <1>5, <1>10

-----------------------------------------------------------------------------
(* Reading a plan.                                                         *)

LEMMA RangeIs ==
    ASSUME NEW ranges, IsSeq(ranges), NEW cell, NEW i, i = RangeOf(ranges, cell)
    PROVE  /\ i = 0 => \A k \in 1 .. Len(ranges) : ranges[k].cell # cell
           /\ i # 0 => /\ i \in 1 .. Len(ranges) /\ ranges[i].cell = cell
                       /\ \A k \in 1 .. i - 1 : ranges[k].cell # cell
<1>1. Len(ranges) \in Nat
    BY SeqIs
<1>2. PICK P : P = {k \in 1 .. Len(ranges) : ranges[k].cell = cell}
    OBVIOUS
<1>3. i = IF P # {} THEN Min(P) ELSE 0
    BY <1>2 DEF RangeOf, SelectInSeq
<1>4. P \subseteq 1 .. Len(ranges)
    BY ONLY <1>2, Zenon
<1>5. P \subseteq Nat /\ 0 \notin P
    BY ONLY <1>1, <1>4
<1>6. CASE P = {}
    <2>1. i = 0
        BY <1>3, <1>6
    <2> QED BY <1>2, <1>6, <2>1
<1>7. CASE P # {}
    <2>1. i \in P /\ \A y \in P : i <= y
        BY ONLY <1>3, <1>5, <1>7, LeastIs
    <2>2. i # 0 /\ i \in 1 .. Len(ranges) /\ ranges[i].cell = cell
        BY <1>2, <1>5, <2>1
    <2>3. ASSUME NEW k \in 1 .. i - 1 PROVE ranges[k].cell # cell
        <3>1. k \in 1 .. Len(ranges) /\ ~(i <= k)
            BY <1>1, <2>2
        <3>2. k \notin P
            BY <2>1, <3>1
        <3> QED BY <1>2, <3>1, <3>2
    <2> QED BY <2>2, <2>3
<1> QED
    BY <1>6, <1>7

LEMMA AppliedIs ==
    ASSUME NEW buf0, NEW p, NEW from, NEW m \in Nat, NEW i, i = RangeOf(p.ranges, from),
           m = IF i = 0 THEN 0 ELSE p.ranges[i].start
    PROVE  applyRenderPlan(buf0, p, from) =
              IF m > Len(buf0) THEN buf0
              ELSE SubSeq(buf0, 1, m) \o SubSeq(p.lines, m + 1, Len(p.lines))
BY DEF applyRenderPlan

(* A plan that is drawn from no cell replaces the whole buffer.            *)
LEMMA AllApplied ==
    ASSUME NEW lines, IsSeq(lines), NEW p, IsSeq(p.lines), NEW from,
           RangeOf(p.ranges, from) = 0
    PROVE  applyRenderPlan(lines, p, from) = p.lines
<1>1. Len(lines) \in Nat /\ Len(p.lines) \in Nat
    BY SeqIs
<1>2. PICK i, m : i = RangeOf(p.ranges, from) /\ m = 0
    OBVIOUS
<1>3. m \in Nat /\ m = IF i = 0 THEN 0 ELSE p.ranges[i].start
    BY <1>2
<1>4. applyRenderPlan(lines, p, from) =
         IF m > Len(lines) THEN lines
         ELSE SubSeq(lines, 1, m) \o SubSeq(p.lines, m + 1, Len(p.lines))
    BY ONLY <1>2, <1>3, AppliedIs
<1>5. m <= Len(lines) /\ m <= Len(p.lines) /\ \A k \in 1 .. m : lines[k] = p.lines[k]
    BY ONLY <1>1, <1>2
<1>6. SubSeq(lines, 1, m) \o SubSeq(p.lines, m + 1, Len(p.lines)) = p.lines
    BY ONLY <1>3, <1>5, IsSeq(lines), IsSeq(p.lines), Rejoined
<1>7. ~(m > Len(lines))
    BY ONLY <1>1, <1>2
<1> QED
    BY ONLY <1>4, <1>6, <1>7

AgreeBut(book, other, pngs, others, from) ==
    \A i \in 1 .. Len(book) : AgreeAt(book, other, pngs, others, i) \/ other[i].id = from

(* So does one that is drawn from a cell below which all has changed, if    *)
(* the buffer shows a plan that is the same above.                         *)
LEMMA RestApplied ==
    ASSUME NEW book, Book(book), NEW other, Book(other), Len(other) = Len(book),
           NEW pngs, Pictures(pngs), NEW others, Pictures(others),
           NEW p, p = buildRenderPlan(book, pngs), NEW q, q = buildRenderPlan(other, others),
           NEW from, AgreeBut(book, other, pngs, others, from)
    PROVE  applyRenderPlan(p.lines, q, from) = q.lines
<1>1. IsSeq(p.lines) /\ IsSeq(q.lines) /\ IsSeq(q.ranges) /\ Len(q.ranges) = Len(other)
      /\ \A k \in 1 .. Len(other) : q.ranges[k].cell = other[k].id
    BY PlanLines
<1>2. PICK i : i = RangeOf(q.ranges, from)
    OBVIOUS
<1>3. CASE i = 0
    <2>1. RangeOf(q.ranges, from) = 0
        BY <1>2, <1>3
    <2> QED BY ONLY <1>1, <2>1, AllApplied
<1>4. CASE i # 0
    <2>1. PICK n : n = Len(book) /\ n = Len(other)
        OBVIOUS
    <2>2. n \in Nat /\ IsSeq(book) /\ IsSeq(other)
        BY <2>1, SeqIs DEF Book
    <2>3. i \in 1 .. n /\ \A k \in 1 .. i - 1 : q.ranges[k].cell # from
        BY <1>1, <1>2, <1>4, <2>1, RangeIs
    <2>4. PICK f : IsGrowth(f, book, pngs) /\ Grown(p, book, f)
        BY <2>2, PlanGrown
    <2>5. PICK g : IsGrowth(g, other, others) /\ Grown(q, other, g)
        BY <2>2, PlanGrown
    <2>6. PICK h : h = i - 1
        OBVIOUS
    <2>7. h \in 0 .. n /\ h \in 0 .. h /\ i \in Nat /\ h \in Nat
        BY <2>2, <2>3, <2>6
    <2>8. \A k \in 1 .. h : AgreeAt(book, other, pngs, others, k)
        <3> SUFFICES ASSUME NEW k \in 1 .. h PROVE AgreeAt(book, other, pngs, others, k)
            OBVIOUS
        <3>1. k \in 1 .. n /\ k \in 1 .. i - 1
            BY <2>2, <2>3, <2>6
        <3>2. q.ranges[k].cell # from /\ q.ranges[k].cell = other[k].id
            BY <1>1, <2>1, <2>3, <3>1
        <3> QED BY <2>1, <3>1, <3>2 DEF AgreeBut
    <2>9. \A k \in 0 .. h : f[k] = g[k]
        <3>1. h \in 0 .. Len(book) /\ Len(other) = Len(book)
            BY ONLY <2>1, <2>7
        <3> QED BY ONLY <2>2, <2>4, <2>5, <2>8, <3>1, SameGrowth, Book(book)
    <2>10. f[h] = g[h]
        BY <2>7, <2>9
    <2>11. Laid(f, book, n) /\ Laid(g, other, n)
        <3>1. n \in 0 .. Len(book) /\ n \in 0 .. Len(other)
            BY <2>1, <2>2
        <3> QED BY <2>4, <2>5, <3>1, AllLaid
    <2>12. book # <<>> /\ other # <<>>
        BY <2>1, <2>3, NoneIsSeq
    <2>13. /\ p.lines = f[n].text.lines /\ q.lines = g[n].text.lines
           /\ q.ranges = g[n].ranges
        BY <2>1, <2>4, <2>5, <2>12 DEF Grown
    <2>14. PICK s, m : s = f[h].text.lines /\ m = Len(s)
        OBVIOUS
    <2>15. Starts(s, p.lines) /\ Starts(s, q.lines)
        BY <2>7, <2>10, <2>11, <2>13, <2>14 DEF Laid
    <2>16. /\ m \in Nat /\ m <= Len(p.lines) /\ m <= Len(q.lines)
           /\ \A k \in 1 .. m : p.lines[k] = q.lines[k]
        BY <2>14, <2>15, SeqIs DEF Starts
    <2>17. q.ranges[i].start = m
        <3>1. Ranged(q.ranges[i], g, other, i)
            BY <2>3, <2>11, <2>13 DEF Laid
        <3> QED BY <2>6, <2>10, <2>14, <3>1 DEF Ranged
    <2>18. applyRenderPlan(p.lines, q, from) =
              IF m > Len(p.lines) THEN p.lines
              ELSE SubSeq(p.lines, 1, m) \o SubSeq(q.lines, m + 1, Len(q.lines))
        <3>1. m = IF i = 0 THEN 0 ELSE q.ranges[i].start
            BY ONLY <1>4, <2>17
        <3>2. m \in Nat
            BY <2>16
        <3> QED BY ONLY <1>2, <3>1, <3>2, AppliedIs
    <2>19. SubSeq(p.lines, 1, m) \o SubSeq(q.lines, m + 1, Len(q.lines)) = q.lines
        BY <1>1, <2>16, Rejoined
    <2>20. ~(m > Len(p.lines))
        BY <1>1, <2>16, SeqIs
    <2> QED BY <2>18, <2>19, <2>20
<1> QED
    BY <1>3, <1>4

(* A plan keeps the lines of a buffer a sequence.                          *)
LEMMA StillSeq ==
    ASSUME NEW lines, IsSeq(lines), NEW p, IsSeq(p.lines), IsSeq(p.ranges),
           \A k \in 1 .. Len(p.ranges) :
               p.ranges[k].start \in Nat /\ p.ranges[k].start <= Len(p.lines),
           NEW from
    PROVE  IsSeq(applyRenderPlan(lines, p, from))
<1>1. PICK i, m : /\ i = RangeOf(p.ranges, from)
                  /\ m = IF i = 0 THEN 0 ELSE p.ranges[i].start
    OBVIOUS
<1>2. Len(lines) \in Nat /\ Len(p.lines) \in Nat
    BY SeqIs
<1>3. m \in Nat /\ m <= Len(p.lines)
    <2>1. CASE i = 0
        BY <1>1, <1>2, <2>1
    <2>2. CASE i # 0
        <3>1. i \in 1 .. Len(p.ranges)
            BY <1>1, <2>2, RangeIs
        <3> QED BY <1>1, <2>2, <3>1
    <2> QED BY <2>1, <2>2
<1>4. applyRenderPlan(lines, p, from) =
         IF m > Len(lines) THEN lines
         ELSE SubSeq(lines, 1, m) \o SubSeq(p.lines, m + 1, Len(p.lines))
    BY <1>1, <1>3, AppliedIs, ZenonT(30)
<1>5. ASSUME ~(m > Len(lines))
      PROVE  IsSeq(SubSeq(lines, 1, m) \o SubSeq(p.lines, m + 1, Len(p.lines)))
    <2>1. 1 \in 1 .. Len(lines) + 1 /\ m \in 1 - 1 .. Len(lines)
        BY <1>2, <1>3, <1>5
    <2>2. m + 1 \in 1 .. Len(p.lines) + 1 /\ Len(p.lines) \in m + 1 - 1 .. Len(p.lines)
        BY <1>2, <1>3
    <2>3. IsSeq(SubSeq(lines, 1, m)) /\ IsSeq(SubSeq(p.lines, m + 1, Len(p.lines)))
        BY <2>1, <2>2, Cut
    <2> QED BY <2>3, Joined
<1> QED
    BY <1>4, <1>5
Spans(r, lines) ==
    /\ r.start \in Nat /\ r.end \in Nat /\ r.start <= r.end /\ r.end < Len(lines)
    /\ \A l \in r.start + 1 .. r.end + 1 : lines[l].cell = r.cell

(* The lines of each cell of a plan.                                       *)
LEMMA RangesShow ==
    ASSUME NEW book, Book(book), NEW pngs, Pictures(pngs),
           NEW p, p = buildRenderPlan(book, pngs), NEW k \in 1 .. Len(p.ranges)
    PROVE  Spans(p.ranges[k], p.lines)
<1>1. IsSeq(p.lines) /\ Len(p.ranges) = Len(book) /\ IsSeq(book) /\ Len(book) \in Nat
    BY PlanLines, SeqIs DEF Book
<1>2. PICK n : n = Len(book)
    OBVIOUS
<1>3. n \in Nat /\ k \in 1 .. n /\ n \in 0 .. Len(book) /\ k \in 0 .. n /\ k - 1 \in 0 .. n
    BY <1>1, <1>2
<1>4. PICK f : IsGrowth(f, book, pngs) /\ Grown(p, book, f)
    BY <1>1, PlanGrown
<1>5. Laid(f, book, n)
    BY <1>3, <1>4, AllLaid
<1>6. book # <<>>
    BY <1>2, <1>3, NoneIsSeq
<1>7. p.lines = f[n].text.lines /\ p.ranges = f[n].ranges
    BY <1>2, <1>4, <1>6 DEF Grown
<1>8. PICK x, y, z, r : /\ x = Len(f[k - 1].text.lines) /\ y = Len(f[k].text.lines)
                        /\ z = Len(p.lines) /\ r = p.ranges[k]
    OBVIOUS
<1>9. r.cell = book[k].id /\ r.start = x /\ r.end = y - 1
    BY <1>3, <1>5, <1>7, <1>8 DEF Laid, Ranged
<1>10. x < y /\ \A l \in x + 1 .. y : p.lines[l].cell = book[k].id
    BY <1>3, <1>5, <1>7, <1>8 DEF Laid, Coloured
<1>11. Starts(f[k - 1].text.lines, p.lines) /\ Starts(f[k].text.lines, p.lines)
    BY <1>3, <1>5, <1>7 DEF Laid
<1>12. x \in Nat /\ y \in Nat /\ z \in Nat /\ y <= z
    BY <1>8, <1>11, SeqIs DEF Starts
<1>13. /\ x <= y - 1 /\ y - 1 \in Nat /\ y - 1 < z /\ y - 1 + 1 = y
    BY ONLY <1>10, <1>12
<1>14. /\ r.start \in Nat /\ r.end \in Nat /\ r.start <= r.end /\ r.end < z
    BY ONLY <1>9, <1>12, <1>13
<1>15. \A l \in r.start + 1 .. r.end + 1 : p.lines[l].cell = r.cell
    BY ONLY <1>9, <1>10, <1>13
<1> QED
    BY <1>8, <1>14, <1>15 DEF Spans

(* The cell that a plan is said to have in line `l`.                       *)
LEMMA ToldIs ==
    ASSUME NEW ranges, IsSeq(ranges), NEW l, NEW id, id = lineToCellId(ranges, l)
    PROVE  \/ /\ id = NoCell
              /\ \A k \in 1 .. Len(ranges) :
                    ~(ranges[k].start <= l - 1 /\ l - 1 <= ranges[k].end)
           \/ \E k \in 1 .. Len(ranges) :
                 /\ id = ranges[k].cell
                 /\ ranges[k].start <= l - 1 /\ l - 1 <= ranges[k].end
<1>1. Len(ranges) \in Nat
    BY SeqIs
<1>2. PICK P : P = {k \in 1 .. Len(ranges) :
                       ranges[k].start <= l - 1 /\ l - 1 <= ranges[k].end}
    OBVIOUS
<1>3. PICK i : i = IF P # {} THEN Min(P) ELSE 0
    OBVIOUS
<1>4. id = IF i = 0 THEN NoCell ELSE ranges[i].cell
    BY <1>2, <1>3 DEF lineToCellId, SelectInSeq
<1>5. P \subseteq 1 .. Len(ranges)
    BY ONLY <1>2, Zenon
<1>6. P \subseteq Nat /\ 0 \notin P
    BY ONLY <1>1, <1>5
<1>7. CASE P = {}
    <2>1. i = 0
        BY <1>3, <1>7
    <2>2. id = NoCell
        BY ONLY <1>4, <2>1
    <2>3. \A k \in 1 .. Len(ranges) :
             ~(ranges[k].start <= l - 1 /\ l - 1 <= ranges[k].end)
        BY ONLY <1>2, <1>7, Zenon
    <2> QED BY ONLY <2>2, <2>3
<1>8. CASE P # {}
    <2>1. i \in P
        BY ONLY <1>3, <1>6, <1>8, LeastIs
    <2>2. i # 0
        BY ONLY <1>6, <2>1
    <2>3. /\ i \in 1 .. Len(ranges) /\ ranges[i].start <= l - 1 /\ l - 1 <= ranges[i].end
        BY ONLY <1>2, <2>1, Zenon
    <2>4. id = ranges[i].cell
        BY ONLY <1>4, <2>2
    <2> QED BY ONLY <2>3, <2>4
<1> QED
    BY <1>7, <1>8

(* Every line of a plan is of the cell that the ranges give for it.        *)
LEMMA LineTold ==
    ASSUME NEW book, Book(book), NEW pngs, Pictures(pngs),
           NEW p, p = buildRenderPlan(book, pngs), NEW l \in 1 .. Len(p.lines)
    PROVE  lineToCellId(p.ranges, l) = p.lines[l].cell
<1>1. /\ IsSeq(p.lines) /\ IsSeq(p.ranges) /\ Len(p.ranges) = Len(book)
      /\ IsSeq(book) /\ Len(book) \in Nat
    BY PlanLines, SeqIs DEF Book
<1>2. PICK id : id = lineToCellId(p.ranges, l)
    OBVIOUS
<1>3. CASE \E k \in 1 .. Len(p.ranges) : /\ id = p.ranges[k].cell
                                         /\ p.ranges[k].start <= l - 1
                                         /\ l - 1 <= p.ranges[k].end
    <2>1. PICK k \in 1 .. Len(p.ranges) :
             id = p.ranges[k].cell /\ p.ranges[k].start <= l - 1 /\ l - 1 <= p.ranges[k].end
        BY <1>3
    <2>2. PICK r : r = p.ranges[k]
        OBVIOUS
    <2>3. /\ r.start \in Nat /\ r.end \in Nat
          /\ \A m \in r.start + 1 .. r.end + 1 : p.lines[m].cell = r.cell
        <3>1. Spans(r, p.lines)
            BY <2>2, RangesShow
        <3> QED BY ONLY <3>1 DEF Spans
    <2>4. l \in Nat /\ l >= 1
        BY <1>1, SeqIs
    <2>5. l \in r.start + 1 .. r.end + 1
        BY ONLY <2>1, <2>2, <2>3, <2>4
    <2> QED BY <1>2, <2>1, <2>2, <2>3, <2>5
<1>4. CASE id = NoCell /\ \A k \in 1 .. Len(p.ranges) :
                              ~(p.ranges[k].start <= l - 1 /\ l - 1 <= p.ranges[k].end)
    <2>1. PICK f : IsGrowth(f, book, pngs) /\ Grown(p, book, f)
        BY <1>1, PlanGrown
    <2>2. CASE book = <<>>
        <3>1. p.lines = Guidance.text.lines
            BY <2>1, <2>2 DEF Grown
        <3>2. l \in 1 .. 8
            BY <3>1, GuidanceIs
        <3> QED BY <1>2, <1>4, <3>1, <3>2, GuidanceIs
    <2>3. CASE book # <<>>
        <3>1. PICK n : n = Len(book)
            OBVIOUS
        <3>2. n \in Nat /\ n \in 0 .. Len(book)
            BY <1>1, <3>1
        <3>3. p.lines = f[n].text.lines /\ p.ranges = f[n].ranges
            BY <2>1, <2>3, <3>1 DEF Grown
        <3>4. Laid(f, book, n) /\ f[0] = Blank
            BY <1>1, <2>1, <3>2, AllLaid, GrowthSteps
        <3> DEFINE S == {k \in 0 .. n : Len(f[k].text.lines) < l}
        <3>5. 0 \in S
            <4>1. Len(f[0].text.lines) = 0
                BY <3>4, NoLinesIs, NoneIsSeq DEF Blank
            <4>2. l \in Nat /\ 0 < l
                BY <1>1, SeqIs
            <4> QED BY <3>2, <4>1, <4>2
        <3>6. ASSUME NEW k \in 0 .. n - 1, k \in S PROVE k + 1 \in S
            <4>1. PICK m : m = k + 1
                OBVIOUS
            <4>2. m \in 1 .. n /\ m \in 0 .. n /\ m - 1 = k
                BY <3>2, <4>1
            <4>3. PICK x, y, r : /\ x = Len(f[k].text.lines) /\ y = Len(f[m].text.lines)
                                 /\ r = p.ranges[m]
                OBVIOUS
            <4>4. r.start = x /\ r.end = y - 1
                BY <3>3, <3>4, <4>2, <4>3 DEF Laid, Ranged
            <4>5. x \in Nat /\ y \in Nat
                <5>1. k \in 0 .. n
                    BY <3>2
                <5> QED BY <3>4, <4>2, <4>3, <5>1, SeqIs DEF Laid, Starts
            <4>6. ~(r.start <= l - 1 /\ l - 1 <= r.end)
                BY <1>1, <1>4, <3>1, <4>2, <4>3
            <4>7. x < l /\ l \in Nat
                BY <1>1, <3>6, <4>3, SeqIs
            <4>8. y < l
                BY ONLY <4>4, <4>5, <4>6, <4>7
            <4> QED BY <4>1, <4>2, <4>3, <4>8
        <3>7. 0 .. n \subseteq S
            <4> HIDE DEF S
            <4> QED BY ONLY <3>2, <3>5, <3>6, Induction
        <3>8. Len(p.lines) < l
            BY <3>2, <3>3, <3>7
        <3>9. Len(p.lines) \in Nat /\ l <= Len(p.lines) /\ l \in Nat
            BY <1>1, SeqIs
        <3>10. FALSE
            BY ONLY <3>8, <3>9
        <3> QED BY <3>10
    <2> QED BY <2>2, <2>3
<1>5. \/ /\ id = NoCell
         /\ \A k \in 1 .. Len(p.ranges) :
               ~(p.ranges[k].start <= l - 1 /\ l - 1 <= p.ranges[k].end)
      \/ \E k \in 1 .. Len(p.ranges) :
            /\ id = p.ranges[k].cell
            /\ p.ranges[k].start <= l - 1 /\ l - 1 <= p.ranges[k].end
    BY ONLY <1>1, <1>2, ToldIs
<1> QED
    BY <1>3, <1>4, <1>5

-----------------------------------------------------------------------------
(* Plans of the cells `cs` that the ids `ids` stand for.                   *)

CellsOk(cs) ==
    /\ cs = [id \in DOMAIN Contents |-> cs[id]]
    /\ \A id \in DOMAIN Contents : IsCell(cs[id]) /\ cs[id].id = id

BookOf(ids, cs) == [i \in DOMAIN ids |-> cs[ids[i]]]

LEMMA BookIs ==
    ASSUME NEW ids \in Seq(DOMAIN Contents), NEW cs, CellsOk(cs),
           NEW book, book = BookOf(ids, cs)
    PROVE  /\ Book(book) /\ Len(book) = Len(ids) /\ DOMAIN book = 1 .. Len(ids)
           /\ \A i \in 1 .. Len(ids) : book[i] = cs[ids[i]] /\ book[i].id = ids[i]
<1>1. Len(ids) \in Nat /\ DOMAIN ids = 1 .. Len(ids)
      /\ \A i \in 1 .. Len(ids) : ids[i] \in DOMAIN Contents
    OBVIOUS
<1>2. book = [i \in 1 .. Len(ids) |-> cs[ids[i]]]
    BY <1>1 DEF BookOf
<1>3. book = [i \in 1 .. Len(ids) |-> book[i]] /\ DOMAIN book = 1 .. Len(ids)
      /\ \A i \in 1 .. Len(ids) : book[i] = cs[ids[i]]
    BY <1>2
<1>4. IsSeq(book) /\ Len(book) = Len(ids)
    BY <1>1, <1>3, MadeSeq
<1>5. \A i \in 1 .. Len(ids) : IsCell(book[i]) /\ book[i].id = ids[i]
    BY <1>1, <1>3 DEF CellsOk
<1> QED
    BY <1>3, <1>4, <1>5 DEF Book

(* The picture of an output of a cell, when its conversion has succeeded.   *)
PngIn(c, j) ==
    IF c.type = "code" /\ j \in SvgsOf(mergeStreams(c.outputs))
    THEN mergeStreams(c.outputs)[j].bundle["image/svg+xml"] ELSE 0

LEMMA SvgIsData ==
    ASSUME NEW c, IsCell(c), NEW j, j \in SvgsOf(mergeStreams(c.outputs))
    PROVE  /\ j \in DOMAIN mergeStreams(c.outputs)
           /\ mergeStreams(c.outputs)[j].kind = "data"
           /\ mergeStreams(c.outputs)[j].bundle["image/svg+xml"] \in Nat
<1>1. PICK merged : merged = mergeStreams(c.outputs)
    OBVIOUS
<1>2. Outs(c.outputs)
    BY SequenceIs, SeqIs DEF IsCell, Outs
<1>3. Outs(merged) /\ DOMAIN merged = 1 .. Len(merged)
    BY <1>1, <1>2, MergedTyped, SeqIs DEF Outs
<1>4. /\ j \in DOMAIN merged /\ merged[j].kind = "data"
      /\ Chosen(merged[j].bundle) = "image/svg+xml"
    BY <1>1 DEF SvgsOf
<1>5. IsOutput(merged[j])
    BY <1>3, <1>4 DEF Outs
<1>6. \A m \in DOMAIN merged[j].bundle : merged[j].bundle[m] \in Nat
    BY <1>4, <1>5 DEF IsOutput
<1>7. "image/svg+xml" \in DOMAIN merged[j].bundle
    BY <1>4, ChosenIs
<1> QED
    BY <1>1, <1>4, <1>6, <1>7

PngsIn(book) == [p \in SvgTargets(book) |-> Svg(book, p)]

LEMMA TargetIs ==
    ASSUME NEW book, IsSeq(book), NEW p
    PROVE  p \in SvgTargets(book) <=>
              \E i \in 1 .. Len(book) : \E j \in SvgsOf(mergeStreams(book[i].outputs)) :
                 p = <<i, j>> /\ book[i].type = "code"
<1>1. DOMAIN book = 1 .. Len(book)
    BY SeqIs
<1>2. p \in SvgTargets(book) <=>
         \E i \in DOMAIN book : /\ book[i].type = "code"
                                /\ p \in {i} \X SvgsOf(mergeStreams(book[i].outputs))
    BY DEF SvgTargets
<1> QED
    BY <1>1, <1>2

LEMMA PngTold ==
    ASSUME NEW book, IsSeq(book), NEW i \in 1 .. Len(book), NEW j
    PROVE  PngAt(PngsIn(book), <<i, j>>) = PngIn(book[i], j)
<1>0. PICK p : p = <<i, j>>
    OBVIOUS
<1>1. p = <<i, j>> /\ p[1] = i /\ p[2] = j
    BY <1>0
<1>2. p \in SvgTargets(book) <=>
         book[i].type = "code" /\ j \in SvgsOf(mergeStreams(book[i].outputs))
    BY <1>1, TargetIs
<1>3. p \in SvgTargets(book) =>
         PngsIn(book)[p] = mergeStreams(book[i].outputs)[j].bundle["image/svg+xml"]
    BY <1>1 DEF PngsIn, Svg
<1>4. DOMAIN PngsIn(book) = SvgTargets(book)
    BY DEF PngsIn
<1> QED
    BY <1>1, <1>2, <1>3, <1>4 DEF PngAt, PngIn

LEMMA AllPictures ==
    ASSUME NEW book, Book(book)
    PROVE  Pictures(PngsIn(book))
<1> SUFFICES ASSUME NEW p \in SvgTargets(book) PROVE PngsIn(book)[p] \in Nat
    BY DEF Pictures, PngsIn
<1>1. IsSeq(book)
    BY DEF Book
<1>2. PICK i \in 1 .. Len(book) : \E j \in SvgsOf(mergeStreams(book[i].outputs)) : p = <<i, j>>
    BY <1>1, TargetIs
<1>5. PICK j \in SvgsOf(mergeStreams(book[i].outputs)) : p = <<i, j>>
    BY <1>2
<1>3. PngsIn(book)[p] = mergeStreams(book[i].outputs)[j].bundle["image/svg+xml"]
    BY <1>5 DEF PngsIn, Svg
<1>4. IsCell(book[i])
    BY DEF Book
<1> QED
    BY <1>3, <1>4, SvgIsData

(* `p` is a plan of the cells that `ids` stand for, but for the contents of *)
(* those in `dirty`.                                                       *)
Told(book, pngs, ids, cs, i) ==
    book[i] = cs[ids[i]] /\ \A j : PngAt(pngs, <<i, j>>) = PngIn(cs[ids[i]], j)

Depicts(p, book, pngs, ids, cs, dirty) ==
    /\ Book(book) /\ Pictures(pngs) /\ p = buildRenderPlan(book, pngs)
    /\ Len(book) = Len(ids)
    /\ \A i \in 1 .. Len(ids) :
          book[i].id = ids[i] /\ (ids[i] \notin dirty => Told(book, pngs, ids, cs, i))

Fits(p, ids, cs, dirty) == \E book, pngs : Depicts(p, book, pngs, ids, cs, dirty)

LEMMA FitsShape ==
    ASSUME NEW p, NEW ids, NEW cs, NEW dirty, Fits(p, ids, cs, dirty)
    PROVE  /\ IsSeq(p.lines) /\ IsSeq(p.ranges) /\ Len(p.ranges) = Len(ids)
           /\ \A k \in 1 .. Len(ids) : p.ranges[k].cell = ids[k]
           /\ \A k \in 1 .. Len(p.ranges) :
                 p.ranges[k].start \in Nat /\ p.ranges[k].start <= Len(p.lines)
<1>1. PICK book, pngs : Depicts(p, book, pngs, ids, cs, dirty)
    BY DEF Fits
<1>2. /\ Book(book) /\ Pictures(pngs) /\ p = buildRenderPlan(book, pngs)
      /\ Len(book) = Len(ids) /\ \A i \in 1 .. Len(ids) : book[i].id = ids[i]
    BY <1>1 DEF Depicts
<1>3. /\ IsSeq(p.lines) /\ IsSeq(p.ranges) /\ Len(p.ranges) = Len(book)
      /\ \A k \in 1 .. Len(book) : p.ranges[k].cell = book[k].id
    BY <1>2, PlanLines
<1>4. ASSUME NEW k \in 1 .. Len(p.ranges)
      PROVE  p.ranges[k].start \in Nat /\ p.ranges[k].start <= Len(p.lines)
    <2>1. /\ p.ranges[k].start \in Nat /\ p.ranges[k].end \in Nat
          /\ p.ranges[k].start <= p.ranges[k].end /\ p.ranges[k].end < Len(p.lines)
        BY <1>2, RangesShow DEF Spans
    <2>2. Len(p.lines) \in Nat
        BY <1>3, SeqIs
    <2> QED BY <2>1, <2>2
<1> QED
    BY <1>2, <1>3, <1>4

(* More may be dirty, and what is dirty may change.                        *)
LEMMA FitsStill ==
    ASSUME NEW p, NEW ids, NEW cs, NEW dirty, Fits(p, ids, cs, dirty), NEW others, NEW more,
           \A i \in 1 .. Len(ids) :
               ids[i] \notin more => ids[i] \notin dirty /\ others[ids[i]] = cs[ids[i]]
    PROVE  Fits(p, ids, others, more)
<1>1. PICK book, pngs : Depicts(p, book, pngs, ids, cs, dirty)
    BY DEF Fits
<1>2. ASSUME NEW i \in 1 .. Len(ids), ids[i] \notin more
      PROVE  Told(book, pngs, ids, others, i)
    BY <1>1, <1>2 DEF Depicts, Told
<1>3. Depicts(p, book, pngs, ids, others, more)
    BY <1>1, <1>2 DEF Depicts
<1> QED
    BY <1>3 DEF Fits

(* A plan that is built now, with the pictures of the cells that are clean. *)
LEMMA FitsBuilt ==
    ASSUME NEW ids \in Seq(DOMAIN Contents), NEW cs, CellsOk(cs),
           NEW pngs, Pictures(pngs), NEW dirty,
           \A i \in 1 .. Len(ids) : ids[i] \notin dirty =>
               \A j : PngAt(pngs, <<i, j>>) = PngIn(cs[ids[i]], j),
           NEW p, p = buildRenderPlan(BookOf(ids, cs), pngs)
    PROVE  Fits(p, ids, cs, dirty)
<1>1. PICK book : book = BookOf(ids, cs)
    OBVIOUS
<1>2. /\ Book(book) /\ Len(book) = Len(ids)
      /\ \A i \in 1 .. Len(ids) : book[i] = cs[ids[i]] /\ book[i].id = ids[i]
    BY <1>1, BookIs
<1>3. Depicts(p, book, pngs, ids, cs, dirty)
    BY <1>1, <1>2 DEF Depicts, Told
<1> QED
    BY <1>3 DEF Fits

LEMMA FitsFresh ==
    ASSUME NEW ids \in Seq(DOMAIN Contents), NEW cs, CellsOk(cs),
           NEW p, p = buildRenderPlan(BookOf(ids, cs), PngsIn(BookOf(ids, cs)))
    PROVE  Fits(p, ids, cs, {})
<1>1. PICK book, pngs : book = BookOf(ids, cs) /\ pngs = PngsIn(book)
    OBVIOUS
<1>2. /\ Book(book) /\ Len(book) = Len(ids)
      /\ \A i \in 1 .. Len(ids) : book[i] = cs[ids[i]] /\ book[i].id = ids[i]
    BY <1>1, BookIs
<1>3. Pictures(pngs)
    BY <1>1, <1>2, AllPictures
<1>4. ASSUME NEW i \in 1 .. Len(ids)
      PROVE  \A j : PngAt(pngs, <<i, j>>) = PngIn(cs[ids[i]], j)
    <2>1. IsSeq(book) /\ i \in 1 .. Len(book) /\ book[i] = cs[ids[i]]
        BY <1>2 DEF Book
    <2>2. \A j : PngAt(PngsIn(book), <<i, j>>) = PngIn(book[i], j)
        BY <2>1, PngTold
    <2> QED BY <1>1, <2>1, <2>2
<1> QED
    BY <1>1, <1>3, <1>4, FitsBuilt

(* A clean plan is the one that would be built.                            *)
LEMMA FitsClean ==
    ASSUME NEW ids \in Seq(DOMAIN Contents), NEW cs, CellsOk(cs),
           NEW p, Fits(p, ids, cs, {})
    PROVE  p = buildRenderPlan(BookOf(ids, cs), PngsIn(BookOf(ids, cs)))
<1>1. PICK book, pngs : Depicts(p, book, pngs, ids, cs, {})
    BY DEF Fits
<1>2. PICK other, others : other = BookOf(ids, cs) /\ others = PngsIn(other)
    OBVIOUS
<1>3. /\ Book(other) /\ Len(other) = Len(ids)
      /\ \A i \in 1 .. Len(ids) : other[i] = cs[ids[i]]
    BY <1>2, BookIs
<1>4. IsSeq(other)
    BY <1>3 DEF Book
<1>5. ASSUME NEW i \in 1 .. Len(book) PROVE AgreeAt(book, other, pngs, others, i)
    <2>1. i \in 1 .. Len(ids) /\ i \in 1 .. Len(other) /\ Told(book, pngs, ids, cs, i)
        BY <1>1, <1>3 DEF Depicts
    <2>2. \A j : PngAt(others, <<i, j>>) = PngIn(other[i], j)
        BY <1>2, <1>4, <2>1, PngTold
    <2> QED BY <1>3, <2>1, <2>2 DEF Told, AgreeAt
<1>6. Book(book) /\ Len(other) = Len(book) /\ p = buildRenderPlan(book, pngs)
    BY <1>1, <1>3 DEF Depicts
<1>7. buildRenderPlan(book, pngs) = buildRenderPlan(other, others)
    BY ONLY <1>4, <1>5, <1>6, SamePlan
<1> QED
    BY <1>2, <1>6, <1>7

OnlyFrom(ids, dirty, from) ==
    \A i \in 1 .. Len(ids) : ids[i] \in dirty => ids[i] = from

(* A plan drawn from a cell, over one that differs only in that cell.       *)
LEMMA FitsApplied ==
    ASSUME NEW p, NEW q, NEW ids, NEW cs, NEW dirty, NEW more, NEW from,
           Fits(p, ids, cs, dirty), Fits(q, ids, cs, more),
           OnlyFrom(ids, dirty, from), OnlyFrom(ids, more, from)
    PROVE  applyRenderPlan(p.lines, q, from) = q.lines
<1>1. PICK book, pngs : Depicts(p, book, pngs, ids, cs, dirty)
    BY DEF Fits
<1>2. PICK other, others : Depicts(q, other, others, ids, cs, more)
    BY DEF Fits
<1>3. /\ Book(book) /\ Pictures(pngs) /\ p = buildRenderPlan(book, pngs)
      /\ Len(book) = Len(ids)
    BY <1>1 DEF Depicts
<1>4. /\ Book(other) /\ Pictures(others) /\ q = buildRenderPlan(other, others)
      /\ Len(other) = Len(book)
    BY <1>2, <1>3 DEF Depicts
<1>5. ASSUME NEW i \in 1 .. Len(book)
      PROVE  AgreeAt(book, other, pngs, others, i) \/ other[i].id = from
    <2>1. i \in 1 .. Len(ids) /\ other[i].id = ids[i]
        BY <1>2, <1>3 DEF Depicts
    <2>2. CASE ids[i] \in dirty \cup more
        BY <2>1, <2>2 DEF OnlyFrom
    <2>3. CASE ids[i] \notin dirty /\ ids[i] \notin more
        <3>1. Told(book, pngs, ids, cs, i) /\ Told(other, others, ids, cs, i)
            BY <1>1, <1>2, <2>1, <2>3 DEF Depicts
        <3> QED BY <3>1 DEF Told, AgreeAt
    <2> QED BY <2>2, <2>3
<1>6. AgreeBut(book, other, pngs, others, from)
    BY <1>5 DEF AgreeBut
<1> QED
    BY ONLY <1>3, <1>4, <1>6, RestApplied

(* A plan drawn from no cell, over anything.                               *)
LEMMA FitsDrawn ==
    ASSUME NEW q, NEW ids \in Seq(DOMAIN Contents), NEW cs, NEW dirty,
           Fits(q, ids, cs, dirty), NEW lines, IsSeq(lines)
    PROVE  applyRenderPlan(lines, q, NoCell) = q.lines
<1>1. /\ IsSeq(q.lines) /\ IsSeq(q.ranges) /\ Len(q.ranges) = Len(ids)
      /\ \A k \in 1 .. Len(ids) : q.ranges[k].cell = ids[k]
    BY FitsShape
<1>2. \A k \in 1 .. Len(ids) : ids[k] # NoCell
    BY DisplayAssumption
<1>3. PICK i : i = RangeOf(q.ranges, NoCell)
    OBVIOUS
<1>4. i = 0
    BY <1>1, <1>2, <1>3, RangeIs
<1> QED
    BY <1>1, <1>3, <1>4, AllApplied

-----------------------------------------------------------------------------
(* The invariant of a viewer whose runs and redraws do not overlap.  What   *)
(* is dirty is drawn by the batches to come.                               *)

Batch == ToSet(queue) \cup (IF flush.pc \in {"winid", "svg"} THEN flush.ids ELSE {})
Dirty == Batch \cup (IF run.pc # "off" /\ ~run.heard THEN {run.cell} ELSE {})

Records ==
    /\ run = [pc |-> run.pc, cell |-> run.cell, heard |-> run.heard]
    /\ op = [pc |-> op.pc, before |-> op.before, old |-> op.old, nb |-> op.nb,
             prefer |-> op.prefer, plan |-> op.plan, under |-> op.under]
    /\ show = [pc |-> show.pc, plan |-> show.plan]

Typed ==
    /\ nb \in Seq(DOMAIN Contents) /\ (op.pc = "build" => op.nb \in Seq(DOMAIN Contents))
    /\ CellsOk(cells) /\ IsSeq(buf) /\ runs \in Nat
    /\ run.pc # "off" => run.cell \in DOMAIN Contents /\ ~disposed
    /\ run.pc \in {"replied", "idle"} => run.heard

(* An operation that awaits flushNow goes on when all is drawn.            *)
OpWaits ==
    op.pc = "flush" =>
        \/ flush.pc # "none" /\ awaiting = <<Waiter("op", FALSE)>> /\ resumed = <<>>
        \/ flush.pc = "none" /\ awaiting = <<>> /\ resumed = <<Waiter("op", FALSE)>>
        \/ /\ flush.pc # "none" /\ queue = <<>>
           /\ awaiting = <<Waiter("op", TRUE)>> /\ resumed = <<>>
        \/ /\ flush.pc = "none" /\ queue = <<>> /\ awaiting = <<>>
           /\ resumed = <<>> \/ resumed = <<Waiter("op", TRUE)>>

(* The whole is redrawn when nothing is to be drawn, and once at a time.   *)
Alone ==
    /\ op.pc \notin {"off", "flush"} \/ show.pc # "off" => flush.pc = "none" /\ queue = <<>>
    /\ op.pc = "off" \/ show.pc = "off"

(* The batches are about one cell.                                         *)
Sole == \E cell : Batch \subseteq {cell, NoCell} /\ (run.pc # "off" => run.cell = cell)

SvgsFit(svgs, ids, cs, dirty) ==
    \A i \in 1 .. Len(ids) : ids[i] \notin dirty =>
        \A j : PngAt(svgs, <<i, j>>) = PngIn(cs[ids[i]], j)

(* The plans that are cached, drawn or about to be drawn fit the notebook,  *)
(* but for what is dirty.                                                  *)
Faithful ==
    /\ ~Drawing /\ ~failed => buf = plan.lines
    /\ /\ visible \/ flush.pc = "svg"
       /\ show.pc = "off" /\ ~failed /\ ~Drawing
       => Fits(plan, nb, cells, Dirty)
    /\ flush.pc = "hook" =>
          Fits(flush.plan, nb, cells, Dirty) /\ (~failed => buf = flush.plan.lines)
    /\ flush.pc = "svg" =>
          /\ flush.nb = nb /\ Pictures(flush.svgs)
          /\ SvgsFit(flush.svgs, nb, cells, ToSet(queue))
    /\ op.pc = "draw" => op.plan = plan /\ Fits(plan, nb, cells, {})
    /\ show.pc = "draw" => show.plan = plan /\ Fits(plan, nb, cells, {})

(* What a cell operation knows of the cursor.                              *)
Planned(p) ==
    \E book, pngs : Book(book) /\ Pictures(pngs) /\ p = buildRenderPlan(book, pngs)

Cursor ==
    /\ Planned(plan)
    /\ op.pc = "cursor" => op.before = plan.ranges
    /\ op.pc \in {"build", "draw", "restore"} => op.under = NoCell \/ op.old = op.under
    /\ op.pc = "restore" =>
          op.plan = plan /\ buf = plan.lines /\ ~failed /\ Fits(plan, nb, cells, {})

ViewInv == Shapes /\ Records /\ Typed /\ OpWaits /\ Alone /\ Sole /\ Faithful /\ Cursor

-----------------------------------------------------------------------------
(* Sets of the elements of sequences.                                      *)

LEMMA NoneToSet == ToSet(<<>>) = {}
BY DEF ToSet

LEMMA AppendToSet ==
    ASSUME NEW s, IsSeq(s), NEW e
    PROVE  ToSet(Append(s, e)) = ToSet(s) \cup {e}
<1>1. PICK t, n : t = Append(s, e) /\ n = Len(s)
    OBVIOUS
<1>2. n \in Nat /\ DOMAIN s = 1 .. n
    BY <1>1, SeqIs
<1>3. /\ IsSeq(t) /\ Len(t) = n + 1 /\ t[n + 1] = e
      /\ \A i \in 1 .. n : t[i] = s[i]
    BY <1>1, Appended
<1>4. DOMAIN t = 1 .. n + 1
    BY <1>3, SeqIs
<1>5. \A i \in 1 .. n + 1 : i = n + 1 \/ i \in 1 .. n
    BY <1>2
<1>6. n + 1 \in 1 .. n + 1 /\ \A i \in 1 .. n : i \in 1 .. n + 1
    BY <1>2
<1>7. ToSet(t) = {t[i] : i \in 1 .. n + 1}
    BY <1>4 DEF ToSet
<1>8. ToSet(s) = {s[i] : i \in 1 .. n}
    BY <1>2 DEF ToSet
<1>9. ToSet(t) = ToSet(s) \cup {e}
    BY ONLY <1>3, <1>5, <1>6, <1>7, <1>8
<1> QED
    BY <1>1, <1>9

LEMMA SequenceToSet ==
    ASSUME NEW s, IsSeq(s)
    PROVE  IsSequence(s)
<1>1. Len(s) \in Nat /\ DOMAIN s = 1 .. Len(s) /\ s = [i \in 1 .. Len(s) |-> s[i]]
    BY SeqIs
<1>2. PICK T : T = ToSet(s)
    OBVIOUS
<1>3. \A i \in 1 .. Len(s) : s[i] \in T
    BY <1>1, <1>2 DEF ToSet
<1>4. [i \in 1 .. Len(s) |-> s[i]] \in Seq(T)
    BY <1>1, <1>3
<1> QED
    BY <1>1, <1>2, <1>4 DEF IsSequence

-----------------------------------------------------------------------------
(* A step that draws nothing.                                              *)

Remains(id, cs, others) == others[id] = cs[id]

LEMMA FaithfulKept ==
    ASSUME ViewInv, UNCHANGED <<nb, plan, buf, failed, show>>, visible' => visible,
           op' = op \/ (op.pc # "draw" /\ op'.pc # "draw"),
           flush' = flush \/ (flush.pc = "none" /\ flush'.pc = "winid"),
           Dirty \subseteq Dirty',
           \A id \in DOMAIN Contents : id \notin Dirty' => Remains(id, cells, cells'),
           flush.pc = "svg" =>
               /\ ToSet(queue) \subseteq ToSet(queue')
               /\ \A id \in DOMAIN Contents :
                     id \notin ToSet(queue') => Remains(id, cells, cells'),
           op.pc = "draw" \/ show.pc = "draw" => cells' = cells
    PROVE  Faithful'
<1>1. /\ Faithful /\ nb \in Seq(DOMAIN Contents)
      /\ \A i \in 1 .. Len(nb) : nb[i] \in DOMAIN Contents
    BY DEF ViewInv, Typed
<1>2. Drawing' = Drawing /\ (flush'.pc = "hook" <=> flush.pc = "hook")
      /\ (flush'.pc = "svg" <=> flush.pc = "svg")
      /\ (flush'.pc \in {"hook", "svg"} => flush' = flush)
    BY DEF Drawing
<1>3. PICK old, new : old = Dirty /\ new = Dirty'
    OBVIOUS
<1>4. \A i \in 1 .. Len(nb) :
         nb[i] \notin new => nb[i] \notin old /\ cells'[nb[i]] = cells[nb[i]]
    BY <1>1, <1>3 DEF Remains
<1>5. ASSUME NEW p, Fits(p, nb, cells, old) PROVE Fits(p, nb, cells', new)
    BY ONLY <1>4, <1>5, FitsStill
<1>6. /\ ~Drawing /\ ~failed => buf = plan.lines
      /\ (visible \/ flush.pc = "svg") /\ show.pc = "off" /\ ~failed /\ ~Drawing =>
            Fits(plan, nb, cells, old)
      /\ flush.pc = "hook" =>
            Fits(flush.plan, nb, cells, old) /\ (~failed => buf = flush.plan.lines)
    BY <1>1, <1>3 DEF Faithful
<1>7. /\ ~Drawing' /\ ~failed' => buf' = plan'.lines
      /\ (visible' \/ flush'.pc = "svg") /\ show'.pc = "off" /\ ~failed' /\ ~Drawing' =>
            Fits(plan', nb', cells', Dirty')
      /\ flush'.pc = "hook" =>
            Fits(flush'.plan, nb', cells', Dirty') /\ (~failed' => buf' = flush'.plan.lines)
    BY <1>2, <1>3, <1>5, <1>6
<1>8. flush'.pc = "svg" =>
         /\ flush'.nb = nb' /\ Pictures(flush'.svgs)
         /\ SvgsFit(flush'.svgs, nb', cells', ToSet(queue'))
    <2> SUFFICES ASSUME flush'.pc = "svg"
                 PROVE  /\ flush'.nb = nb' /\ Pictures(flush'.svgs)
                        /\ SvgsFit(flush'.svgs, nb', cells', ToSet(queue'))
        OBVIOUS
    <2>1. flush' = flush /\ flush.pc = "svg"
        BY <1>2
    <2>2. flush.nb = nb /\ Pictures(flush.svgs) /\ SvgsFit(flush.svgs, nb, cells, ToSet(queue))
        BY <1>1, <2>1 DEF Faithful
    <2>3. \A i \in 1 .. Len(nb) : nb[i] \notin ToSet(queue') =>
             nb[i] \notin ToSet(queue) /\ cells'[nb[i]] = cells[nb[i]]
        BY <1>1, <2>1 DEF Remains
    <2>4. SvgsFit(flush.svgs, nb, cells', ToSet(queue'))
        BY ONLY <2>2, <2>3 DEF SvgsFit
    <2> QED BY <2>1, <2>2, <2>4
<1>9. /\ op'.pc = "draw" => op'.plan = plan' /\ Fits(plan', nb', cells', {})
      /\ show'.pc = "draw" => show'.plan = plan' /\ Fits(plan', nb', cells', {})
    BY <1>1 DEF Faithful
<1> QED
    BY ONLY <1>7, <1>8, <1>9 DEF Faithful

LEMMA CursorUnmoved ==
    ASSUME ViewInv, UNCHANGED <<nb, plan, buf, failed>>, op' = op \/ op'.pc \in {"off", "flush"},
           op.pc = "restore" => cells' = cells
    PROVE  Cursor'
<1>1. Cursor
    BY DEF ViewInv
<1>2. Planned(plan')
    BY <1>1 DEF Cursor
<1>3. CASE op' = op
    BY <1>1, <1>2, <1>3 DEF Cursor
<1>4. CASE op'.pc \in {"off", "flush"}
    BY <1>2, <1>4 DEF Cursor
<1> QED
    BY <1>3, <1>4

(* Messages go from the queue to a flush, if any.                          *)
Moved == UNCHANGED <<queue, flush>> \/ (flush.pc = "none" /\ \E w : DoFlush(queue, w))

LEMMA DoFlushTakes ==
    ASSUME Shapes, NEW q, IsSeq(q), NEW w, DoFlush(q, w), flush.pc = "none",
           q = <<>> => queue = <<>>
    PROVE  /\ Batch' = ToSet(q) /\ queue' = <<>>
           /\ \/ flush' = flush /\ q = <<>>
              \/ flush'.pc = "winid" /\ flush'.ids = ToSet(q)
<1>1. CASE q = <<>>
    <2>1. UNCHANGED <<queue, flush>> /\ queue = <<>>
        BY <1>1 DEF DoFlush
    <2>2. Batch' = ToSet(q)
        BY <1>1, <2>1 DEF Batch
    <2> QED BY <1>1, <2>1, <2>2
<1>2. CASE q # <<>>
    <2>1. queue' = <<>> /\ flush' = [NoFlush EXCEPT !.pc = "winid", !.ids = ToSet(q)]
        BY <1>2 DEF DoFlush
    <2>2. flush' = [pc |-> "winid", ids |-> ToSet(q), nb |-> <<>>, svgs |-> {}, plan |-> <<>>]
        BY <2>1 DEF NoFlush
    <2>3. flush'.pc = "winid" /\ flush'.ids = ToSet(q)
        BY <2>2
    <2>4. Batch' = ToSet(q)
        BY <2>1, <2>3, NoneToSet DEF Batch
    <2> QED BY <2>1, <2>3, <2>4
<1> QED
    BY <1>1, <1>2

LEMMA MovedIs ==
    ASSUME Shapes, Moved
    PROVE  /\ Batch' = Batch
           /\ flush' = flush \/ (flush.pc = "none" /\ flush'.pc = "winid")
           /\ queue = <<>> => queue' = <<>> /\ flush' = flush
           /\ flush.pc # "none" => queue' = queue
<1>1. CASE UNCHANGED <<queue, flush>>
    BY <1>1 DEF Batch
<1>2. CASE flush.pc = "none" /\ \E w : DoFlush(queue, w)
    <2>1. PICK w : DoFlush(queue, w)
        BY <1>2
    <2>2. Batch = ToSet(queue)
        BY <1>2 DEF Batch
    <2>3. /\ Batch' = ToSet(queue) /\ queue' = <<>>
          /\ \/ flush' = flush /\ queue = <<>>
             \/ flush'.pc = "winid" /\ flush'.ids = ToSet(queue)
        BY <1>2, <2>1, DoFlushTakes DEF Shapes
    <2>4. queue = <<>> => flush' = flush
        BY <2>1 DEF DoFlush
    <2> QED BY <1>2, <2>2, <2>3, <2>4
<1> QED
    BY <1>1, <1>2 DEF Moved

(* A step that only moves messages, of the scheduler or of whoever flushes. *)
LEMMA MovedView ==
    ASSUME ViewInv, IInv', Moved, UNCHANGED <<session, viewer, run, show, runs>>,
           op' = op \/ (op.pc = "off" /\ op' = [NoOp EXCEPT !.pc = "flush"] /\ show.pc = "off"),
           run.pc # "off" => disposed' = disposed, OpWaits'
    PROVE  ViewInv'
<1>1. /\ Shapes /\ Records /\ Typed /\ Alone /\ Sole
      /\ UNCHANGED <<nb, cells, plan, buf, visible, failed, run, show, runs>>
    BY DEF ViewInv, session, viewer
<1>2. /\ Batch' = Batch
      /\ flush' = flush \/ (flush.pc = "none" /\ flush'.pc = "winid")
      /\ queue = <<>> => queue' = <<>> /\ flush' = flush
      /\ flush.pc # "none" => queue' = queue
    BY <1>1, MovedIs
<1>3. Dirty' = Dirty
    BY <1>1, <1>2 DEF Dirty
<1>4. op' = op \/ (op.pc = "off" /\ op'.pc = "flush" /\ show.pc = "off" /\
        op' = [pc |-> "flush", before |-> <<>>, old |-> NoCell, nb |-> <<>>,
               prefer |-> NoCell, plan |-> <<>>, under |-> NoCell])
    BY DEF NoOp
<1>5. Records'
    BY <1>1, <1>4 DEF Records
<1>6. Typed'
    BY <1>1, <1>4 DEF Typed
<1>7. Alone'
    BY <1>1, <1>2, <1>4 DEF Alone
<1>8. Sole'
    BY <1>1, <1>2 DEF Sole
<1>9. Faithful'
    <2>1. /\ UNCHANGED <<nb, plan, buf, failed, show>> /\ (visible' => visible)
          /\ op' = op \/ (op.pc # "draw" /\ op'.pc # "draw")
          /\ Dirty \subseteq Dirty' /\ cells' = cells
          /\ flush.pc = "svg" => ToSet(queue) \subseteq ToSet(queue')
        BY <1>1, <1>2, <1>3, <1>4
    <2>2. \A id \in DOMAIN Contents : Remains(id, cells, cells')
        BY <2>1 DEF Remains
    <2> QED BY <1>2, <2>1, <2>2, FaithfulKept
<1>10. Cursor'
    BY <1>1, <1>4, CursorUnmoved
<1> QED
    BY <1>5, <1>6, <1>7, <1>8, <1>9, <1>10 DEF ViewInv, IInv

LEMMA OneElement ==
    ASSUME NEW e
    PROVE  <<e>> # <<>> /\ Head(<<e>>) = e /\ Tail(<<e>>) = <<>> /\ Append(<<>>, e) = <<e>>
<1>1. <<e>> # <<>>
    BY OneIsSeq, NoneIsSeq
<1>2. Head(<<e>>) = e /\ Tail(<<e>>) = <<>> /\ Append(<<>>, e) = <<e>>
    OBVIOUS
<1> QED
    BY <1>1, <1>2

LEMMA WaiterIs == \A w, last : Waiter(w, last).who = w /\ Waiter(w, last).last = last
BY DEF Waiter

LEMMA TimerFiresView ==
    ASSUME ViewInv, IInv', TimerFires
    PROVE  ViewInv'
<1>1. /\ UNCHANGED <<session, viewer, run, show, runs, op, disposed, resumed>>
      /\ resumed = <<>>
    BY DEF TimerFires, users, bounds
<1>2. Moved
    BY DEF TimerFires, Moved
<1>3. OpWaits'
    <2> SUFFICES ASSUME op.pc = "flush" PROVE OpWaits'
        BY <1>1 DEF OpWaits
    <2>1. ~(resumed = <<Waiter("op", FALSE)>>)
        BY <1>1, OneElement
    <2>2. CASE flush.pc # "none"
        <3>1. UNCHANGED <<queue, flush, awaiting>>
            BY <2>2 DEF TimerFires
        <3> QED BY <1>1, <3>1 DEF ViewInv, OpWaits
    <2>3. CASE flush.pc = "none"
        <3>1. queue = <<>>
            BY <2>1, <2>3 DEF ViewInv, OpWaits
        <3>2. UNCHANGED <<queue, flush, awaiting>>
            BY <2>3, <3>1 DEF TimerFires, DoFlush
        <3> QED BY <1>1, <3>2 DEF ViewInv, OpWaits
    <2> QED BY <2>2, <2>3
<1> QED
    BY <1>1, <1>2, <1>3, MovedView

LEMMA ResumeView ==
    ASSUME ViewInv, IInv', Resume
    PROVE  ViewInv'
<1>1. /\ UNCHANGED <<session, viewer, run, show, runs, op, disposed>>
      /\ resumed # <<>> /\ resumed' = Tail(resumed)
    BY DEF Resume, users, bounds
<1>2. Moved
    BY DEF Resume, Moved
<1>3. OpWaits'
    <2> SUFFICES ASSUME op.pc = "flush" PROVE OpWaits'
        BY <1>1 DEF OpWaits
    <2>1. CASE flush.pc = "none" /\ awaiting = <<>> /\ resumed = <<Waiter("op", FALSE)>>
        <3>1. resumed' = <<>> /\ Head(resumed) = Waiter("op", FALSE)
            BY <1>1, <2>1, OneElement
        <3>2. ~Head(resumed).last /\ Head(resumed).who = "op"
            BY <3>1, WaiterIs
        <3>3. DoFlush(queue, Append(awaiting, Waiter("op", TRUE)))
            BY <2>1, <3>2 DEF Resume
        <3>4. Append(awaiting, Waiter("op", TRUE)) = <<Waiter("op", TRUE)>>
            BY <2>1, OneElement
        <3>5. CASE queue = <<>>
            <4>1. UNCHANGED <<queue, flush, awaiting>>
                BY <3>3, <3>5 DEF DoFlush
            <4> QED BY <1>1, <2>1, <3>1, <3>5, <4>1 DEF OpWaits
        <3>6. CASE queue # <<>>
            <4>1. /\ queue' = <<>> /\ awaiting' = <<Waiter("op", TRUE)>>
                  /\ flush' = [NoFlush EXCEPT !.pc = "winid", !.ids = ToSet(queue)]
                BY <3>3, <3>4, <3>6 DEF DoFlush
            <4>2. flush'.pc = "winid"
                BY <4>1 DEF NoFlush
            <4> QED BY <1>1, <3>1, <4>1, <4>2 DEF OpWaits
        <3> QED BY <3>5, <3>6
    <2>2. CASE /\ flush.pc = "none" /\ queue = <<>> /\ awaiting = <<>>
               /\ resumed = <<Waiter("op", TRUE)>>
        <3>1. resumed' = <<>> /\ Head(resumed) = Waiter("op", TRUE)
            BY <1>1, <2>2, OneElement
        <3>2. UNCHANGED <<queue, flush, awaiting>>
            BY <3>1, WaiterIs DEF Resume
        <3> QED BY <1>1, <2>2, <3>1, <3>2 DEF OpWaits
    <2> QED BY <1>1, <2>1, <2>2 DEF ViewInv, OpWaits
<1> QED
    BY <1>1, <1>2, <1>3, MovedView

LEMMA OpBeginView ==
    ASSUME ~Overlap, ViewInv, IInv', OpBegin
    PROVE  ViewInv'
<1>1. /\ UNCHANGED <<session, viewer, run, show, runs, disposed, resumed>>
      /\ resumed = <<>> /\ op.pc = "off" /\ show.pc = "off" /\ awaiting = <<>>
      /\ op' = [NoOp EXCEPT !.pc = "flush"] /\ FlushNow("op")
    BY DEF OpBegin
<1>2. Moved
    BY <1>1 DEF FlushNow, Moved
<1>3. OpWaits'
    <2>1. Append(awaiting, Waiter("op", FALSE)) = <<Waiter("op", FALSE)>>
        BY <1>1, OneElement
    <2>2. CASE flush.pc # "none"
        <3>1. /\ awaiting' = Append(awaiting, Waiter("op", FALSE)) /\ UNCHANGED flush
            BY <1>1, <2>2 DEF FlushNow
        <3> QED BY <1>1, <2>1, <2>2, <3>1 DEF OpWaits
    <2>3. CASE flush.pc = "none"
        <3>1. DoFlush(queue, <<Waiter("op", TRUE)>>)
            BY <1>1, <2>3 DEF FlushNow
        <3>2. CASE queue = <<>>
            <4>1. UNCHANGED <<queue, flush, awaiting>>
                BY <3>1, <3>2 DEF DoFlush
            <4> QED BY <1>1, <2>3, <3>2, <4>1 DEF OpWaits
        <3>3. CASE queue # <<>>
            <4>1. /\ queue' = <<>> /\ awaiting' = <<Waiter("op", TRUE)>>
                  /\ flush' = [NoFlush EXCEPT !.pc = "winid", !.ids = ToSet(queue)]
                BY <3>1, <3>3 DEF DoFlush
            <4>2. flush'.pc = "winid"
                BY <4>1 DEF NoFlush
            <4> QED BY <1>1, <4>1, <4>2 DEF OpWaits
        <3> QED BY <3>2, <3>3
    <2> QED BY <2>2, <2>3
<1> QED
    BY <1>1, <1>2, <1>3, MovedView

LEMMA SocketCloseView ==
    ASSUME ~Overlap, ViewInv, IInv', SocketClose
    PROVE  ViewInv'
<1>1. /\ UNCHANGED <<session, viewer, run, show, runs, op, disposed>>
      /\ FlushNow("socket") /\ op.pc = "off"
    BY DEF SocketClose, Apart, Redraws, users
<1>2. Moved
    BY <1>1 DEF FlushNow, Moved
<1>3. OpWaits'
    BY <1>1 DEF OpWaits
<1> QED
    BY <1>1, <1>2, <1>3, MovedView

LEMMA DisposeView ==
    ASSUME ~Overlap, ViewInv, IInv', Dispose
    PROVE  ViewInv'
<1>1. /\ UNCHANGED <<session, viewer, run, show, runs, op>>
      /\ run.pc = "off" /\ op.pc = "off"
    BY DEF Dispose, Apart, Redraws, users
<1>2. Moved
    BY DEF Dispose, Moved
<1>3. OpWaits'
    BY <1>1 DEF OpWaits
<1> QED
    BY <1>1, <1>2, <1>3, MovedView

-----------------------------------------------------------------------------
(* The steps of a run.                                                     *)

LEMMA CellChanged ==
    ASSUME NEW cs, CellsOk(cs), NEW id \in DOMAIN Contents, NEW c, IsCell(c), c.id = id,
           NEW others, others = [cs EXCEPT ![id] = c]
    PROVE  CellsOk(others) /\ \A x \in DOMAIN Contents : x # id => Remains(x, cs, others)
<1>1. others = [x \in DOMAIN Contents |-> IF x = id THEN c ELSE cs[x]]
    BY DEF CellsOk
<1>2. others = [x \in DOMAIN Contents |-> others[x]]
    BY <1>1
<1>3. \A x \in DOMAIN Contents : others[x] = IF x = id THEN c ELSE cs[x]
    BY <1>1
<1> QED
    BY <1>2, <1>3 DEF CellsOk, Remains

LEMMA OutputsSet ==
    ASSUME NEW c, IsCell(c), NEW outputs, Outs(outputs),
           NEW d, d = [c EXCEPT !.outputs = outputs]
    PROVE  IsCell(d) /\ d.id = c.id
<1>1. PICK id, type, source, count, old :
         c = [id |-> id, type |-> type, source |-> source, count |-> count, outputs |-> old]
    BY DEF IsCell
<1>2. d = [id |-> id, type |-> type, source |-> source, count |-> count, outputs |-> outputs]
    BY <1>1
<1>3. /\ d.id = c.id /\ d.type = c.type /\ d.source = c.source /\ d.count = c.count
      /\ d.outputs = outputs
    BY <1>1, <1>2
<1>4. d = [id |-> d.id, type |-> d.type, source |-> d.source, count |-> d.count,
           outputs |-> d.outputs]
    BY ONLY <1>2
<1>5. IsSequence(outputs) /\ DOMAIN outputs = 1 .. Len(outputs)
    BY SequenceToSet, SeqIs DEF Outs
<1> QED
    BY <1>3, <1>4, <1>5 DEF IsCell, Outs

LEMMA CountSet ==
    ASSUME NEW c, IsCell(c), NEW n \in Nat, NEW d, d = [c EXCEPT !.count = n]
    PROVE  IsCell(d) /\ d.id = c.id
<1>1. PICK id, type, source, count, outputs :
         c = [id |-> id, type |-> type, source |-> source, count |-> count,
              outputs |-> outputs]
    BY DEF IsCell
<1>2. d = [id |-> id, type |-> type, source |-> source, count |-> n, outputs |-> outputs]
    BY <1>1
<1>3. /\ d.id = c.id /\ d.type = c.type /\ d.source = c.source /\ d.count = n
      /\ d.outputs = c.outputs
    BY <1>1, <1>2
<1>4. d = [id |-> d.id, type |-> d.type, source |-> d.source, count |-> d.count,
           outputs |-> d.outputs]
    BY ONLY <1>2
<1> QED
    BY <1>3, <1>4 DEF IsCell

LEMMA MessageApplied ==
    ASSUME NEW c, IsCell(c), NEW m, IsOutput(m) \/ (m.kind = "input" /\ m.count \in Nat)
    PROVE  IsCell(applyMessageToCell(c, m)) /\ applyMessageToCell(c, m).id = c.id
<1>1. CASE m.kind = "input"
    <2>1. m.count \in Nat
        BY <1>1 DEF IsOutput
    <2>2. applyMessageToCell(c, m) = [c EXCEPT !.count = m.count]
        BY <1>1 DEF applyMessageToCell
    <2> QED BY <2>1, <2>2, CountSet
<1>2. CASE m.kind # "input"
    <2>1. Outs(c.outputs)
        BY SequenceIs, SeqIs DEF IsCell, Outs
    <2>2. Outs(Merge(c.outputs, m))
        BY <1>2, <2>1, MergeTyped
    <2>3. applyMessageToCell(c, m) = [c EXCEPT !.outputs = Merge(c.outputs, m)]
        BY <1>2 DEF applyMessageToCell
    <2> QED BY <2>2, <2>3, OutputsSet
<1> QED
    BY <1>1, <1>2

(* The end of a run that has been heard of leaves nothing dirty behind.     *)
LEMMA RunOver ==
    ASSUME ViewInv, IInv', UNCHANGED <<sched, session, viewer, op, show, runs>>,
           run.heard, run' = NoRun
    PROVE  ViewInv'
<1>1. UNCHANGED <<queue, flush, disposed, awaiting, resumed, nb, cells, plan, buf, visible,
                  failed, op, show, runs>>
    BY DEF sched, session, viewer
<1>2. run' = [pc |-> "off", cell |-> NoCell, heard |-> FALSE]
    BY DEF NoRun
<1>3. run'.pc = "off" /\ run' = [pc |-> run'.pc, cell |-> run'.cell, heard |-> run'.heard]
    BY ONLY <1>2
<1>4. Batch' = Batch
    BY <1>1 DEF Batch
<1>5. Dirty' = Dirty
    BY <1>3, <1>4 DEF Dirty
<1>6. Records'
    BY <1>1, <1>3 DEF ViewInv, Records
<1>7. Typed'
    BY <1>1, <1>3 DEF ViewInv, Typed
<1>8. OpWaits' /\ Alone'
    BY <1>1 DEF ViewInv, OpWaits, Alone
<1>9. Sole'
    BY <1>3, <1>4 DEF ViewInv, Sole
<1>10. Faithful'
    <2>1. \A id \in DOMAIN Contents : Remains(id, cells, cells')
        BY <1>1 DEF Remains
    <2> QED BY <1>1, <1>5, <2>1, FaithfulKept
<1>11. Cursor'
    BY <1>1, CursorUnmoved
<1> QED
    BY <1>6, <1>7, <1>8, <1>9, <1>10, <1>11 DEF ViewInv, IInv

LEMMA FlushAfterView ==
    ASSUME ~Overlap, ViewInv, IInv', NEW pc \in {"replied", "idle"}, FlushAfter(pc)
    PROVE  ViewInv'
<1>1. /\ UNCHANGED <<disposed, nb, cells, plan, buf, visible, failed, op, show, runs>>
      /\ op.pc = "off" /\ show.pc = "off" /\ run.pc \in {"on", "replied"}
      /\ run' = [run EXCEPT !.pc = pc, !.heard = TRUE]
    BY DEF FlushAfter, Hears, Apart, Redraws, session, viewer, bounds
<1>2. PICK a, b, c : run = [pc |-> a, cell |-> b, heard |-> c]
    BY DEF ViewInv, Records
<1>3. run' = [pc |-> pc, cell |-> b, heard |-> TRUE]
    BY <1>1, <1>2
<1>4. /\ run'.pc = pc /\ run'.cell = run.cell /\ run'.heard
      /\ run' = [pc |-> run'.pc, cell |-> run'.cell, heard |-> run'.heard]
    BY ONLY <1>2, <1>3
<1>5. run.cell \in DOMAIN Contents /\ ~disposed
    BY <1>1 DEF ViewInv, Typed
<1>6. PICK q : q = Append(queue, run.cell)
    OBVIOUS
<1>7. IsSeq(queue) /\ IsSeq(q) /\ q # <<>> /\ ToSet(q) = ToSet(queue) \cup {run.cell}
    BY <1>6, Queued, AppendToSet DEF ViewInv, Shapes
<1>8. /\ Batch' = Batch \cup {run.cell}
      /\ flush' = flush \/ (flush.pc = "none" /\ flush'.pc = "winid")
      /\ flush.pc # "none" => queue' = q
    <2>1. CASE flush.pc # "none"
        <3>1. queue' = q /\ flush' = flush
            BY <1>5, <1>6, <2>1 DEF FlushAfter
        <3> QED BY <1>7, <3>1 DEF Batch
    <2>2. CASE flush.pc = "none"
        <3>1. DoFlush(q, <<Waiter("run", TRUE)>>)
            BY <1>5, <1>6, <2>2 DEF FlushAfter
        <3>2. Batch' = ToSet(q) /\ flush'.pc = "winid"
            BY <1>7, <2>2, <3>1, DoFlushTakes DEF ViewInv
        <3>3. Batch = ToSet(queue)
            BY <2>2 DEF Batch
        <3> QED BY <1>7, <2>2, <3>2, <3>3
    <2> QED BY <2>1, <2>2
<1>9. Dirty \subseteq Dirty'
    BY <1>8 DEF Dirty
<1>10. Records'
    BY <1>1, <1>4 DEF ViewInv, Records
<1>11. Typed'
    BY <1>1, <1>4, <1>5 DEF ViewInv, Typed
<1>12. OpWaits' /\ Alone'
    BY <1>1 DEF OpWaits, Alone
<1>13. Sole'
    <2>1. PICK cell : Batch \subseteq {cell, NoCell} /\ (run.pc # "off" => run.cell = cell)
        BY DEF ViewInv, Sole
    <2>2. run.cell = cell
        BY <1>1, <2>1
    <2>3. Batch' \subseteq {cell, NoCell} /\ run'.cell = cell
        BY <1>4, <1>8, <2>1, <2>2
    <2> QED BY <2>3 DEF Sole
<1>14. Faithful'
    <2>1. \A id \in DOMAIN Contents : Remains(id, cells, cells')
        BY <1>1 DEF Remains
    <2>2. flush.pc = "svg" => ToSet(queue) \subseteq ToSet(queue')
        BY <1>7, <1>8
    <2> QED BY <1>1, <1>8, <1>9, <2>1, <2>2, FaithfulKept
<1>15. Cursor'
    BY <1>1, CursorUnmoved
<1> QED
    BY <1>10, <1>11, <1>12, <1>13, <1>14, <1>15 DEF ViewInv, IInv

LEMMA RunMessageView ==
    ASSUME ~Overlap, ViewInv, IInv', RunMessage
    PROVE  ViewInv'
<1>1. /\ UNCHANGED <<flush, disposed, awaiting, resumed, nb, plan, buf, visible, failed,
                     op, show, runs>>
      /\ op.pc = "off" /\ show.pc = "off" /\ run.pc \in {"on", "replied"}
      /\ run' = [run EXCEPT !.heard = TRUE] /\ Enqueue(run.cell)
    BY DEF RunMessage, Hears, Apart, Redraws, viewer
<1>2. PICK a, b, c : run = [pc |-> a, cell |-> b, heard |-> c]
    BY DEF ViewInv, Records
<1>3. run' = [pc |-> a, cell |-> b, heard |-> TRUE]
    BY <1>1, <1>2
<1>4. /\ run'.pc = run.pc /\ run'.cell = run.cell /\ run'.heard
      /\ run' = [pc |-> run'.pc, cell |-> run'.cell, heard |-> run'.heard]
    BY ONLY <1>2, <1>3
<1>5. run.cell \in DOMAIN Contents /\ ~disposed /\ CellsOk(cells) /\ runs \in Nat
    BY <1>1 DEF ViewInv, Typed
<1>6. queue' = Append(queue, run.cell)
    BY <1>1, <1>5 DEF Enqueue
<1>7. ToSet(queue') = ToSet(queue) \cup {run.cell}
    BY <1>6, AppendToSet DEF ViewInv, Shapes
<1>8. Batch' = Batch \cup {run.cell}
    BY <1>1, <1>7 DEF Batch
<1>9. Dirty \subseteq Dirty' /\ run.cell \in Dirty'
    BY <1>8 DEF Dirty
<1>10. CellsOk(cells')
       /\ \A id \in DOMAIN Contents : id # run.cell => Remains(id, cells, cells')
    <2>1. PICK m \in Messages \cup {[kind |-> "input", count |-> runs]} :
             cells' = [cells EXCEPT ![run.cell] = applyMessageToCell(@, m)]
        BY DEF RunMessage
    <2>2. IsOutput(m) \/ (m.kind = "input" /\ m.count \in Nat)
        BY <1>5, DisplayAssumption
    <2>3. PICK d : d = applyMessageToCell(cells[run.cell], m)
        OBVIOUS
    <2>4. IsCell(cells[run.cell]) /\ cells[run.cell].id = run.cell
        BY <1>5 DEF CellsOk
    <2>5. IsCell(d) /\ d.id = run.cell
        BY <2>2, <2>3, <2>4, MessageApplied
    <2>6. cells' = [cells EXCEPT ![run.cell] = d]
        BY <2>1, <2>3
    <2> QED BY <1>5, <2>5, <2>6, CellChanged
<1>11. Records'
    BY <1>1, <1>4 DEF ViewInv, Records
<1>12. Typed'
    BY <1>1, <1>4, <1>5, <1>10 DEF ViewInv, Typed
<1>13. OpWaits' /\ Alone'
    BY <1>1 DEF OpWaits, Alone
<1>14. Sole'
    <2>1. PICK cell : Batch \subseteq {cell, NoCell} /\ (run.pc # "off" => run.cell = cell)
        BY DEF ViewInv, Sole
    <2>2. run.cell = cell
        BY <1>1, <2>1
    <2>3. Batch' \subseteq {cell, NoCell} /\ run'.cell = cell
        BY <1>4, <1>8, <2>1, <2>2
    <2> QED BY <2>3 DEF Sole
<1>15. Faithful'
    <2>1. \A id \in DOMAIN Contents : id \notin Dirty' => Remains(id, cells, cells')
        BY <1>9, <1>10
    <2>2. /\ ToSet(queue) \subseteq ToSet(queue')
          /\ \A id \in DOMAIN Contents :
                id \notin ToSet(queue') => Remains(id, cells, cells')
        BY <1>7, <1>10
    <2> QED BY <1>1, <1>9, <2>1, <2>2, FaithfulKept
<1>16. Cursor'
    BY <1>1, CursorUnmoved
<1> QED
    BY <1>11, <1>12, <1>13, <1>14, <1>15, <1>16 DEF ViewInv, IInv

LEMMA RunStartView ==
    ASSUME ~Overlap, ViewInv, IInv', RunStart
    PROVE  ViewInv'
<1>1. /\ UNCHANGED <<queue, flush, disposed, awaiting, resumed, nb, plan, buf, visible,
                     failed, op, show>>
      /\ op.pc = "off" /\ show.pc = "off" /\ ~disposed /\ runs' = runs + 1
      /\ queue = <<>> /\ flush.pc = "none"
    BY DEF RunStart, Apart, Redraws, viewer, sched
<1>2. PICK id \in ToSet(nb) :
         /\ cells' = [cells EXCEPT ![id].outputs = <<>>]
         /\ run' = [pc |-> "on", cell |-> id, heard |-> FALSE]
    BY DEF RunStart
<1>3. id \in DOMAIN Contents /\ CellsOk(cells) /\ runs \in Nat
    BY DEF ViewInv, Typed, ToSet
<1>4. /\ run'.pc = "on" /\ run'.cell = id /\ ~run'.heard
      /\ run' = [pc |-> run'.pc, cell |-> run'.cell, heard |-> run'.heard]
    BY ONLY <1>2
<1>5. Batch' = {} /\ Batch = {}
    BY <1>1, NoneToSet DEF Batch
<1>6. id \in Dirty'
    BY <1>4 DEF Dirty
<1>7. CellsOk(cells') /\ \A x \in DOMAIN Contents : x # id => Remains(x, cells, cells')
    <2>1. PICK d : d = [cells[id] EXCEPT !.outputs = <<>>]
        OBVIOUS
    <2>2. IsCell(cells[id]) /\ cells[id].id = id
        BY <1>3 DEF CellsOk
    <2>3. IsCell(d) /\ d.id = id
        BY <2>1, <2>2, NoOuts, OutputsSet
    <2>4. cells' = [cells EXCEPT ![id] = d]
        BY <1>2, <2>1
    <2> QED BY <1>3, <2>3, <2>4, CellChanged
<1>8. Records'
    BY <1>1, <1>4 DEF ViewInv, Records
<1>9. Typed'
    BY <1>1, <1>3, <1>4, <1>7 DEF ViewInv, Typed
<1>10. OpWaits' /\ Alone'
    BY <1>1 DEF OpWaits, Alone
<1>11. Sole'
    BY <1>4, <1>5 DEF Sole
<1>12. CASE run.pc = "off"
    <2>1. Dirty \subseteq Dirty'
        BY <1>5, <1>12 DEF Dirty
    <2>2. \A x \in DOMAIN Contents : x \notin Dirty' => Remains(x, cells, cells')
        BY <1>6, <1>7
    <2>3. Faithful'
        BY <1>1, <2>1, <2>2, FaithfulKept
    <2>4. Cursor'
        BY <1>1, CursorUnmoved
    <2> QED BY <1>8, <1>9, <1>10, <1>11, <2>3, <2>4 DEF ViewInv, IInv
<1> QED
    BY <1>12 DEF RunStart

LEMMA HideView ==
    ASSUME ViewInv, IInv', Hide
    PROVE  ViewInv'
<1>1. /\ UNCHANGED <<queue, flush, disposed, awaiting, resumed, nb, cells, plan, buf, failed,
                     run, op, show, runs>>
      /\ ~visible'
    BY DEF Hide, sched, session, users
<1>2. Batch' = Batch /\ Dirty' = Dirty
    BY <1>1 DEF Batch, Dirty
<1>3. Records' /\ Typed' /\ OpWaits' /\ Alone' /\ Sole'
    BY <1>1, <1>2 DEF ViewInv, Records, Typed, OpWaits, Alone, Sole
<1>4. Faithful'
    <2>1. \A id \in DOMAIN Contents : Remains(id, cells, cells')
        BY <1>1 DEF Remains
    <2> QED BY <1>1, <1>2, <2>1, FaithfulKept
<1>5. Cursor'
    BY <1>1, CursorUnmoved
<1> QED
    BY <1>3, <1>4, <1>5 DEF ViewInv, IInv

-----------------------------------------------------------------------------
(* The steps of a flush.                                                   *)

LEMMA FitsPlanned ==
    ASSUME NEW p, NEW ids, NEW cs, NEW dirty, Fits(p, ids, cs, dirty)
    PROVE  Planned(p)
BY DEF Fits, Depicts, Planned

(* While a flush is in flight, nothing is redrawn.                         *)
LEMMA InFlight ==
    ASSUME ViewInv, flush.pc # "none"
    PROVE  op.pc \in {"off", "flush"} /\ show.pc = "off"
BY DEF ViewInv, Alone

LEMMA Ended ==
    ASSUME ViewInv, IInv', resumed = <<>>, flush.pc # "none", EndFlush,
           UNCHANGED <<nb, cells, users, runs>>
    PROVE  /\ flush'.pc = "none" /\ Batch' = ToSet(queue)
           /\ Records' /\ OpWaits' /\ Alone' /\ Sole'
<1>1. /\ flush' = NoFlush /\ UNCHANGED <<queue, disposed, run, op, show>>
      /\ resumed' = awaiting /\ awaiting' = <<>>
    BY DEF EndFlush, users
<1>2. flush'.pc = "none"
    BY <1>1 DEF NoFlush
<1>3. Batch' = ToSet(queue)
    BY <1>1, <1>2 DEF Batch
<1>4. Records'
    BY <1>1 DEF ViewInv, Records
<1>5. OpWaits'
    BY <1>1, <1>2 DEF ViewInv, OpWaits
<1>6. Alone'
    BY <1>1, InFlight DEF Alone
<1>7. Sole'
    BY <1>1, <1>3 DEF ViewInv, Sole, Batch
<1> QED
    BY <1>2, <1>3, <1>4, <1>5, <1>6, <1>7

LEMMA FlushHiddenView ==
    ASSUME ViewInv, IInv', FlushHidden
    PROVE  ViewInv'
<1>1. /\ UNCHANGED <<nb, cells, plan, buf, visible, failed, run, op, show, runs, users>>
      /\ resumed = <<>> /\ flush.pc = "winid" /\ ~visible /\ EndFlush /\ UNCHANGED disposed
    BY DEF FlushHidden, session, viewer, users, bounds, EndFlush
<1>2. flush'.pc = "none" /\ Records' /\ OpWaits' /\ Alone' /\ Sole'
    BY <1>1, Ended
<1>3. Typed'
    BY <1>1 DEF ViewInv, Typed
<1>4. Faithful'
    BY <1>1, <1>2 DEF ViewInv, Faithful, Drawing
<1>5. Cursor'
    BY <1>1, CursorUnmoved
<1> QED
    BY <1>2, <1>3, <1>4, <1>5 DEF ViewInv, IInv

LEMMA FlushFailsView ==
    ASSUME ViewInv, IInv', FlushFails
    PROVE  ViewInv'
<1>1. /\ UNCHANGED <<nb, cells, plan, buf, visible, run, op, show, runs, users>>
      /\ resumed = <<>> /\ flush.pc \in {"winid", "svg"} /\ failed' /\ EndFlush
      /\ UNCHANGED disposed
    BY DEF FlushFails, session, users, EndFlush
<1>2. flush'.pc = "none" /\ Records' /\ OpWaits' /\ Alone' /\ Sole'
    BY <1>1, Ended
<1>3. Typed'
    BY <1>1 DEF ViewInv, Typed
<1>4. op.pc \in {"off", "flush"} /\ show.pc = "off"
    BY <1>1, InFlight
<1>5. Faithful'
    BY <1>1, <1>2, <1>4 DEF Faithful
<1>6. Cursor'
    BY <1>1, <1>4 DEF ViewInv, Cursor
<1> QED
    BY <1>2, <1>3, <1>5, <1>6 DEF ViewInv, IInv

LEMMA FlushHookView ==
    ASSUME ViewInv, IInv', FlushHook
    PROVE  ViewInv'
<1>1. /\ UNCHANGED <<nb, cells, buf, visible, failed, run, op, show, runs, users>>
      /\ resumed = <<>> /\ flush.pc = "hook" /\ plan' = flush.plan /\ EndFlush
      /\ UNCHANGED disposed
    BY DEF FlushHook, viewer, users, bounds, EndFlush
<1>2. /\ flush'.pc = "none" /\ Batch' = ToSet(queue)
      /\ Records' /\ OpWaits' /\ Alone' /\ Sole'
    BY <1>1, Ended
<1>3. Typed'
    BY <1>1 DEF ViewInv, Typed
<1>4. op.pc \in {"off", "flush"} /\ show.pc = "off"
    BY <1>1, InFlight
<1>5. Batch = ToSet(queue)
    BY <1>1 DEF Batch
<1>6. PICK D : D = Dirty /\ D = Dirty'
    BY <1>1, <1>2, <1>5 DEF Dirty
<1>7. Fits(flush.plan, nb, cells, D) /\ (~failed => buf = flush.plan.lines)
    BY <1>1, <1>6 DEF ViewInv, Faithful
<1>8. Faithful'
    BY <1>1, <1>2, <1>4, <1>6, <1>7 DEF Faithful
<1>9. Cursor'
    <2>1. Planned(plan')
        BY <1>1, <1>7, FitsPlanned
    <2> QED BY <1>1, <1>4, <2>1 DEF Cursor
<1> QED
    BY <1>2, <1>3, <1>8, <1>9 DEF ViewInv, IInv

(* A batch is drawn: the plan `p` is built, and drawn from `from`.          *)
LEMMA DrawnView ==
    ASSUME ViewInv, IInv', flush.pc = "svg" \/ (flush.pc = "winid" /\ visible),
           NEW p, NEW more, more \subseteq ToSet(queue), Fits(p, nb, cells, more),
           NEW from, from = NoCell \/ from \in flush.ids,
           buf' = applyRenderPlan(buf, p, from),
           flush' = [flush EXCEPT !.pc = "hook", !.plan = p],
           UNCHANGED <<queue, disposed, awaiting, resumed, nb, cells, plan, visible, failed,
                       run, op, show, runs>>
    PROVE  ViewInv'
<1>1. flush'.pc = "hook" /\ flush'.plan = p
    <2>1. PICK a, b, c, d, e :
             flush = [pc |-> a, ids |-> b, nb |-> c, svgs |-> d, plan |-> e]
        BY DEF ViewInv, Shapes
    <2>2. flush' = [pc |-> "hook", ids |-> b, nb |-> c, svgs |-> d, plan |-> p]
        BY <2>1
    <2> QED BY ONLY <2>2
<1>2. op.pc \in {"off", "flush"} /\ show.pc = "off" /\ ~Drawing
    BY InFlight DEF Drawing
<1>3. /\ nb \in Seq(DOMAIN Contents) /\ IsSeq(buf)
      /\ \A i \in 1 .. Len(nb) : nb[i] \in DOMAIN Contents /\ nb[i] # NoCell
    BY DisplayAssumption DEF ViewInv, Typed
<1>4. PICK cell : Batch \subseteq {cell, NoCell} /\ (run.pc # "off" => run.cell = cell)
    BY DEF ViewInv, Sole
<1>5. Batch = ToSet(queue) \cup flush.ids /\ Batch' = ToSet(queue)
    BY <1>1 DEF Batch
<1>6. PICK old, new : old = Dirty /\ new = Dirty'
    OBVIOUS
<1>7. more \subseteq old /\ more \subseteq new
    BY <1>5, <1>6 DEF Dirty
<1>8. /\ IsSeq(p.lines) /\ IsSeq(p.ranges)
      /\ \A k \in 1 .. Len(p.ranges) :
            p.ranges[k].start \in Nat /\ p.ranges[k].start <= Len(p.lines)
    BY FitsShape
<1>9. IsSeq(buf')
    BY <1>3, <1>8, StillSeq
<1>10. ~failed => buf' = p.lines
    <2> SUFFICES ASSUME ~failed PROVE buf' = p.lines
        OBVIOUS
    <2>1. CASE from = NoCell
        BY <1>3, <2>1, FitsDrawn
    <2>2. CASE from # NoCell
        <3>1. from = cell
            BY <1>4, <1>5, <2>2
        <3>2. OnlyFrom(nb, old, from) /\ OnlyFrom(nb, more, from)
            BY <1>3, <1>4, <1>6, <1>7, <3>1 DEF Dirty, OnlyFrom
        <3>3. buf = plan.lines /\ Fits(plan, nb, cells, old)
            BY <1>2, <1>6 DEF ViewInv, Faithful
        <3>4. applyRenderPlan(plan.lines, p, from) = p.lines
            BY ONLY <3>2, <3>3, Fits(p, nb, cells, more), FitsApplied
        <3> QED BY <3>3, <3>4
    <2> QED BY <2>1, <2>2
<1>11. Fits(p, nb, cells, new)
    BY <1>7, FitsStill
<1>12. Faithful'
    BY <1>1, <1>2, <1>6, <1>10, <1>11 DEF Faithful, Drawing
<1>13. Records' /\ Typed'
    BY <1>9 DEF ViewInv, Records, Typed
<1>14. OpWaits' /\ Alone'
    BY <1>1, <1>2 DEF ViewInv, OpWaits, Alone
<1>15. Sole'
    BY <1>4, <1>5 DEF Sole
<1>16. Cursor'
    BY <1>2 DEF ViewInv, Cursor
<1> QED
    BY <1>12, <1>13, <1>14, <1>15, <1>16 DEF ViewInv, IInv

LEMMA FromCellIs ==
    ASSUME nb \in Seq(DOMAIN Contents), NEW ids, NEW from, from = FromCell(ids)
    PROVE  \/ from = NoCell /\ \A i \in 1 .. Len(nb) : nb[i] \notin ids
           \/ \E i \in 1 .. Len(nb) : from = nb[i] /\ nb[i] \in ids
<1>1. Len(nb) \in Nat
    OBVIOUS
<1>2. PICK P : P = {k \in 1 .. Len(nb) : nb[k] \in ids}
    OBVIOUS
<1>3. PICK i : i = IF P # {} THEN Min(P) ELSE 0
    OBVIOUS
<1>4. from = IF i = 0 THEN NoCell ELSE nb[i]
    BY <1>2, <1>3 DEF FromCell, SelectInSeq
<1>5. P \subseteq 1 .. Len(nb)
    BY ONLY <1>2, Zenon
<1>6. P \subseteq Nat /\ 0 \notin P
    BY ONLY <1>1, <1>5
<1>7. CASE P = {}
    BY <1>2, <1>3, <1>4, <1>7
<1>8. CASE P # {}
    <2>1. i \in P
        BY ONLY <1>3, <1>6, <1>8, LeastIs
    <2>2. i # 0
        BY ONLY <1>6, <2>1
    <2>3. i \in 1 .. Len(nb) /\ nb[i] \in ids
        BY ONLY <1>2, <2>1, Zenon
    <2>4. from = nb[i]
        BY ONLY <1>4, <2>2
    <2> QED BY ONLY <2>3, <2>4
<1> QED
    BY <1>7, <1>8

LEMMA PlanOfIs ==
    \A ids, pngs : /\ PlanOf(ids, pngs) = buildRenderPlan(BookOf(ids, cells), pngs)
                   /\ AllPngs(ids) = PngsIn(BookOf(ids, cells))
                   /\ Notebook(ids) = BookOf(ids, cells)
BY DEF PlanOf, AllPngs, Notebook, BookOf, PngsIn

LEMMA AllPngsFit ==
    ASSUME NEW ids \in Seq(DOMAIN Contents), NEW cs, CellsOk(cs), NEW dirty,
           NEW pngs, pngs = PngsIn(BookOf(ids, cs))
    PROVE  Pictures(pngs) /\ SvgsFit(pngs, ids, cs, dirty)
<1>1. PICK book : book = BookOf(ids, cs)
    OBVIOUS
<1>2. /\ Book(book) /\ IsSeq(book) /\ Len(book) = Len(ids)
      /\ \A i \in 1 .. Len(ids) : book[i] = cs[ids[i]]
    BY <1>1, BookIs DEF Book
<1>3. Pictures(pngs)
    BY <1>1, <1>2, AllPictures
<1>4. ASSUME NEW i \in 1 .. Len(ids)
      PROVE  \A j : PngAt(pngs, <<i, j>>) = PngIn(cs[ids[i]], j)
    <2>1. i \in 1 .. Len(book) /\ book[i] = cs[ids[i]]
        BY <1>2
    <2>2. \A j : PngAt(PngsIn(book), <<i, j>>) = PngIn(book[i], j)
        BY <1>2, <2>1, PngTold
    <2> QED BY <1>1, <2>1, <2>2
<1> QED
    BY <1>3, <1>4 DEF SvgsFit

LEMMA NoSvgsFit ==
    ASSUME NEW ids \in Seq(DOMAIN Contents), NEW cs, CellsOk(cs),
           SvgTargets(BookOf(ids, cs)) = {}
    PROVE  Pictures(<<>>) /\ SvgsFit(<<>>, ids, cs, {})
<1>1. PICK pngs : pngs = PngsIn(BookOf(ids, cs))
    OBVIOUS
<1>2. SvgsFit(pngs, ids, cs, {})
    BY <1>1, AllPngsFit
<1>3. DOMAIN pngs = {} /\ DOMAIN <<>> = {}
    BY <1>1 DEF PngsIn
<1>4. \A place : PngAt(pngs, place) = PngAt(<<>>, place)
    BY <1>3 DEF PngAt
<1> QED
    BY <1>2, <1>3, <1>4 DEF SvgsFit, Pictures

LEMMA FlushBuildView ==
    ASSUME ViewInv, IInv', FlushBuild
    PROVE  ViewInv'
<1>1. /\ UNCHANGED <<queue, timer, disposed, awaiting, resumed, nb, cells, plan, run, op,
                     show, runs>>
      /\ resumed = <<>> /\ flush.pc = "winid" /\ visible
    BY DEF FlushBuild, session, users, bounds
<1>2. nb \in Seq(DOMAIN Contents) /\ CellsOk(cells)
    BY DEF ViewInv, Typed
<1>3. PICK from : from = FromCell(flush.ids)
    OBVIOUS
<1>4. \/ from = NoCell /\ \A i \in 1 .. Len(nb) : nb[i] \notin flush.ids
      \/ from \in flush.ids /\ \E i \in 1 .. Len(nb) : from = nb[i]
    BY <1>2, <1>3, FromCellIs
<1>5. CASE SvgTargets(Notebook(nb)) = {}
    <2>1. DrawPart(nb, from, <<>>)
        BY <1>3, <1>5 DEF FlushBuild
    <2>2. PICK p : p = PlanOf(nb, <<>>)
        OBVIOUS
    <2>3. /\ buf' = applyRenderPlan(buf, p, from)
          /\ flush' = [flush EXCEPT !.pc = "hook", !.plan = p]
          /\ UNCHANGED <<visible, failed>>
        BY <2>1, <2>2 DEF DrawPart
    <2>4. SvgTargets(BookOf(nb, cells)) = {} /\ p = buildRenderPlan(BookOf(nb, cells), <<>>)
        BY <1>5, <2>2, PlanOfIs
    <2>5. Pictures(<<>>) /\ SvgsFit(<<>>, nb, cells, {})
        BY <1>2, <2>4, NoSvgsFit
    <2>6. Fits(p, nb, cells, {})
        BY <1>2, <2>4, <2>5, FitsBuilt DEF SvgsFit
    <2>7. PICK more : more = {}
        OBVIOUS
    <2>8. more \subseteq ToSet(queue) /\ Fits(p, nb, cells, more)
        BY <2>6, <2>7
    <2>9. from = NoCell \/ from \in flush.ids
        BY <1>4
    <2> QED BY <1>1, <2>3, <2>8, <2>9, DrawnView
<1>6. CASE SvgTargets(Notebook(nb)) # {}
    <2>1. /\ flush' = [flush EXCEPT !.pc = "svg", !.nb = nb, !.svgs = AllPngs(nb),
                                    !.ids = {from}]
          /\ UNCHANGED <<buf, visible, failed>>
        BY <1>3, <1>6 DEF FlushBuild, viewer
    <2>2. PICK svgs : svgs = AllPngs(nb)
        OBVIOUS
    <2>3. /\ flush'.pc = "svg" /\ flush'.nb = nb /\ flush'.svgs = svgs
          /\ flush'.ids = {from}
        <3>1. PICK a, b, c, d, e :
                 flush = [pc |-> a, ids |-> b, nb |-> c, svgs |-> d, plan |-> e]
            BY DEF ViewInv, Shapes
        <3>2. flush' = [pc |-> "svg", ids |-> {from}, nb |-> nb, svgs |-> svgs, plan |-> e]
            BY <2>1, <2>2, <3>1
        <3> QED BY ONLY <3>2
    <2>4. Pictures(svgs) /\ SvgsFit(svgs, nb, cells, ToSet(queue))
        BY <1>2, <2>2, PlanOfIs, AllPngsFit
    <2>5. op.pc \in {"off", "flush"} /\ show.pc = "off" /\ ~Drawing
        BY <1>1, InFlight DEF Drawing
    <2>6. PICK cell : Batch \subseteq {cell, NoCell} /\ (run.pc # "off" => run.cell = cell)
        BY DEF ViewInv, Sole
    <2>7. Batch = ToSet(queue) \cup flush.ids /\ Batch' = ToSet(queue) \cup {from}
        BY <1>1, <2>3 DEF Batch
    <2>8. PICK old, new : old = Dirty /\ new = Dirty'
        OBVIOUS
    <2>9. \A i \in 1 .. Len(nb) : nb[i] # NoCell
        BY <1>2, DisplayAssumption
    <2>10. ASSUME NEW i \in 1 .. Len(nb), nb[i] \in old PROVE nb[i] \in new
        <3>1. CASE nb[i] \in flush.ids
            <4>1. from \in flush.ids /\ nb[i] = cell
                BY <1>4, <2>6, <2>7, <2>9, <3>1
            <4>2. from # NoCell
                BY <1>4, <2>9, <3>1
            <4> QED BY <2>6, <2>7, <2>8, <4>1, <4>2 DEF Dirty
        <3>2. CASE nb[i] \notin flush.ids
            BY <1>1, <2>7, <2>8, <2>10, <3>2 DEF Dirty
        <3> QED BY <3>1, <3>2
    <2>11. ~failed => Fits(plan, nb, cells, new)
        <3> SUFFICES ASSUME ~failed PROVE Fits(plan, nb, cells, new)
            OBVIOUS
        <3>1. Fits(plan, nb, cells, old)
            BY <1>1, <2>5, <2>8 DEF ViewInv, Faithful
        <3> QED BY ONLY <2>10, <3>1, FitsStill
    <2>12. Faithful'
        BY <1>1, <2>1, <2>3, <2>4, <2>5, <2>8, <2>11 DEF ViewInv, Faithful, Drawing
    <2>13. Records' /\ Typed'
        BY <1>1, <2>1 DEF ViewInv, Records, Typed
    <2>14. OpWaits' /\ Alone'
        BY <1>1, <2>3, <2>5 DEF ViewInv, OpWaits, Alone
    <2>15. Sole'
        BY <1>1, <1>4, <2>6, <2>7 DEF Sole
    <2>16. Cursor'
        BY <1>1, <2>1, <2>5 DEF ViewInv, Cursor
    <2> QED BY <2>12, <2>13, <2>14, <2>15, <2>16 DEF ViewInv, IInv
<1> QED
    BY <1>5, <1>6

LEMMA FlushSvgView ==
    ASSUME ViewInv, IInv', FlushSvg
    PROVE  ViewInv'
<1>1. /\ UNCHANGED <<queue, timer, disposed, awaiting, resumed, nb, cells, plan, run, op,
                     show, runs>>
      /\ resumed = <<>> /\ flush.pc = "svg"
    BY DEF FlushSvg, session, users, bounds
<1>2. nb \in Seq(DOMAIN Contents) /\ CellsOk(cells)
    BY DEF ViewInv, Typed
<1>3. /\ flush.nb = nb /\ Pictures(flush.svgs)
      /\ SvgsFit(flush.svgs, nb, cells, ToSet(queue))
    BY <1>1 DEF ViewInv, Faithful
<1>4. PICK svgs, dirty : svgs = flush.svgs /\ dirty = ToSet(queue)
    OBVIOUS
<1>5. PICK places :
         places = {p \in DOMAIN svgs :
                      LET merged == mergeStreams(cells[nb[p[1]]].outputs)
                      IN p[2] \in DOMAIN merged /\ merged[p[2]].kind = "data"}
    OBVIOUS
<1>6. PICK pngs : pngs = [p \in places |-> svgs[p]]
    OBVIOUS
<1>7. PICK from \in flush.ids : DrawPart(nb, from, pngs)
    BY <1>3, <1>4, <1>5, <1>6 DEF FlushSvg
<1>8. PICK p : p = PlanOf(nb, pngs)
    OBVIOUS
<1>9. /\ buf' = applyRenderPlan(buf, p, from)
      /\ flush' = [flush EXCEPT !.pc = "hook", !.plan = p]
      /\ UNCHANGED <<visible, failed>>
    BY <1>7, <1>8 DEF DrawPart
<1>10. p = buildRenderPlan(BookOf(nb, cells), pngs)
    BY <1>8, PlanOfIs
<1>11. Pictures(pngs)
    BY <1>3, <1>4, <1>5, <1>6 DEF Pictures
<1>12. ASSUME NEW i \in 1 .. Len(nb), nb[i] \notin dirty, NEW j
       PROVE  PngAt(pngs, <<i, j>>) = PngIn(cells[nb[i]], j)
    <2>1. PICK q, merged : q = <<i, j>> /\ merged = mergeStreams(cells[nb[i]].outputs)
        OBVIOUS
    <2>2. q[1] = i /\ q[2] = j
        BY <2>1
    <2>3. PngAt(svgs, q) = PngIn(cells[nb[i]], j)
        BY <1>3, <1>4, <1>12, <2>1 DEF SvgsFit
    <2>4. q \in places <=> q \in DOMAIN svgs /\ j \in DOMAIN merged /\ merged[j].kind = "data"
        BY <1>5, <2>1, <2>2
    <2>5. DOMAIN pngs = places /\ (q \in places => pngs[q] = svgs[q])
        BY <1>6
    <2>6. CASE q \in places
        BY <2>1, <2>3, <2>4, <2>5, <2>6 DEF PngAt
    <2>7. CASE q \notin places
        <3>1. PngAt(pngs, q) = 0
            BY <2>5, <2>7 DEF PngAt
        <3>2. CASE q \notin DOMAIN svgs
            BY <2>1, <2>3, <3>1, <3>2 DEF PngAt
        <3>3. CASE q \in DOMAIN svgs
            <4>1. ~(j \in DOMAIN merged /\ merged[j].kind = "data")
                BY <2>4, <2>7, <3>3
            <4>2. IsCell(cells[nb[i]])
                BY <1>2 DEF CellsOk
            <4>3. j \notin SvgsOf(merged)
                BY <2>1, <4>1, <4>2, SvgIsData
            <4>4. PngIn(cells[nb[i]], j) = 0
                BY <2>1, <4>3 DEF PngIn
            <4> QED BY <2>1, <3>1, <4>4
        <3> QED BY <3>2, <3>3
    <2> QED BY <2>6, <2>7
<1>13. SvgsFit(pngs, nb, cells, dirty)
    BY ONLY <1>12 DEF SvgsFit
<1>14. Fits(p, nb, cells, dirty)
    BY <1>2, <1>10, <1>11, <1>13, FitsBuilt DEF SvgsFit
<1>15. dirty \subseteq ToSet(queue)
    BY <1>4
<1> QED
    BY <1>1, <1>9, <1>14, <1>15, DrawnView

-----------------------------------------------------------------------------
(* The steps of a cell operation, and of a buffer that comes into view.     *)

LEMMA Calm ==
    ASSUME ViewInv, op.pc \notin {"off", "flush"} \/ show.pc # "off"
    PROVE  flush.pc = "none" /\ queue = <<>> /\ Batch = {} /\ (op.pc = "off" \/ show.pc = "off")
BY NoneToSet DEF ViewInv, Alone, Batch

LEMMA OpFlushedView ==
    ASSUME ViewInv, IInv', OpFlushed
    PROVE  ViewInv'
<1>1. /\ UNCHANGED <<queue, flush, disposed, awaiting, resumed, nb, cells, plan, buf, visible,
                     failed, run, show, runs>>
      /\ op.pc = "flush" /\ ~Waiting("op") /\ resumed = <<>>
      /\ op' = [op EXCEPT !.pc = "cursor", !.before = plan.ranges]
    BY DEF OpFlushed, sched, session, viewer, bounds
<1>2. op'.pc = "cursor" /\ op'.before = plan.ranges /\ Records'
    <2>1. PICK a, b, c, d, e, f, g :
             op = [pc |-> a, before |-> b, old |-> c, nb |-> d, prefer |-> e, plan |-> f,
                   under |-> g]
        BY DEF ViewInv, Records
    <2>2. op' = [pc |-> "cursor", before |-> plan.ranges, old |-> c, nb |-> d, prefer |-> e,
                 plan |-> f, under |-> g]
        BY <1>1, <2>1
    <2>3. /\ op' = [pc |-> op'.pc, before |-> op'.before, old |-> op'.old, nb |-> op'.nb,
                    prefer |-> op'.prefer, plan |-> op'.plan, under |-> op'.under]
          /\ op'.pc = "cursor" /\ op'.before = plan.ranges
        BY ONLY <2>2
    <2> QED BY <1>1, <2>3 DEF ViewInv, Records
<1>3. flush.pc = "none" /\ queue = <<>>
    <2>1. ASSUME NEW last, awaiting = <<Waiter("op", last)>> PROVE FALSE
        <3>1. PICK w : w = Waiter("op", last)
            OBVIOUS
        <3>2. 1 \in DOMAIN <<w>> /\ <<w>>[1] = w
            OBVIOUS
        <3>3. 1 \in DOMAIN awaiting /\ awaiting[1].who = "op"
            BY <2>1, <3>1, <3>2, WaiterIs
        <3> QED BY <1>1, <3>3 DEF Waiting
    <2>2. ~(resumed = <<Waiter("op", FALSE)>>)
        BY <1>1, OneElement
    <2> QED BY <1>1, <2>1, <2>2 DEF ViewInv, OpWaits
<1>4. Batch' = Batch /\ Dirty' = Dirty
    BY <1>1 DEF Batch, Dirty
<1>5. Typed' /\ Sole'
    BY <1>1, <1>2, <1>4 DEF ViewInv, Typed, Sole
<1>6. OpWaits' /\ Alone'
    BY <1>1, <1>2, <1>3 DEF ViewInv, OpWaits, Alone
<1>7. Faithful'
    <2>1. \A id \in DOMAIN Contents : Remains(id, cells, cells')
        BY <1>1 DEF Remains
    <2> QED BY <1>1, <1>2, <1>4, <2>1, FaithfulKept
<1>8. Cursor'
    BY <1>1, <1>2 DEF ViewInv, Cursor
<1> QED
    BY <1>2, <1>5, <1>6, <1>7, <1>8 DEF ViewInv, IInv

LEMMA MutationsTyped ==
    ASSUME nb \in Seq(DOMAIN Contents), NEW m \in Mutations
    PROVE  m[1] \in Seq(DOMAIN Contents)
<1>1. PICK S, s : S = DOMAIN Contents /\ s = nb /\ s \in Seq(S) /\ Len(s) \in Nat
    OBVIOUS
<1>2. NewCell \in S
    BY <1>1, DisplayAssumption
<1>3. CASE \E i \in 1 .. Len(nb) + 1 : m = <<InsertAt(nb, i, NewCell), NewCell>>
    <2>1. PICK i \in 1 .. Len(s) + 1 : m = <<InsertAt(s, i, NewCell), NewCell>>
        BY <1>1, <1>3
    <2>2. m[1] = SubSeq(s, 1, i - 1) \o <<NewCell>> \o SubSeq(s, i, Len(s))
        BY <2>1 DEF InsertAt
    <2>3. SubSeq(s, 1, i - 1) \in Seq(S) /\ SubSeq(s, i, Len(s)) \in Seq(S)
          /\ <<NewCell>> \in Seq(S)
        BY <1>1, <1>2
    <2> QED BY <1>1, <2>2, <2>3
<1>4. CASE \E i \in 1 .. Len(nb) : m = <<RemoveAt(nb, i), NoCell>>
    <2>1. PICK i \in 1 .. Len(s) : m = <<RemoveAt(s, i), NoCell>>
        BY <1>1, <1>4
    <2>2. m[1] = SubSeq(s, 1, i - 1) \o SubSeq(s, i + 1, Len(s))
        BY <2>1 DEF RemoveAt
    <2>3. SubSeq(s, 1, i - 1) \in Seq(S) /\ SubSeq(s, i + 1, Len(s)) \in Seq(S)
        BY <1>1
    <2> QED BY <1>1, <2>2, <2>3
<1>5. CASE \E i \in 2 .. Len(nb) : m = <<MovedUp(i), nb[i]>>
    <2>1. PICK i \in 2 .. Len(s) : m = <<MovedUp(i), s[i]>>
        BY <1>1, <1>5
    <2>2. m[1] = [s EXCEPT ![i] = s[i - 1], ![i - 1] = s[i]]
        BY <1>1, <2>1 DEF MovedUp
    <2>3. s[i] \in S /\ s[i - 1] \in S /\ i \in 1 .. Len(s) /\ i - 1 \in 1 .. Len(s)
        BY <1>1
    <2> QED BY <1>1, <2>2, <2>3
<1> QED
    BY <1>3, <1>4, <1>5 DEF Mutations

LEMMA OpMutateView ==
    ASSUME ViewInv, IInv', OpMutate
    PROVE  ViewInv'
<1>1. /\ UNCHANGED <<queue, flush, disposed, awaiting, resumed, nb, cells, plan, buf, visible,
                     failed, run, show, runs>>
      /\ op.pc = "cursor"
    BY DEF OpMutate, sched, session, viewer, bounds
<1>2. PICK l \in IF visible THEN DOMAIN buf ELSE {1}, m \in Mutations :
         op' = [op EXCEPT !.pc = "build", !.old = lineToCellId(op.before, l),
                          !.nb = m[1], !.prefer = m[2],
                          !.under = IF failed THEN NoCell ELSE buf[l].cell]
    BY DEF OpMutate
<1>3. flush.pc = "none" /\ queue = <<>> /\ show.pc = "off" /\ ~Drawing
    BY <1>1, Calm DEF Drawing
<1>4. PICK old, under : /\ old = lineToCellId(op.before, l)
                        /\ under = IF failed THEN NoCell ELSE buf[l].cell
    OBVIOUS
<1>5. /\ op'.pc = "build" /\ op'.old = old /\ op'.nb = m[1] /\ op'.under = under
      /\ Records'
    <2>1. PICK a, b, c, d, e, f, g :
             op = [pc |-> a, before |-> b, old |-> c, nb |-> d, prefer |-> e, plan |-> f,
                   under |-> g]
        BY DEF ViewInv, Records
    <2>2. op' = [pc |-> "build", before |-> b, old |-> old, nb |-> m[1], prefer |-> m[2],
                 plan |-> f, under |-> under]
        BY <1>2, <1>4, <2>1
    <2>3. /\ op' = [pc |-> op'.pc, before |-> op'.before, old |-> op'.old, nb |-> op'.nb,
                    prefer |-> op'.prefer, plan |-> op'.plan, under |-> op'.under]
          /\ op'.pc = "build" /\ op'.old = old /\ op'.nb = m[1] /\ op'.under = under
        BY ONLY <2>2
    <2> QED BY <1>1, <2>3 DEF ViewInv, Records
<1>6. under = NoCell \/ old = under
    <2> SUFFICES ASSUME ~failed PROVE old = under
        BY <1>4
    <2>1. buf = plan.lines /\ op.before = plan.ranges /\ Planned(plan)
        BY <1>1, <1>3 DEF ViewInv, Faithful, Cursor
    <2>2. PICK book, pngs :
             Book(book) /\ Pictures(pngs) /\ plan = buildRenderPlan(book, pngs)
        BY <2>1 DEF Planned
    <2>3. IsSeq(plan.lines) /\ Len(plan.lines) >= 1
        BY <2>2, PlanLines
    <2>4. DOMAIN plan.lines = 1 .. Len(plan.lines) /\ Len(plan.lines) \in Nat
        BY <2>3, SeqIs
    <2>5. l \in 1 .. Len(plan.lines)
        BY <2>1, <2>3, <2>4
    <2>6. lineToCellId(plan.ranges, l) = plan.lines[l].cell
        BY ONLY <2>2, <2>5, LineTold
    <2> QED BY <1>4, <2>1, <2>6
<1>7. Batch' = Batch /\ Dirty' = Dirty
    BY <1>1 DEF Batch, Dirty
<1>8. Typed'
    <2>1. m[1] \in Seq(DOMAIN Contents)
        BY MutationsTyped DEF ViewInv, Typed
    <2> QED BY <1>1, <1>5, <2>1 DEF ViewInv, Typed
<1>9. OpWaits' /\ Alone' /\ Sole'
    BY <1>1, <1>3, <1>5, <1>7 DEF ViewInv, OpWaits, Alone, Sole
<1>10. Faithful'
    <2>1. \A id \in DOMAIN Contents : Remains(id, cells, cells')
        BY <1>1 DEF Remains
    <2> QED BY <1>1, <1>5, <1>7, <2>1, FaithfulKept
<1>11. Cursor'
    BY <1>1, <1>5, <1>6 DEF ViewInv, Cursor
<1> QED
    BY <1>5, <1>8, <1>9, <1>10, <1>11 DEF ViewInv, IInv

LEMMA OpCommitView ==
    ASSUME ViewInv, IInv', OpCommit
    PROVE  ViewInv'
<1>1. /\ UNCHANGED <<queue, flush, disposed, awaiting, resumed, cells, buf, visible,
                     failed, run, show, runs>>
      /\ op.pc = "build" /\ nb' = op.nb
    BY DEF OpCommit, sched, viewer, bounds
<1>2. PICK p : p = PlanOf(op.nb, AllPngs(op.nb))
    OBVIOUS
<1>3. plan' = p /\ op' = [op EXCEPT !.pc = "draw", !.plan = p]
    BY <1>2 DEF OpCommit
<1>4. op'.pc = "draw" /\ op'.plan = p /\ op'.under = op.under /\ op'.old = op.old /\ Records'
    <2>1. PICK a, b, c, d, e, f, g :
             op = [pc |-> a, before |-> b, old |-> c, nb |-> d, prefer |-> e, plan |-> f,
                   under |-> g]
        BY DEF ViewInv, Records
    <2>2. op' = [pc |-> "draw", before |-> b, old |-> c, nb |-> d, prefer |-> e,
                 plan |-> p, under |-> g]
        BY <1>3, <2>1
    <2>3. /\ op' = [pc |-> op'.pc, before |-> op'.before, old |-> op'.old, nb |-> op'.nb,
                    prefer |-> op'.prefer, plan |-> op'.plan, under |-> op'.under]
          /\ op'.pc = "draw" /\ op'.plan = p /\ op'.under = op.under /\ op'.old = op.old
        BY ONLY <2>1, <2>2
    <2> QED BY <1>1, <2>3 DEF ViewInv, Records
<1>5. flush.pc = "none" /\ queue = <<>> /\ show.pc = "off"
    BY <1>1, Calm
<1>6. op.nb \in Seq(DOMAIN Contents) /\ CellsOk(cells)
    BY <1>1 DEF ViewInv, Typed
<1>7. Fits(p, op.nb, cells, {})
    BY <1>2, <1>6, PlanOfIs, FitsFresh
<1>8. Batch' = Batch
    BY <1>1 DEF Batch
<1>9. Typed' /\ Sole'
    BY <1>1, <1>4, <1>6, <1>8 DEF ViewInv, Typed, Sole
<1>10. OpWaits' /\ Alone'
    BY <1>1, <1>4, <1>5 DEF OpWaits, Alone
<1>11. Faithful'
    BY <1>1, <1>3, <1>4, <1>5, <1>7 DEF Faithful, Drawing
<1>12. Cursor'
    <2>1. Planned(p)
        BY <1>7, FitsPlanned
    <2>2. op.under = NoCell \/ op.old = op.under
        BY <1>1 DEF ViewInv, Cursor
    <2> QED BY <1>3, <1>4, <2>1, <2>2 DEF Cursor
<1> QED
    BY <1>4, <1>9, <1>10, <1>11, <1>12 DEF ViewInv, IInv

LEMMA OpDrawView ==
    ASSUME ViewInv, IInv', OpDraw
    PROVE  ViewInv'
<1>1. /\ UNCHANGED <<queue, flush, disposed, awaiting, resumed, nb, cells, plan, visible,
                     run, show, runs>>
      /\ op.pc = "draw" /\ ~failed' /\ buf' = applyRenderPlan(buf, op.plan, NoCell)
      /\ op' = [op EXCEPT !.pc = "restore"]
    BY DEF OpDraw, sched, session, bounds
<1>2. /\ op'.pc = "restore" /\ op'.plan = op.plan /\ op'.under = op.under
      /\ op'.old = op.old /\ Records'
    <2>1. PICK a, b, c, d, e, f, g :
             op = [pc |-> a, before |-> b, old |-> c, nb |-> d, prefer |-> e, plan |-> f,
                   under |-> g]
        BY DEF ViewInv, Records
    <2>2. op' = [pc |-> "restore", before |-> b, old |-> c, nb |-> d, prefer |-> e,
                 plan |-> f, under |-> g]
        BY <1>1, <2>1
    <2>3. /\ op' = [pc |-> op'.pc, before |-> op'.before, old |-> op'.old, nb |-> op'.nb,
                    prefer |-> op'.prefer, plan |-> op'.plan, under |-> op'.under]
          /\ op'.pc = "restore" /\ op'.plan = op.plan /\ op'.under = op.under
          /\ op'.old = op.old
        BY ONLY <2>1, <2>2
    <2> QED BY <1>1, <2>3 DEF ViewInv, Records
<1>3. flush.pc = "none" /\ queue = <<>> /\ show.pc = "off"
    BY <1>1, Calm
<1>4. /\ nb \in Seq(DOMAIN Contents) /\ IsSeq(buf)
      /\ op.plan = plan /\ Fits(plan, nb, cells, {})
    BY <1>1 DEF ViewInv, Typed, Faithful
<1>5. buf' = plan.lines
    BY <1>1, <1>4, FitsDrawn
<1>6. IsSeq(plan.lines)
    BY <1>4, FitsShape
<1>7. Fits(plan, nb, cells, Dirty')
    <2>1. PICK D : D = Dirty'
        OBVIOUS
    <2>2. Fits(plan, nb, cells, D)
        BY <1>4, FitsStill
    <2> QED BY <2>1, <2>2
<1>8. Batch' = Batch
    BY <1>1 DEF Batch
<1>9. Typed' /\ Sole'
    BY <1>1, <1>2, <1>5, <1>6, <1>8 DEF ViewInv, Typed, Sole
<1>10. OpWaits' /\ Alone'
    BY <1>1, <1>2, <1>3 DEF OpWaits, Alone
<1>11. Faithful'
    BY <1>1, <1>2, <1>3, <1>5, <1>7 DEF Faithful, Drawing
<1>12. Cursor'
    BY <1>1, <1>2, <1>4, <1>5 DEF ViewInv, Cursor
<1> QED
    BY <1>2, <1>9, <1>10, <1>11, <1>12 DEF ViewInv, IInv

LEMMA OpRestoreView ==
    ASSUME ViewInv, IInv', OpRestore
    PROVE  ViewInv'
<1>1. /\ UNCHANGED <<queue, flush, disposed, awaiting, resumed, nb, cells, plan, buf, visible,
                     failed, run, show, runs>>
      /\ op.pc = "restore" /\ op' = NoOp
    BY DEF OpRestore, sched, session, viewer, bounds
<1>2. op'.pc = "off" /\ Records'
    BY <1>1 DEF NoOp, ViewInv, Records
<1>3. Batch' = Batch /\ Dirty' = Dirty
    BY <1>1 DEF Batch, Dirty
<1>4. Typed' /\ Sole' /\ OpWaits' /\ Alone'
    BY <1>1, <1>2, <1>3 DEF ViewInv, Typed, Sole, OpWaits, Alone
<1>5. Faithful'
    <2>1. \A id \in DOMAIN Contents : Remains(id, cells, cells')
        BY <1>1 DEF Remains
    <2> QED BY <1>1, <1>2, <1>3, <2>1, FaithfulKept
<1>6. Cursor'
    BY <1>1, <1>2, CursorUnmoved
<1> QED
    BY <1>2, <1>4, <1>5, <1>6 DEF ViewInv, IInv

LEMMA ShowView ==
    ASSUME ~Overlap, ViewInv, IInv', Show
    PROVE  ViewInv'
<1>1. /\ UNCHANGED <<queue, flush, disposed, awaiting, resumed, nb, cells, plan, buf, failed,
                     run, op, runs>>
      /\ show.pc = "off" /\ op.pc = "off" /\ flush.pc = "none" /\ queue = <<>>
      /\ show' = [show EXCEPT !.pc = "build"]
    BY DEF Show, sched, session, bounds
<1>2. show'.pc = "build" /\ show' = [pc |-> show'.pc, plan |-> show'.plan]
    <2>1. PICK a, b : show = [pc |-> a, plan |-> b]
        BY DEF ViewInv, Records
    <2>2. show' = [pc |-> "build", plan |-> b]
        BY <1>1, <2>1
    <2> QED BY ONLY <2>2
<1>3. Batch' = Batch
    BY <1>1 DEF Batch
<1>4. Records' /\ Typed' /\ Sole' /\ OpWaits' /\ Alone'
    BY <1>1, <1>2, <1>3 DEF ViewInv, Records, Typed, Sole, OpWaits, Alone
<1>5. Faithful'
    BY <1>1, <1>2 DEF ViewInv, Faithful, Drawing
<1>6. Cursor'
    BY <1>1, CursorUnmoved
<1> QED
    BY <1>4, <1>5, <1>6 DEF ViewInv, IInv

LEMMA ShowBuildView ==
    ASSUME ViewInv, IInv', ShowBuild
    PROVE  ViewInv'
<1>1. /\ UNCHANGED <<queue, flush, disposed, awaiting, resumed, nb, cells, buf, visible,
                     failed, run, op, runs>>
      /\ show.pc = "build" /\ show' = [pc |-> "draw", plan |-> plan']
    BY DEF ShowBuild, sched, viewer, bounds
<1>2. PICK p : p = PlanOf(nb, AllPngs(nb))
    OBVIOUS
<1>3. plan' = p
    BY <1>2 DEF ShowBuild
<1>4. flush.pc = "none" /\ queue = <<>> /\ op.pc = "off"
    BY <1>1, Calm
<1>5. Fits(p, nb, cells, {})
    BY <1>2, PlanOfIs, FitsFresh DEF ViewInv, Typed
<1>6. show'.pc = "draw" /\ show'.plan = p /\ show' = [pc |-> show'.pc, plan |-> show'.plan]
    BY <1>1, <1>3
<1>7. Batch' = Batch
    BY <1>1 DEF Batch
<1>8. Records' /\ Typed' /\ Sole' /\ OpWaits' /\ Alone'
    BY <1>1, <1>4, <1>6, <1>7 DEF ViewInv, Records, Typed, Sole, OpWaits, Alone
<1>9. Faithful'
    BY <1>1, <1>3, <1>4, <1>5, <1>6 DEF Faithful, Drawing
<1>10. Cursor'
    <2>1. Planned(p)
        BY <1>5, FitsPlanned
    <2> QED BY <1>1, <1>3, <1>4, <2>1 DEF Cursor
<1> QED
    BY <1>8, <1>9, <1>10 DEF ViewInv, IInv

LEMMA ShowDrawView ==
    ASSUME ViewInv, IInv', ShowDraw
    PROVE  ViewInv'
<1>1. /\ UNCHANGED <<queue, flush, disposed, awaiting, resumed, nb, cells, plan, visible,
                     run, op, runs>>
      /\ show.pc = "draw" /\ ~failed' /\ buf' = applyRenderPlan(buf, show.plan, NoCell)
      /\ show' = NoShow
    BY DEF ShowDraw, sched, session, bounds
<1>2. show'.pc = "off" /\ show' = [pc |-> show'.pc, plan |-> show'.plan]
    BY <1>1 DEF NoShow
<1>3. flush.pc = "none" /\ queue = <<>> /\ op.pc = "off"
    BY <1>1, Calm
<1>4. /\ nb \in Seq(DOMAIN Contents) /\ IsSeq(buf)
      /\ show.plan = plan /\ Fits(plan, nb, cells, {})
    BY <1>1 DEF ViewInv, Typed, Faithful
<1>5. buf' = plan.lines
    BY <1>1, <1>4, FitsDrawn
<1>6. IsSeq(plan.lines)
    BY <1>4, FitsShape
<1>7. Fits(plan, nb, cells, Dirty')
    <2>1. PICK D : D = Dirty'
        OBVIOUS
    <2>2. Fits(plan, nb, cells, D)
        BY <1>4, FitsStill
    <2> QED BY <2>1, <2>2
<1>8. Batch' = Batch
    BY <1>1 DEF Batch
<1>9. Records' /\ Typed' /\ Sole' /\ OpWaits' /\ Alone'
    BY <1>1, <1>2, <1>3, <1>5, <1>6, <1>8 DEF ViewInv, Records, Typed, Sole, OpWaits, Alone
<1>10. Faithful'
    BY <1>1, <1>2, <1>3, <1>5, <1>7 DEF Faithful, Drawing
<1>11. Cursor'
    BY <1>1, <1>3 DEF ViewInv, Cursor
<1> QED
    BY <1>9, <1>10, <1>11 DEF ViewInv, IInv

-----------------------------------------------------------------------------
(* The invariant holds in every state.                                     *)

LEMMA InitView == Init => ViewInv
<1> SUFFICES ASSUME Init PROVE ViewInv
    OBVIOUS
<1>1. /\ nb \in Seq(DOMAIN Contents) /\ cells = Contents /\ buf = plan.lines
      /\ visible = TRUE /\ failed = FALSE /\ queue = <<>> /\ flush = NoFlush
      /\ awaiting = <<>> /\ resumed = <<>> /\ run = NoRun /\ op = NoOp /\ show = NoShow
      /\ runs = 0
    BY DisplayAssumption DEF Init
<1>2. flush.pc = "none" /\ run.pc = "off" /\ op.pc = "off" /\ show.pc = "off"
    BY <1>1 DEF NoFlush, NoRun, NoOp, NoShow
<1>3. Records
    BY <1>1 DEF Records, NoRun, NoOp, NoShow
<1>4. CellsOk(cells)
    BY ONLY <1>1, DisplayAssumption DEF CellsOk
<1>5. Batch = {} /\ Dirty = {}
    BY <1>1, <1>2, NoneToSet DEF Batch, Dirty
<1>6. Fits(plan, nb, cells, {})
    <2>1. plan = PlanOf(nb, AllPngs(nb))
        BY DEF Init
    <2> QED BY <1>1, <1>4, <2>1, PlanOfIs, FitsFresh
<1>7. IsSeq(buf) /\ Planned(plan)
    BY <1>1, <1>6, FitsShape, FitsPlanned
<1>8. Typed
    BY <1>1, <1>2, <1>4, <1>7 DEF Typed
<1>9. OpWaits /\ Alone /\ Sole
    BY <1>2, <1>5 DEF OpWaits, Alone, Sole
<1>10. Faithful
    BY <1>1, <1>2, <1>5, <1>6 DEF Faithful, Drawing
<1>11. Cursor
    BY <1>2, <1>7 DEF Cursor
<1> QED
    BY <1>3, <1>8, <1>9, <1>10, <1>11, InitInv DEF ViewInv, IInv

LEMMA StillView ==
    ASSUME ViewInv, IInv', UNCHANGED vars
    PROVE  ViewInv'
<1>1. UNCHANGED <<sched, session, viewer, users, bounds, nb, cells, plan, buf, visible, failed,
                  queue, flush, disposed, awaiting, resumed, run, op, show, runs>>
    BY DEF vars, sched, session, viewer, users, bounds
<1>2. Batch' = Batch /\ Dirty' = Dirty /\ Drawing' = Drawing
    BY <1>1 DEF Batch, Dirty, Drawing
<1>3. Records' /\ Typed' /\ OpWaits' /\ Alone' /\ Sole'
    BY <1>1, <1>2 DEF ViewInv, Records, Typed, OpWaits, Alone, Sole
<1>4. Faithful' /\ Cursor'
    BY <1>1, <1>2 DEF ViewInv, Faithful, Cursor
<1> QED
    BY <1>3, <1>4 DEF ViewInv, IInv

LEMMA NextView == ~Overlap /\ IInv /\ ViewInv /\ [Next]_vars => ViewInv'
<1> SUFFICES ASSUME ~Overlap, IInv, ViewInv, [Next]_vars PROVE ViewInv'
    OBVIOUS
<1>1. IInv'
    BY NextInv
<1>2. CASE Scheduler
    BY <1>1, <1>2, TimerFiresView, ResumeView, FlushHiddenView, FlushBuildView, FlushSvgView,
       FlushHookView, FlushFailsView DEF Scheduler
<1>3. CASE Redraw
    BY <1>1, <1>3, OpFlushedView, OpMutateView, OpCommitView, OpDrawView, OpRestoreView,
       ShowBuildView, ShowDrawView DEF Redraw
<1>4. CASE RunStart \/ RunMessage
    BY <1>1, <1>4, RunStartView, RunMessageView
<1>5. CASE RunReply \/ RunIdle
    BY <1>1, <1>5, FlushAfterView DEF RunReply, RunIdle
<1>6. CASE RunEnds \/ RunAborted
    <2>1. run.heard
        BY <1>6 DEF RunEnds, RunAborted, ViewInv, Typed
    <2>2. UNCHANGED <<sched, session, viewer, op, show, runs>> /\ run' = NoRun
        BY <1>6 DEF RunEnds, RunAborted, bounds
    <2> QED BY <1>1, <2>1, <2>2, RunOver
<1>7. CASE SocketClose \/ Dispose \/ OpBegin \/ Hide \/ Show
    BY <1>1, <1>7, SocketCloseView, DisposeView, OpBeginView, HideView, ShowView
<1>8. CASE UNCHANGED vars
    BY <1>1, <1>8, StillView
<1> QED
    BY <1>2, <1>3, <1>4, <1>5, <1>6, <1>7, <1>8 DEF Next

LEMMA QuietShows ==
    ASSUME ViewInv, Quiet, visible, ~failed
    PROVE  buf = PlanOf(nb, AllPngs(nb)).lines
<1>1. ~Drawing /\ Batch = {} /\ Dirty = {}
    BY NoneToSet DEF Quiet, Drawing, Batch, Dirty
<1>2. buf = plan.lines /\ Fits(plan, nb, cells, Dirty)
    BY <1>1 DEF ViewInv, Faithful, Quiet
<1>3. nb \in Seq(DOMAIN Contents) /\ CellsOk(cells)
    BY DEF ViewInv, Typed
<1>4. Fits(plan, nb, cells, {})
    BY <1>1, <1>2
<1>5. plan = buildRenderPlan(BookOf(nb, cells), PngsIn(BookOf(nb, cells)))
    BY <1>3, <1>4, FitsClean
<1> QED
    BY <1>2, <1>5, PlanOfIs

LEMMA RestoreKeeps ==
    ASSUME ViewInv
    PROVE  CursorKept
<1> SUFFICES ASSUME op.pc = "restore", op.prefer = NoCell, op.under \in ToSet(nb)
             PROVE  buf[RestoredLine(op.old, op.before, op.plan.ranges, op.prefer)].cell
                        = op.under
    BY DEF CursorKept
<1>1. /\ op.plan = plan /\ buf = plan.lines /\ Fits(plan, nb, cells, {})
      /\ op.under = NoCell \/ op.old = op.under
      /\ nb \in Seq(DOMAIN Contents)
    BY DEF ViewInv, Cursor, Typed
<1>2. PICK k \in 1 .. Len(nb) : nb[k] = op.under
    BY <1>1 DEF ToSet
<1>3. op.old = op.under
    BY <1>1, <1>2, DisplayAssumption
<1>4. /\ IsSeq(plan.ranges) /\ Len(plan.ranges) = Len(nb)
      /\ \A j \in 1 .. Len(nb) : plan.ranges[j].cell = nb[j]
    BY <1>1, FitsShape
<1>5. PICK i : i = RangeOf(plan.ranges, op.old)
    OBVIOUS
<1>6. i \in 1 .. Len(plan.ranges) /\ plan.ranges[i].cell = op.old /\ i # 0
    <2>1. i # 0
        BY <1>2, <1>3, <1>4, <1>5, RangeIs
    <2> QED BY <1>4, <1>5, <2>1, RangeIs
<1>7. PICK r : r = plan.ranges[i]
    OBVIOUS
<1>8. Spans(r, plan.lines)
    <2>1. PICK book, pngs : Book(book) /\ Pictures(pngs) /\ plan = buildRenderPlan(book, pngs)
        BY <1>1 DEF Fits, Depicts
    <2> QED BY <1>6, <1>7, <2>1, RangesShow
<1>9. plan.lines[r.start + 1].cell = op.old
    <2>1. r.start + 1 \in r.start + 1 .. r.end + 1
        BY <1>8 DEF Spans
    <2> QED BY <1>6, <1>7, <1>8, <2>1 DEF Spans
<1>10. RestoredLine(op.old, op.before, op.plan.ranges, op.prefer) = r.start + 1
    BY <1>1, <1>5, <1>6, <1>7 DEF RestoredLine
<1> QED
    BY <1>1, <1>3, <1>9, <1>10

(* When runs, messages and redraws do not overlap, the lines in the buffer  *)
(* are those of the cached plan unless they are being replaced, and when    *)
(* nothing is going on a visible buffer shows the notebook as it is, however*)
(* many batches were drawn from the topmost changed cell only, dropped while*)
(* the buffer was hidden, or overtaken by messages while SVGs were converted*)
(* (render/iopub-batch.ts, render/partial-render.ts, dispatcher/view.ts,    *)
(* dispatcher/cell/_operator.ts).                                           *)
THEOREM BufferShowsTheNotebook ==
    ASSUME ~Overlap
    PROVE  Spec => []Shown
<1>1. ViewInv => Shown
    BY QuietShows DEF Shown, ViewInv, Faithful
<1>2. ~Overlap
    OBVIOUS
<1>3. ViewInv /\ IInv /\ [Next]_vars => ViewInv' /\ IInv'
    BY <1>2, NextView, NextInv
<1> QED
    BY <1>1, <1>3, InitView, InitInv, PTL DEF Spec

(* When runs, messages and redraws do not overlap, an operation on other    *)
(* cells puts the cursor in the cell it was in, wherever the operation moved*)
(* it (captureCursorState and restoreCursor, dispatcher/cell/_operator.ts). *)
THEOREM CursorStaysInItsCell ==
    ASSUME ~Overlap
    PROVE  Spec => []CursorKept
<1>1. ViewInv => CursorKept
    BY RestoreKeeps
<1>2. ~Overlap
    OBVIOUS
<1>3. ViewInv /\ IInv /\ [Next]_vars => ViewInv' /\ IInv'
    BY <1>2, NextView, NextInv
<1> QED
    BY <1>1, <1>3, InitView, InitInv, PTL DEF Spec

-----------------------------------------------------------------------------
(* What can be followed.  The picture of an output shows one of its values, *)
(* and the line of a mark says where the mark leads.                       *)

Pictured == Images \cup {"image/svg+xml"}

Depicted(o, rows) ==
    o.kind = "data" /\ \E m \in DOMAIN o.bundle \cap Pictured : o.bundle[m] = rows

Means(jump, what) ==
    /\ jump.kind = "cell" =>
          what = <<jump.count, jump.line>> /\ jump.count \in Nat /\ jump.line \in Nat
    /\ jump.kind = "image" => what = <<jump.rows>>

PlacedAt(jump, book, i, j) ==
    /\ jump.place = <<i, j>> /\ book[i].type = "code"
    /\ j \in DOMAIN mergeStreams(book[i].outputs)
    /\ Depicted(mergeStreams(book[i].outputs)[j], jump.rows)

Placed(jump, book) ==
    jump.kind = "image" => \E i \in 1 .. Len(book) : \E j : PlacedAt(jump, book, i, j)

Mark(c, w, n, book) ==
    /\ c = [line |-> c.line, jump |-> c.jump] /\ c.line \in 0 .. n - 1
    /\ Means(c.jump, w[c.line + 1]) /\ Placed(c.jump, book)

Marked(clicks, w, n, book) == \A c \in clicks : Mark(c, w, n, book)

LEMMA MarkMoves ==
    ASSUME NEW m \in Nat, NEW n \in Nat, NEW w, NEW u, \A k \in 1 .. n : u[m + k] = w[k],
           NEW book, NEW c, Mark(c, w, n, book), NEW d, d = [c EXCEPT !.line = @ + m]
    PROVE  Mark(d, u, m + n, book)
<1>1. PICK l, j : c = [line |-> l, jump |-> j] /\ c.line = l /\ c.jump = j
    BY DEF Mark
<1>2. d = [line |-> l + m, jump |-> j]
    BY <1>1
<1>3. d = [line |-> d.line, jump |-> d.jump] /\ d.line = l + m /\ d.jump = j
    BY ONLY <1>2
<1>4. l \in 0 .. n - 1 /\ Means(j, w[l + 1]) /\ Placed(j, book)
    BY <1>1 DEF Mark
<1>5. l + m \in 0 .. m + n - 1 /\ l + 1 \in 1 .. n /\ l + m + 1 = m + (l + 1)
    BY ONLY <1>4, m \in Nat, n \in Nat
<1>6. u[l + m + 1] = w[l + 1]
    BY <1>5
<1>7. Means(d.jump, u[d.line + 1])
    BY ONLY <1>3, <1>4, <1>6
<1> QED
    BY ONLY <1>3, <1>4, <1>5, <1>7 DEF Mark

LEMMA MarkStays ==
    ASSUME NEW n \in Nat, NEW e \in Nat, n <= e, NEW w, NEW u, \A k \in 1 .. n : u[k] = w[k],
           NEW book, NEW c, Mark(c, w, n, book)
    PROVE  Mark(c, u, e, book)
<1>1. c.line \in 0 .. n - 1 /\ Means(c.jump, w[c.line + 1])
    BY DEF Mark
<1>2. c.line + 1 \in 1 .. n /\ c.line \in 0 .. e - 1
    BY ONLY <1>1, n \in Nat, e \in Nat, n <= e
<1>3. u[c.line + 1] = w[c.line + 1]
    BY <1>2
<1> QED
    BY <1>1, <1>2, <1>3 DEF Mark

LEMMA JoinMarked ==
    ASSUME NEW m \in Nat, NEW n \in Nat, NEW v, NEW w, NEW u,
           \A k \in 1 .. m : u[k] = v[k], \A k \in 1 .. n : u[m + k] = w[k],
           NEW book, NEW a, Marked(a, v, m, book), NEW b, Marked(b, w, n, book)
    PROVE  Marked(a \cup Shift(b, m), u, m + n, book)
<1> SUFFICES ASSUME NEW d \in a \cup Shift(b, m) PROVE Mark(d, u, m + n, book)
    BY DEF Marked
<1>1. m + n \in Nat /\ m <= m + n
    OBVIOUS
<1>2. CASE d \in a
    <2>1. Mark(d, v, m, book)
        BY <1>2 DEF Marked
    <2> QED BY <1>1, <2>1, MarkStays
<1>3. CASE d \in Shift(b, m)
    <2>1. PICK c \in b : d = [c EXCEPT !.line = @ + m]
        BY <1>3 DEF Shift
    <2>2. Mark(c, w, n, book)
        BY DEF Marked
    <2> QED BY <2>1, <2>2, MarkMoves
<1> QED
    BY <1>2, <1>3

(* A fragment whose marks are right.                                       *)
Followed(r, book) == Lined(r) /\ Marked(r.clicks, r.lines, Len(r.lines), book)

LEMMA NothingMarked ==
    ASSUME NEW w, NEW n, NEW book
    PROVE  Marked({}, w, n, book)
BY DEF Marked

LEMMA JoinFollowed ==
    ASSUME NEW book, NEW a, Followed(a, book), NEW b, Followed(b, book)
    PROVE  Followed(Join(a, b), book)
<1>1. PICK s, t, u, m, n : /\ s = a.lines /\ t = b.lines /\ u = s \o t
                           /\ m = Len(s) /\ n = Len(t)
    OBVIOUS
<1>2. IsSeq(s) /\ IsSeq(t) /\ m \in Nat /\ n \in Nat
    BY <1>1, SeqIs DEF Followed, Lined
<1>3. /\ Len(u) = m + n
      /\ \A i \in 1 .. m : u[i] = s[i]
      /\ \A i \in 1 .. n : u[m + i] = t[i]
    <2>1. /\ Len(s \o t) = Len(s) + Len(t)
          /\ \A i \in 1 .. Len(s) : (s \o t)[i] = s[i]
          /\ \A i \in 1 .. Len(t) : (s \o t)[Len(s) + i] = t[i]
        BY ONLY <1>2, Joined
    <2> QED BY ONLY <1>1, <2>1
<1>4. Lined(Join(a, b)) /\ Join(a, b).lines = u
    BY <1>1, JoinIs DEF Followed
<1>5. Join(a, b).clicks = a.clicks \cup Shift(b.clicks, m)
    BY <1>1 DEF Join, Fragment
<1>6. Marked(a.clicks, s, m, book) /\ Marked(b.clicks, t, n, book)
    BY <1>1 DEF Followed
<1>7. Marked(a.clicks \cup Shift(b.clicks, m), u, m + n, book)
    BY ONLY <1>2, <1>3, <1>6, JoinMarked
<1> QED
    BY <1>3, <1>4, <1>5, <1>7 DEF Followed

LEMMA ErrorFollowed ==
    ASSUME NEW frames, IsSeq(frames), \A i \in DOMAIN frames : IsFrame(frames[i]), NEW book
    PROVE  Followed(renderError(frames), book)
<1>1. PICK s : s = [k \in DOMAIN frames |-> <<frames[k].count, frames[k].line>>]
    OBVIOUS
<1>2. PICK n \in Nat : n = Len(frames)
    BY SeqIs
<1>3. DOMAIN frames = 1 .. n /\ s = [k \in 1 .. n |-> s[k]]
      /\ \A k \in 1 .. n : s[k] = <<frames[k].count, frames[k].line>>
    BY <1>1, <1>2, SeqIs
<1>4. IsSeq(s) /\ Len(s) = n
    BY <1>3, MadeSeq
<1>5. PICK h, u : h = <<<<0>>>> /\ u = h \o s
    OBVIOUS
<1>6. IsSeq(h) /\ Len(h) = 1
    BY <1>5, OneIsSeq
<1>7. Len(u) = 1 + n /\ \A k \in 1 .. n : u[1 + k] = s[k]
    <2>1. /\ IsSeq(h \o s) /\ Len(h \o s) = Len(h) + Len(s)
          /\ \A k \in 1 .. Len(h) : (h \o s)[k] = h[k]
          /\ \A k \in 1 .. Len(s) : (h \o s)[Len(h) + k] = s[k]
        <3>1. IsSeq(h) /\ IsSeq(s)
            BY <1>4, <1>6
        <3> QED BY ONLY <3>1, Joined
    <2> QED BY ONLY <1>4, <1>5, <1>6, <2>1
<1>8. PICK clicks : clicks = {[line |-> k, jump |-> frames[k]] :
                                 k \in {i \in DOMAIN frames : frames[i].kind # "none"}}
    OBVIOUS
<1>9. Lined(renderError(frames))
    BY ErrorLines
<1>10. renderError(frames) = Fragment(u, clicks)
    BY <1>1, <1>5, <1>8 DEF renderError
<1>11. renderError(frames).lines = u /\ renderError(frames).clicks = clicks
    BY ONLY <1>10 DEF Fragment
<1>12. ASSUME NEW c \in clicks PROVE Mark(c, u, 1 + n, book)
    <2>1. PICK k \in 1 .. n : c = [line |-> k, jump |-> frames[k]]
        BY <1>3, <1>8
    <2>2. c = [line |-> c.line, jump |-> c.jump] /\ c.line = k /\ c.jump = frames[k]
        BY ONLY <2>1
    <2>3. u[k + 1] = <<frames[k].count, frames[k].line>> /\ k \in 0 .. 1 + n - 1
        BY <1>3, <1>7
    <2>4. IsFrame(frames[k])
        BY <1>3
    <2>5. Means(frames[k], u[k + 1]) /\ Placed(frames[k], book)
        BY ONLY <2>3, <2>4 DEF IsFrame, Means, Placed
    <2> QED BY ONLY <2>2, <2>3, <2>5 DEF Mark
<1> QED
    BY <1>7, <1>9, <1>11, <1>12 DEF Followed, Marked

LEMMA ImageFollowed ==
    ASSUME NEW rows \in Nat, NEW book, NEW i \in 1 .. Len(book), NEW j,
           book[i].type = "code", j \in DOMAIN mergeStreams(book[i].outputs),
           Depicted(mergeStreams(book[i].outputs)[j], rows)
    PROVE  Followed(renderImage(rows, <<i, j>>), book)
<1>1. PICK n, s : n = (IF Sixel THEN rows ELSE 0) /\ s = [k \in 1 .. n |-> <<k, rows>>]
    OBVIOUS
<1>2. n \in Nat /\ s = [k \in 1 .. n |-> s[k]]
    BY <1>1
<1>3. IsSeq(s) /\ Len(s) = n
    BY <1>2, MadeSeq
<1>4. PICK h, u : h = <<<<rows>>>> /\ u = h \o s
    OBVIOUS
<1>5. IsSeq(h) /\ Len(h) = 1 /\ h[1] = <<rows>>
    BY <1>4, OneIsSeq
<1>6. Len(u) = 1 + n /\ u[1] = <<rows>>
    <2>1. /\ Len(h \o s) = Len(h) + Len(s)
          /\ \A k \in 1 .. Len(h) : (h \o s)[k] = h[k]
        BY ONLY <1>3, <1>5, Joined
    <2> QED BY ONLY <1>3, <1>4, <1>5, <2>1
<1>7. PICK jump, c : /\ jump = [kind |-> "image", place |-> <<i, j>>, rows |-> rows]
                     /\ c = [line |-> 0, jump |-> jump]
    OBVIOUS
<1>8. renderImage(rows, <<i, j>>) = Fragment(u, {c})
    BY <1>1, <1>4, <1>7 DEF renderImage
<1>9. renderImage(rows, <<i, j>>).lines = u /\ renderImage(rows, <<i, j>>).clicks = {c}
    BY ONLY <1>8 DEF Fragment
<1>10. jump.kind = "image" /\ jump.place = <<i, j>> /\ jump.rows = rows
    BY ONLY <1>7
<1>11. c = [line |-> c.line, jump |-> c.jump] /\ c.line = 0 /\ c.jump = jump
    BY ONLY <1>7
<1>12. Means(jump, u[0 + 1])
    BY ONLY <1>6, <1>10 DEF Means
<1>13. PlacedAt(jump, book, i, j)
    BY <1>10 DEF PlacedAt
<1>14. Mark(c, u, 1 + n, book)
    <2>1. Placed(jump, book)
        BY <1>13 DEF Placed
    <2>2. 0 \in 0 .. 1 + n - 1
        BY <1>2
    <2>3. Means(c.jump, u[c.line + 1]) /\ Placed(c.jump, book)
        BY <1>11, <1>12, <2>1
    <2>4. PICK e : e = 1 + n
        OBVIOUS
    <2>5. c = [line |-> c.line, jump |-> c.jump] /\ c.line \in 0 .. e - 1
        <3>1. 0 \in 0 .. e - 1
            BY <1>2, <2>4
        <3> QED BY ONLY <1>11, <3>1
    <2>6. Mark(c, u, e, book)
        BY ONLY <2>3, <2>5 DEF Mark
    <2> QED BY ONLY <2>4, <2>6
<1>15. Lined(renderImage(rows, <<i, j>>))
    BY ImageLines
<1> QED
    BY <1>6, <1>9, <1>14, <1>15 DEF Followed, Marked

LEMMA UnmarkedFollowed ==
    ASSUME NEW r, Lined(r), r.clicks = {}, NEW book
    PROVE  Followed(r, book)
BY NothingMarked DEF Followed

(* The picture that output `j` of cell `i` has been given is its own.       *)
LEMMA OutputFollowed ==
    ASSUME NEW book, NEW i \in 1 .. Len(book), book[i].type = "code",
           NEW merged, merged = mergeStreams(book[i].outputs),
           NEW j, j \in DOMAIN merged, NEW o, o = merged[j], IsOutput(o), NEW png \in Nat,
           o.kind = "data" /\ Chosen(o.bundle) = "image/svg+xml" =>
               png = o.bundle["image/svg+xml"]
    PROVE  Followed(dispatchOutput(o, png, <<i, j>>), book)
<1>1. Lined(dispatchOutput(o, png, <<i, j>>))
    BY OutputLines
<1>2. CASE o.kind = "stream"
    <2>1. dispatchOutput(o, png, <<i, j>>) = renderStream(o.text)
        BY <1>2 DEF dispatchOutput
    <2>2. renderStream(o.text).clicks = {}
        BY DEF renderStream, Fragment
    <2> QED BY <1>1, <2>1, <2>2, UnmarkedFollowed
<1>3. CASE o.kind = "error"
    <2>1. dispatchOutput(o, png, <<i, j>>) = renderError(o.frames)
        BY <1>3 DEF dispatchOutput
    <2>2. IsSeq(o.frames) /\ \A k \in DOMAIN o.frames : IsFrame(o.frames[k])
        BY <1>3, SequenceIs DEF IsOutput
    <2> QED BY <2>1, <2>2, ErrorFollowed
<1>4. CASE o.kind = "data"
    <2>1. dispatchOutput(o, png, <<i, j>>) = renderMimeData(o.bundle, png, <<i, j>>)
        BY <1>4 DEF dispatchOutput
    <2>2. PICK mime : mime = Chosen(o.bundle)
        OBVIOUS
    <2>3. mime # "" => mime \in DOMAIN o.bundle /\ o.bundle[mime] \in Nat
        BY <1>4, <2>2, ChosenIs DEF IsOutput
    <2>4. CASE mime \in Images
        <3>1. renderMimeData(o.bundle, png, <<i, j>>) = renderImage(o.bundle[mime], <<i, j>>)
            BY <2>2, <2>4 DEF renderMimeData, Images
        <3>2. mime \in DOMAIN o.bundle \cap Pictured /\ o.bundle[mime] \in Nat
            BY <2>3, <2>4 DEF Images, Pictured
        <3>3. Depicted(o, o.bundle[mime])
            BY <1>4, <3>2 DEF Depicted
        <3> QED BY <2>1, <3>1, <3>2, <3>3, ImageFollowed
    <2>5. CASE mime = "image/svg+xml" /\ png # 0
        <3>1. renderMimeData(o.bundle, png, <<i, j>>) = renderImage(png, <<i, j>>)
            BY <2>2, <2>5 DEF renderMimeData, Images
        <3>2. mime \in DOMAIN o.bundle \cap Pictured /\ o.bundle[mime] = png
            BY <1>4, <2>2, <2>3, <2>5 DEF Pictured
        <3>3. Depicted(o, png)
            BY <1>4, <3>2 DEF Depicted
        <3> QED BY <2>1, <3>1, <3>3, ImageFollowed
    <2>6. CASE mime \notin Images /\ ~(mime = "image/svg+xml" /\ png # 0)
        <3>1. PICK n : renderMimeData(o.bundle, png, <<i, j>>) = renderText(n)
            BY <2>2, <2>6 DEF renderMimeData
        <3>2. renderText(n).clicks = {}
            BY DEF renderText, Fragment
        <3> QED BY <1>1, <2>1, <3>1, <3>2, UnmarkedFollowed
    <2> QED BY <2>4, <2>5, <2>6
<1> QED
    BY <1>2, <1>3, <1>4 DEF IsOutput

LEMMA OutputsFollowed ==
    ASSUME NEW book, NEW i \in 1 .. Len(book), IsCell(book[i]), book[i].type = "code",
           NEW pngs, Pictures(pngs), \A j : PngAt(pngs, <<i, j>>) = PngIn(book[i], j)
    PROVE  Followed(appendCellOutputs(book[i].outputs, i, pngs), book)
<1>1. PICK merged, png : /\ merged = mergeStreams(book[i].outputs)
                         /\ png = PngsOf(pngs, i, merged)
    OBVIOUS
<1>2. Outs(book[i].outputs)
    BY SequenceIs, SeqIs DEF IsCell, Outs
<1>3. Outs(merged) /\ IsSeq(merged) /\ Len(merged) \in Nat /\ DOMAIN merged = 1 .. Len(merged)
    BY <1>1, <1>2, MergedTyped, SeqIs DEF Outs
<1>4. PICK f : /\ f = [n \in 0 .. Len(merged) |-> Adding(f, merged, png, i, n)]
               /\ appendCellOutputs(book[i].outputs, i, pngs) = Truncated(f[Len(merged)])
    BY <1>1, <1>3, OutputsAre
<1>5. ASSUME NEW n \in 1 .. Len(merged)
      PROVE  /\ png[n] \in Nat
             /\ merged[n].kind = "data" /\ Chosen(merged[n].bundle) = "image/svg+xml" =>
                   png[n] = merged[n].bundle["image/svg+xml"]
    <2>1. png[n] = PngAt(pngs, <<i, n>>)
        BY <1>1, <1>3 DEF PngsOf
    <2>2. png[n] \in Nat
        BY <2>1 DEF PngAt, Pictures
    <2>3. ASSUME merged[n].kind = "data", Chosen(merged[n].bundle) = "image/svg+xml"
          PROVE  png[n] = merged[n].bundle["image/svg+xml"]
        <3>1. n \in SvgsOf(merged)
            BY <1>3, <2>3 DEF SvgsOf
        <3> QED BY <1>1, <2>1, <3>1 DEF PngIn
    <2> QED BY <2>2, <2>3
<1> DEFINE S == {n \in 0 .. Len(merged) : Followed(f[n], book)}
<1>6. 0 \in S
    <2>1. 0 \in 0 .. Len(merged)
        BY <1>3
    <2>2. f[0] = Adding(f, merged, png, i, 0)
        BY <1>4, <2>1
    <2>3. f[0] = NoLines
        BY <2>2 DEF Adding
    <2>4. Lined(NoLines) /\ NoLines.clicks = {}
        BY NoLinesIs DEF NoLines, Fragment
    <2> QED BY <2>1, <2>3, <2>4, UnmarkedFollowed
<1>7. ASSUME NEW n \in 0 .. Len(merged) - 1, n \in S PROVE n + 1 \in S
    <2>1. PICK m : m = n + 1
        OBVIOUS
    <2>2. m \in 0 .. Len(merged) /\ m # 0 /\ m - 1 = n /\ m \in 1 .. Len(merged)
        BY <1>3, <2>1
    <2>3. f[m] = Adding(f, merged, png, i, m)
        BY <1>4, <2>2
    <2>4. PICK a, b, o : /\ a = f[n] /\ o = merged[m]
                         /\ b = dispatchOutput(o, png[m], <<i, m>>)
        OBVIOUS
    <2>5. f[m] = Join(a, b)
        BY <2>2, <2>3, <2>4 DEF Adding
    <2>6. IsOutput(o) /\ m \in DOMAIN merged
        BY <1>3, <2>2, <2>4 DEF Outs
    <2>7. png[m] \in Nat /\ (o.kind = "data" /\ Chosen(o.bundle) = "image/svg+xml" =>
             png[m] = o.bundle["image/svg+xml"])
        BY <1>5, <2>2, <2>4
    <2>8. PICK q : q = png[m]
        OBVIOUS
    <2>9. q \in Nat /\ (o.kind = "data" /\ Chosen(o.bundle) = "image/svg+xml" =>
             q = o.bundle["image/svg+xml"]) /\ b = dispatchOutput(o, q, <<i, m>>)
        BY <2>4, <2>7, <2>8
    <2>10. Followed(b, book)
        BY ONLY <1>1, <2>4, <2>6, <2>9, i \in 1 .. Len(book), book[i].type = "code",
           OutputFollowed
    <2>11. Followed(a, book)
        BY <1>7, <2>4
    <2>12. Followed(f[m], book)
        BY ONLY <2>5, <2>10, <2>11, JoinFollowed
    <2> QED BY <2>1, <2>2, <2>12
<1>8. 0 .. Len(merged) \subseteq S
    <2> HIDE DEF S
    <2> QED BY <1>3, <1>6, <1>7, Induction
<1>9. PICK all : all = f[Len(merged)] /\ Followed(all, book)
    BY <1>3, <1>8
<1>10. CASE Len(all.lines) <= MaxOutputLines
    BY <1>4, <1>9, <1>10 DEF Truncated
<1>11. CASE ~(Len(all.lines) <= MaxOutputLines)
    <2>1. PICK b, n, s : b = MaxOutputLines - 1 /\ n = Len(all.lines) /\ s = all.lines
        OBVIOUS
    <2>2. n \in Nat /\ IsSeq(s) /\ b \in Nat /\ b < n
        BY <1>9, <1>11, <2>1, SeqIs, RenderAssumption DEF Followed, Lined
    <2>3. PICK h, t, u : h = SubSeq(s, 1, b) /\ t = <<<<n - b>>>> /\ u = h \o t
        OBVIOUS
    <2>4. IsSeq(h) /\ Len(h) = b /\ \A k \in 1 .. b : h[k] = s[k]
        <3>1. 1 \in 1 .. Len(s) + 1 /\ b \in 1 - 1 .. Len(s) /\ b - 1 + 1 = b
            BY <2>1, <2>2
        <3>2. /\ IsSeq(h) /\ Len(h) = b - 1 + 1
              /\ \A k \in 1 .. b - 1 + 1 : h[k] = s[1 + k - 1]
            BY ONLY <2>2, <2>3, <3>1, Cut
        <3>3. \A k \in 1 .. b : 1 + k - 1 = k
            BY ONLY <2>2
        <3> QED BY ONLY <3>1, <3>2, <3>3
    <2>5. IsSeq(t) /\ Len(t) = 1
        BY <2>3, OneIsSeq
    <2>6. IsSeq(u) /\ Len(u) = b + 1 /\ \A k \in 1 .. b : u[k] = s[k]
        <3>1. IsSeq(h) /\ IsSeq(t)
            BY <2>4, <2>5
        <3>2. /\ IsSeq(h \o t) /\ Len(h \o t) = Len(h) + Len(t)
              /\ \A k \in 1 .. Len(h) : (h \o t)[k] = h[k]
              /\ \A k \in 1 .. Len(t) : (h \o t)[Len(h) + k] = t[k]
            BY ONLY <3>1, Joined
        <3> QED BY ONLY <2>3, <2>4, <2>5, <3>2
    <2>7. Truncated(all) = Fragment(u, Below(all.clicks, b))
        BY <1>11, <2>1, <2>3 DEF Truncated
    <2>8. Lined(Truncated(all)) /\ Truncated(all).lines = u
          /\ Truncated(all).clicks = Below(all.clicks, b)
        BY <2>6, <2>7, FragmentIs DEF Fragment
    <2>9. ASSUME NEW c \in Below(all.clicks, b) PROVE Mark(c, u, b + 1, book)
        <3>1. c \in all.clicks /\ c.line < b
            BY DEF Below
        <3>2. Mark(c, s, n, book)
            BY <1>9, <2>1, <3>1 DEF Followed, Marked
        <3>3. c.line \in 0 .. n - 1
            BY <3>2 DEF Mark
        <3>4. c.line \in 0 .. b - 1
            BY <2>2, <3>1, <3>3
        <3>5. Mark(c, s, b, book)
            BY <3>2, <3>4 DEF Mark
        <3>6. b <= b + 1 /\ b + 1 \in Nat
            BY <2>2
        <3> QED BY ONLY <2>2, <2>6, <3>5, <3>6, MarkStays
    <2>10. Followed(Truncated(all), book)
        BY <2>6, <2>8, <2>9 DEF Followed, Marked
    <2> QED BY <1>4, <1>9, <2>10
<1> QED
    BY <1>10, <1>11

-----------------------------------------------------------------------------
(* The same of cells, whose lines say what they are lines of.              *)

Whats(lines) == [k \in 1 .. Len(lines) |-> lines[k].what]

Leads(r, book) == Lined(r) /\ Marked(r.clicks, Whats(r.lines), Len(r.lines), book)

LEMMA JoinLeads ==
    ASSUME NEW book, NEW a, Leads(a, book), NEW b, Leads(b, book)
    PROVE  Leads(Join(a, b), book)
<1>1. PICK s, t, u, m, n : /\ s = a.lines /\ t = b.lines /\ u = s \o t
                           /\ m = Len(s) /\ n = Len(t)
    OBVIOUS
<1>2. IsSeq(s) /\ IsSeq(t) /\ m \in Nat /\ n \in Nat
    BY <1>1, SeqIs DEF Leads, Lined
<1>3. /\ Len(u) = m + n
      /\ \A i \in 1 .. m : u[i] = s[i]
      /\ \A i \in 1 .. n : u[m + i] = t[i]
    <2>1. /\ IsSeq(s \o t) /\ Len(s \o t) = Len(s) + Len(t)
          /\ \A i \in 1 .. Len(s) : (s \o t)[i] = s[i]
          /\ \A i \in 1 .. Len(t) : (s \o t)[Len(s) + i] = t[i]
        BY ONLY <1>2, Joined
    <2> QED BY ONLY <1>1, <2>1
<1>4. Lined(Join(a, b)) /\ Join(a, b).lines = u
    BY <1>1, JoinIs DEF Leads
<1>5. Join(a, b).clicks = a.clicks \cup Shift(b.clicks, m)
    BY <1>1 DEF Join, Fragment
<1>6. PICK v, w, x : v = Whats(s) /\ w = Whats(t) /\ x = Whats(u)
    OBVIOUS
<1>7. /\ \A k \in 1 .. m : v[k] = s[k].what
      /\ \A k \in 1 .. n : w[k] = t[k].what
      /\ \A k \in 1 .. m + n : x[k] = u[k].what
    BY <1>1, <1>3, <1>6 DEF Whats
<1>8. /\ \A k \in 1 .. m : x[k] = v[k]
      /\ \A k \in 1 .. n : x[m + k] = w[k]
    <2>1. \A k \in 1 .. m : k \in 1 .. m + n
        BY ONLY <1>2
    <2>2. \A k \in 1 .. n : m + k \in 1 .. m + n
        BY ONLY <1>2
    <2> QED BY ONLY <1>3, <1>7, <2>1, <2>2
<1>9. Marked(a.clicks, v, m, book) /\ Marked(b.clicks, w, n, book)
    BY <1>1, <1>6 DEF Leads
<1>10. Marked(a.clicks \cup Shift(b.clicks, m), x, m + n, book)
    BY ONLY <1>2, <1>8, <1>9, JoinMarked
<1> QED
    BY <1>3, <1>4, <1>5, <1>6, <1>10 DEF Leads

LEMMA LinesLead ==
    ASSUME NEW book, NEW r, Followed(r, book), NEW id, NEW part,
           NEW low, low = [r EXCEPT !.lines = Lines(id, part, @)]
    PROVE  Leads(low, book)
<1>1. PICK l, k : r = Fragment(l, k) /\ IsSeq(l) /\ l = r.lines /\ k = r.clicks
    BY DEF Followed, Lined
<1>2. PICK s, n : s = Lines(id, part, l) /\ n = Len(l)
    OBVIOUS
<1>3. low = Fragment(s, k)
    BY <1>1, <1>2 DEF Fragment
<1>4. n \in Nat /\ DOMAIN l = 1 .. n
    BY <1>1, <1>2, SeqIs
<1>5. s = [i \in 1 .. n |-> Line(id, part, i, l[i])]
    BY <1>2, <1>4 DEF Lines
<1>6. IsSeq(s) /\ Len(s) = n
    BY <1>1, <1>2, LinesAre DEF OfCell
<1>7. \A i \in 1 .. n : Whats(s)[i] = l[i]
    BY <1>5, <1>6 DEF Whats, Line
<1>8. Marked(k, l, n, book)
    BY <1>1, <1>2 DEF Followed
<1>9. Marked(k, Whats(s), n, book)
    <2> SUFFICES ASSUME NEW c \in k PROVE Mark(c, Whats(s), n, book)
        BY DEF Marked
    <2>1. Mark(c, l, n, book)
        BY <1>8 DEF Marked
    <2>2. n <= n
        BY <1>4
    <2> QED BY ONLY <1>4, <1>7, <2>1, <2>2, MarkStays
<1>10. Lined(low) /\ low.lines = s /\ low.clicks = k
    <2>1. Lined(Fragment(s, k))
        BY <1>6, FragmentIs
    <2>2. low.lines = s /\ low.clicks = k
        BY ONLY <1>3 DEF Fragment
    <2> QED BY <1>3, <2>1, <2>2
<1> QED
    BY <1>6, <1>9, <1>10 DEF Leads

LEMMA UnmarkedLeads ==
    ASSUME NEW l, IsSeq(l), NEW book
    PROVE  Leads(Fragment(l, {}), book)
<1>1. Fragment(l, {}).clicks = {}
    BY DEF Fragment
<1> QED
    BY <1>1, FragmentIs, NothingMarked DEF Leads

LEMMA BlockLeads ==
    ASSUME NEW book, NEW i \in 1 .. Len(book), IsCell(book[i]),
           NEW pngs, Pictures(pngs), \A j : PngAt(pngs, <<i, j>>) = PngIn(book[i], j),
           NEW b, b = CellBlock(book[i], i, pngs)
    PROVE  /\ Leads(b, book) /\ 1 + Len(book[i].source) <= Len(b.lines)
           /\ ~HasOutputs(book[i]) => Len(b.lines) = 1 + Len(book[i].source)
           /\ \A k \in 1 .. Len(book[i].source) :
                 b.lines[1 + k].part = "source" /\ b.lines[1 + k].at = k
<1>1. PICK c, n : c = book[i] /\ n = Len(c.source)
    OBVIOUS
<1>2. IsSeq(c.source) /\ n \in Nat /\ DOMAIN c.source = 1 .. n
    BY <1>1, SequenceIs, SeqIs DEF IsCell
<1>3. PICK whats : whats = [k \in DOMAIN c.source |-> <<c.source[k]>>]
    OBVIOUS
<1>4. whats = [k \in 1 .. n |-> whats[k]] /\ DOMAIN whats = 1 .. n
    BY <1>2, <1>3
<1>5. IsSeq(whats) /\ Len(whats) = n
    BY <1>2, <1>4, MadeSeq
<1>6. PICK source : source = Lines(c.id, "source", whats)
    OBVIOUS
<1>7. IsSeq(source) /\ Len(source) = n
    BY <1>5, <1>6, LinesAre DEF OfCell
<1>8. \A k \in 1 .. n : source[k].part = "source" /\ source[k].at = k
    BY <1>4, <1>6 DEF Lines, Line
<1>9. PICK head, h : /\ head = <<Line(c.id, "head", 1, <<c.count>>)>>
                     /\ h = head \o source
    OBVIOUS
<1>10. /\ IsSeq(h) /\ Len(h) = 1 + n
       /\ \A k \in 1 .. n : h[1 + k] = source[k]
    <2>1. IsSeq(head) /\ Len(head) = 1
        BY <1>9, OneIsSeq
    <2>2. IsSeq(head) /\ IsSeq(source)
        BY <1>7, <2>1
    <2>3. /\ IsSeq(head \o source) /\ Len(head \o source) = Len(head) + Len(source)
          /\ \A k \in 1 .. Len(head) : (head \o source)[k] = head[k]
          /\ \A k \in 1 .. Len(source) : (head \o source)[Len(head) + k] = source[k]
        BY ONLY <2>2, Joined
    <2> QED BY ONLY <1>7, <1>9, <2>1, <2>3
<1>11. PICK top, mid, out, low :
          /\ top = Fragment(h, {})
          /\ mid = Fragment(<<Line(c.id, "mid", 1, <<c.count>>)>>, {})
          /\ out = appendCellOutputs(c.outputs, i, pngs)
          /\ low = [out EXCEPT !.lines = Lines(c.id, "out", @)]
    OBVIOUS
<1>12. b = IF HasOutputs(c) THEN Join(Join(top, mid), low) ELSE top
    BY <1>1, <1>3, <1>6, <1>9, <1>11 DEF CellBlock
<1>13. Leads(top, book) /\ Leads(mid, book) /\ top.lines = h
    BY <1>10, <1>11, UnmarkedLeads, OneIsSeq DEF Fragment
<1>14. CASE ~HasOutputs(c)
    <2>1. b = top
        BY <1>12, <1>14
    <2>2. Leads(b, book) /\ b.lines = h
        BY <1>13, <2>1
    <2>3. /\ Len(b.lines) = 1 + n /\ 1 + n <= Len(b.lines)
          /\ \A k \in 1 .. n : b.lines[1 + k].part = "source" /\ b.lines[1 + k].at = k
        BY ONLY <1>2, <1>8, <1>10, <2>2
    <2> QED BY ONLY <1>1, <1>14, <2>2, <2>3
<1>15. CASE HasOutputs(c)
    <2>1. c.type = "code"
        BY <1>15 DEF HasOutputs
    <2>2. Followed(out, book)
        BY <1>1, <1>11, <2>1, OutputsFollowed
    <2>3. Leads(low, book)
        BY <1>11, <2>2, LinesLead
    <2>4. PICK tm : tm = Join(top, mid)
        OBVIOUS
    <2>5. Leads(tm, book) /\ b = Join(tm, low)
        BY <1>12, <1>13, <1>15, <2>4, JoinLeads
    <2>6. Leads(b, book)
        BY ONLY <2>3, <2>5, JoinLeads
    <2>7. tm.lines = h \o mid.lines /\ b.lines = tm.lines \o low.lines
        BY <1>13, <2>3, <2>4, <2>5, JoinIs DEF Leads
    <2>8. IsSeq(mid.lines) /\ IsSeq(tm.lines) /\ IsSeq(low.lines)
        BY <1>13, <2>3, <2>5 DEF Leads, Lined
    <2>9. Starts(h, tm.lines)
        BY <1>10, <2>7, <2>8, StartsItself, StartsLonger
    <2>10. Starts(h, b.lines)
        BY <2>7, <2>8, <2>9, StartsLonger
    <2>11. 1 + n <= Len(b.lines) /\ \A k \in 1 .. 1 + n : b.lines[k] = h[k]
        BY <1>10, <2>10 DEF Starts
    <2>12. \A k \in 1 .. n : b.lines[1 + k] = source[k]
        <3>1. \A k \in 1 .. n : 1 + k \in 1 .. 1 + n
            BY <1>2
        <3> QED BY ONLY <1>10, <2>11, <3>1
    <2> QED BY <1>1, <1>8, <1>15, <2>6, <2>11, <2>12
<1> QED
    BY <1>14, <1>15

-----------------------------------------------------------------------------
(* The source ranges of a plan: the lines that follow the start of one are  *)
(* the source lines of its cell, in order.                                 *)

Source(r, lines) ==
    /\ r.start \in Nat /\ r.end \in Nat
    /\ \A k \in 1 .. r.end - r.start :
          /\ r.start + k \in 1 .. Len(lines)
          /\ lines[r.start + k].part = "source" /\ lines[r.start + k].at = k
          /\ lines[r.start + k].cell = r.cell

Sourced(sources, lines) ==
    IsSeq(sources) /\ \A x \in 1 .. Len(sources) : Source(sources[x], lines)

LEMMA SourceStays ==
    ASSUME NEW s, NEW t, Starts(s, t), NEW r, Source(r, s)
    PROVE  Source(r, t)
<1>1. Len(s) \in Nat /\ Len(t) \in Nat /\ Len(s) <= Len(t) /\ \A i \in 1 .. Len(s) : t[i] = s[i]
    BY SeqIs DEF Starts
<1>2. ASSUME NEW k \in 1 .. r.end - r.start
      PROVE  /\ r.start + k \in 1 .. Len(t)
             /\ t[r.start + k].part = "source" /\ t[r.start + k].at = k
             /\ t[r.start + k].cell = r.cell
    <2>1. PICK i : i = r.start + k
        OBVIOUS
    <2>2. /\ i \in 1 .. Len(s)
          /\ s[i].part = "source" /\ s[i].at = k /\ s[i].cell = r.cell
        BY <2>1 DEF Source
    <2>3. t[i] = s[i] /\ i \in 1 .. Len(t)
        BY <1>1, <2>2
    <2> QED BY <2>1, <2>2, <2>3
<1> QED
    BY <1>2 DEF Source

LEMMA SourcedJoin ==
    ASSUME NEW lines, NEW a, Sourced(a, lines), NEW b, Sourced(b, lines)
    PROVE  Sourced(a \o b, lines)
<1>1. PICK u, m, n : u = a \o b /\ m = Len(a) /\ n = Len(b)
    OBVIOUS
<1>2. IsSeq(a) /\ IsSeq(b) /\ m \in Nat /\ n \in Nat
    BY <1>1, SeqIs DEF Sourced
<1>3. /\ IsSeq(u) /\ Len(u) = m + n
      /\ \A i \in 1 .. m : u[i] = a[i]
      /\ \A i \in 1 .. n : u[m + i] = b[i]
    <2>1. /\ IsSeq(a \o b) /\ Len(a \o b) = Len(a) + Len(b)
          /\ \A i \in 1 .. Len(a) : (a \o b)[i] = a[i]
          /\ \A i \in 1 .. Len(b) : (a \o b)[Len(a) + i] = b[i]
        BY ONLY <1>2, Joined
    <2> QED BY ONLY <1>1, <2>1
<1>4. ASSUME NEW x \in 1 .. m + n PROVE Source(u[x], lines)
    <2>1. CASE x \in 1 .. m
        BY <1>1, <1>3, <2>1 DEF Sourced
    <2>2. CASE x \notin 1 .. m
        <3>1. PICK i : i = x - m
            OBVIOUS
        <3>2. i \in 1 .. n /\ m + i = x
            BY <1>2, <2>2, <3>1
        <3> QED BY <1>1, <1>3, <3>2 DEF Sourced
    <2> QED BY <2>1, <2>2
<1> QED
    BY <1>1, <1>3, <1>4 DEF Sourced

LEMMA RangeSourced ==
    ASSUME NEW c, IsCell(c), NEW b, OfCell(b.lines, c.id),
           1 + Len(c.source) <= Len(b.lines),
           ~HasOutputs(c) => Len(b.lines) = 1 + Len(c.source),
           \A k \in 1 .. Len(c.source) :
               b.lines[1 + k].part = "source" /\ b.lines[1 + k].at = k,
           NEW d \in Nat, NEW u, IsSeq(u), Len(u) = d + Len(b.lines),
           \A i \in 1 .. Len(b.lines) : u[d + i] = b.lines[i]
    PROVE  Sourced(SourceRange(c, b, d), u)
<1>1. PICK n, e, t : n = Len(c.source) /\ t = b.lines /\ e = Len(t)
    OBVIOUS
<1>2. n \in Nat /\ e \in Nat /\ 1 + n <= e /\ (~HasOutputs(c) => e = 1 + n)
    BY <1>1, SequenceIs, SeqIs DEF IsCell, OfCell
<1>3. PICK r : r = [cell |-> c.id, start |-> d + 1, end |-> d + 1 + n]
    OBVIOUS
<1>4. SourceRange(c, b, d) = <<>> \/ SourceRange(c, b, d) = <<r>>
    <2>1. (IF HasOutputs(c) THEN d + 1 + Len(c.source) ELSE d + Len(b.lines)) = d + 1 + n
        <3>1. d + 1 + Len(c.source) = d + 1 + n
            BY <1>1
        <3>2. ~HasOutputs(c) => d + Len(b.lines) = d + 1 + n
            <4>1. e = Len(b.lines)
                BY <1>1
            <4>2. d + (1 + n) = d + 1 + n
                BY ONLY <1>2, d \in Nat
            <4> QED BY ONLY <1>2, <4>1, <4>2
        <3> QED BY ONLY <3>1, <3>2, Zenon
    <2> QED BY <1>3, <2>1 DEF SourceRange
<1>5. Source(r, u)
    <2>1. r.start = d + 1 /\ r.end = d + 1 + n /\ r.cell = c.id
        BY <1>3
    <2>2. r.start \in Nat /\ r.end \in Nat /\ r.end - r.start = n
        BY ONLY <1>2, <2>1, d \in Nat
    <2>3. ASSUME NEW k \in 1 .. n
          PROVE  /\ r.start + k \in 1 .. Len(u)
                 /\ u[r.start + k].part = "source" /\ u[r.start + k].at = k
                 /\ u[r.start + k].cell = r.cell
        <3>1. PICK i : i = 1 + k
            OBVIOUS
        <3>2. i \in 1 .. e /\ d + i = r.start + k /\ d + i \in 1 .. d + e
            BY <1>2, <2>1, <3>1
        <3>3. u[d + i] = t[i]
            BY <1>1, <3>2
        <3>4. t[i].part = "source" /\ t[i].at = k
            BY <1>1, <3>1
        <3>5. t[i].cell = c.id
            BY <1>1, <3>2 DEF OfCell
        <3>6. Len(u) = d + e
            BY <1>1
        <3> QED BY ONLY <2>1, <3>2, <3>3, <3>4, <3>5, <3>6
    <2> QED BY ONLY <2>2, <2>3 DEF Source
<1>6. Sourced(<<>>, u)
    BY NoneIsSeq DEF Sourced
<1>7. Sourced(<<r>>, u)
    <2>1. IsSeq(<<r>>) /\ Len(<<r>>) = 1 /\ <<r>>[1] = r
        BY OneIsSeq
    <2>2. ASSUME NEW x \in 1 .. Len(<<r>>) PROVE Source(<<r>>[x], u)
        <3>1. x = 1
            BY <2>1
        <3> QED BY <1>5, <2>1, <3>1
    <2> QED BY <2>1, <2>2 DEF Sourced
<1> QED
    BY <1>4, <1>6, <1>7

Found(p, book) == Leads(p.text, book) /\ Sourced(p.sources, p.text.lines)

LEMMA BlankFound ==
    ASSUME NEW book
    PROVE  Found(Blank, book)
<1>1. Blank.text = Fragment(<<>>, {}) /\ Blank.sources = <<>>
    BY DEF Blank, NoLines
<1>2. Leads(Blank.text, book)
    BY <1>1, NoneIsSeq, UnmarkedLeads
<1>3. Sourced(Blank.sources, Blank.text.lines)
    BY <1>1, NoneIsSeq DEF Sourced
<1> QED
    BY <1>2, <1>3 DEF Found

LEMMA NextFound ==
    ASSUME NEW book, NEW i \in 1 .. Len(book), IsCell(book[i]),
           NEW pngs, Pictures(pngs), \A j : PngAt(pngs, <<i, j>>) = PngIn(book[i], j),
           NEW p, Found(p, book), NEW q, q = AddCell(p, book[i], i, pngs)
    PROVE  Found(q, book)
<1>1. PICK c, b, d : /\ c = book[i] /\ b = CellBlock(c, i, pngs)
                     /\ d = Len(p.text.lines)
    OBVIOUS
<1>2. /\ Leads(b, book) /\ 1 + Len(c.source) <= Len(b.lines)
      /\ ~HasOutputs(c) => Len(b.lines) = 1 + Len(c.source)
      /\ \A k \in 1 .. Len(c.source) :
            b.lines[1 + k].part = "source" /\ b.lines[1 + k].at = k
    BY <1>1, BlockLeads
<1>3. OfCell(b.lines, c.id)
    BY <1>1, BlockIs
<1>4. q.text = Join(p.text, b) /\ q.sources = p.sources \o SourceRange(c, b, d)
    <2>1. q = AddBlock(p, c, b)
        BY <1>1 DEF AddCell
    <2>2. PICK a, x, y : /\ a = Join(p.text, b) /\ y = p.sources \o SourceRange(c, b, d)
                         /\ x = Append(p.ranges, [cell |-> c.id, start |-> d,
                                                  end |-> d + Len(b.lines) - 1])
        OBVIOUS
    <2>3. q = [text |-> a, ranges |-> x, sources |-> y]
        BY <1>1, <2>1, <2>2 DEF AddBlock
    <2> QED BY ONLY <2>2, <2>3
<1>5. Leads(q.text, book)
    BY <1>2, <1>4, JoinLeads DEF Found
<1>6. PICK s, t, u : s = p.text.lines /\ t = b.lines /\ u = q.text.lines
    OBVIOUS
<1>7. IsSeq(s) /\ IsSeq(t) /\ IsSeq(u) /\ u = s \o t /\ d \in Nat /\ d = Len(s)
    <2>1. Lined(p.text) /\ Lined(b) /\ Lined(q.text)
        BY <1>2, <1>5 DEF Found, Leads
    <2>2. q.text.lines = p.text.lines \o b.lines
        BY <1>4, <2>1, JoinIs
    <2> QED BY <1>1, <1>6, <2>1, <2>2, SeqIs DEF Lined
<1>8. Len(u) = d + Len(t) /\ \A k \in 1 .. Len(t) : u[d + k] = t[k]
    <2>1. /\ IsSeq(s \o t) /\ Len(s \o t) = Len(s) + Len(t)
          /\ \A k \in 1 .. Len(s) : (s \o t)[k] = s[k]
          /\ \A k \in 1 .. Len(t) : (s \o t)[Len(s) + k] = t[k]
        BY ONLY <1>7, Joined
    <2> QED BY ONLY <1>7, <2>1
<1>9. Sourced(SourceRange(c, b, d), u)
    <2>1. /\ Len(u) = d + Len(b.lines) /\ \A k \in 1 .. Len(b.lines) : u[d + k] = b.lines[k]
          /\ IsSeq(u) /\ d \in Nat /\ IsCell(c)
        BY <1>1, <1>6, <1>7, <1>8
    <2> QED BY ONLY <1>2, <1>3, <2>1, RangeSourced
<1>10. Sourced(p.sources, u)
    <2>1. Starts(s, u)
        BY <1>7, StartsItself, StartsLonger
    <2>2. IsSeq(p.sources) /\ \A x \in 1 .. Len(p.sources) : Source(p.sources[x], s)
        BY <1>6 DEF Found, Sourced
    <2> QED BY <2>1, <2>2, SourceStays DEF Sourced
<1>11. Sourced(q.sources, q.text.lines)
    BY <1>4, <1>6, <1>9, <1>10, SourcedJoin
<1> QED
    BY <1>5, <1>11 DEF Found

LEMMA GuidanceFound ==
    ASSUME NEW book
    PROVE  Found(Guidance, book)
<1>1. PICK l : l = Lines(NoCell, "guide", [k \in 1 .. 8 |-> <<k>>])
    OBVIOUS
<1>2. Guidance = [text |-> Fragment(l, {}), ranges |-> <<>>, sources |-> <<>>]
    BY <1>1 DEF Guidance
<1>3. Guidance.text = Fragment(l, {}) /\ Guidance.sources = <<>>
    BY ONLY <1>2
<1>4. IsSeq(l)
    <2>1. PICK w : w = [k \in 1 .. 8 |-> <<k>>] /\ w = [k \in 1 .. 8 |-> w[k]]
        OBVIOUS
    <2>2. IsSeq(w)
        BY <2>1, MadeSeq
    <2> QED BY <1>1, <2>1, <2>2, LinesAre DEF OfCell
<1> QED
    BY <1>3, <1>4, UnmarkedLeads, NoneIsSeq DEF Found, Sourced

(* So it is with the plan of a notebook.                                   *)
LEMMA PlanFound ==
    ASSUME NEW book, Book(book),
           NEW p, p = buildRenderPlan(book, PngsIn(book))
    PROVE  /\ IsSeq(p.lines) /\ Marked(p.clicks, Whats(p.lines), Len(p.lines), book)
           /\ Sourced(p.sources, p.lines)
           /\ p.missing = Missing(book, p.clicks, p.sources)
<1>1. PICK pngs : pngs = PngsIn(book)
    OBVIOUS
<1>2. /\ IsSeq(book) /\ Len(book) \in Nat /\ Pictures(pngs)
      /\ \A i \in 1 .. Len(book) : IsCell(book[i])
      /\ \A i \in 1 .. Len(book) : \A j : PngAt(pngs, <<i, j>>) = PngIn(book[i], j)
    BY <1>1, SeqIs, AllPictures, PngTold DEF Book
<1>3. PICK f : /\ f = [n \in 0 .. Len(book) |-> Growing(f, book, pngs, n)]
               /\ p = PlanFrom(IF book = <<>> THEN Guidance ELSE f[Len(book)], book)
    BY <1>1, <1>2, PlanIs
<1>4. IsGrowth(f, book, pngs)
    BY <1>3 DEF IsGrowth
<1>5. /\ f[0] = Blank
      /\ \A n \in 0 .. Len(book) - 1 : f[n + 1] = AddCell(f[n], book[n + 1], n + 1, pngs)
    BY <1>2, <1>4, GrowthSteps
<1> DEFINE S == {n \in 0 .. Len(book) : Found(f[n], book)}
<1>6. 0 \in S
    BY <1>2, <1>5, BlankFound
<1>7. ASSUME NEW n \in 0 .. Len(book) - 1, n \in S PROVE n + 1 \in S
    <2>1. PICK m : m = n + 1
        OBVIOUS
    <2>2. m \in 0 .. Len(book) /\ m \in 1 .. Len(book)
        BY <1>2, <2>1
    <2>3. f[m] = AddCell(f[n], book[m], m, pngs) /\ Found(f[n], book)
        BY <1>5, <1>7, <2>1
    <2>4. IsCell(book[m]) /\ \A j : PngAt(pngs, <<m, j>>) = PngIn(book[m], j)
        BY <1>2, <2>2
    <2>5. Pictures(pngs)
        BY <1>2
    <2>6. Found(f[m], book)
        BY ONLY <2>2, <2>3, <2>4, <2>5, NextFound
    <2> QED BY <2>1, <2>2, <2>6
<1>8. 0 .. Len(book) \subseteq S
    <2> HIDE DEF S
    <2> QED BY <1>2, <1>6, <1>7, Induction
<1>9. PICK q : /\ q = (IF book = <<>> THEN Guidance ELSE f[Len(book)])
               /\ Found(q, book)
    BY <1>2, <1>8, GuidanceFound
<1>10. p = PlanFrom(q, book)
    BY <1>3, <1>9
<1>11. /\ p.lines = q.text.lines /\ p.clicks = q.text.clicks /\ p.sources = q.sources
       /\ p.missing = Missing(book, q.text.clicks, q.sources)
    BY ONLY <1>10 DEF PlanFrom
<1> QED
    BY <1>9, <1>11 DEF Found, Leads, Lined

-----------------------------------------------------------------------------
(* The values of a bundle are one picture, in several formats: the one that *)
(* is shown and the one that opens are chosen in different orders.         *)

SameRows(o) ==
    o.kind = "data" =>
        \A m, n \in DOMAIN o.bundle \cap Pictured : o.bundle[m] = o.bundle[n]

OnePicture ==
    /\ \A id \in DOMAIN Contents :
          \A i \in DOMAIN Contents[id].outputs : SameRows(Contents[id].outputs[i])
    /\ \A m \in Messages : SameRows(m)

Alike(s) == IsSeq(s) /\ \A i \in 1 .. Len(s) : SameRows(s[i])

LEMMA NoneAlike == Alike(<<>>)
BY NoneIsSeq DEF Alike

LEMMA AlikeGrow ==
    ASSUME NEW s, Alike(s), NEW e, SameRows(e)
    PROVE  Alike(Append(s, e))
<1>1. IsSeq(s) /\ Len(s) \in Nat
    BY SeqIs DEF Alike
<1>2. PICK t : t = Append(s, e)
    OBVIOUS
<1>3. /\ IsSeq(t) /\ Len(t) = Len(s) + 1 /\ t[Len(s) + 1] = e
      /\ \A i \in 1 .. Len(s) : t[i] = s[i]
    BY <1>1, <1>2, Appended
<1>4. ASSUME NEW i \in 1 .. Len(t) PROVE SameRows(t[i])
    <2>1. i \in 1 .. Len(s) \/ i = Len(s) + 1
        BY <1>1, <1>3
    <2> QED BY <1>3, <2>1 DEF Alike
<1> QED
    BY <1>2, <1>3, <1>4 DEF Alike

LEMMA MergeAlike ==
    ASSUME NEW m, Alike(m), NEW o, SameRows(o)
    PROVE  Alike(Merge(m, o))
<1>1. IsSeq(m) /\ Len(m) \in Nat
    BY SeqIs DEF Alike
<1>2. CASE ~(m # <<>> /\ o.kind = "stream" /\ Last(m).kind = "stream" /\ Last(m).name = o.name)
    <2>1. Merge(m, o) = Append(m, o)
        BY <1>2 DEF Merge
    <2> QED BY <2>1, AlikeGrow
<1>3. CASE m # <<>> /\ o.kind = "stream" /\ Last(m).kind = "stream" /\ Last(m).name = o.name
    <2>1. PICK e, h : e = Stream(o.name, Last(m).text \o o.text) /\ h = Front(m)
        OBVIOUS
    <2>2. Merge(m, o) = Append(h, e)
        BY <1>3, <2>1 DEF Merge
    <2>3. SameRows(e)
        <3>1. e.kind = "stream"
            BY <2>1 DEF Stream
        <3> QED BY ONLY <3>1 DEF SameRows
    <2>4. Len(m) \in 1 .. Len(m)
        BY <1>1, <1>3, NoneIsSeq, SeqIs
    <2>5. h = SubSeq(m, 1, Len(m) - 1)
        BY <2>1 DEF Front
    <2>6. 1 \in 1 .. Len(m) + 1 /\ Len(m) - 1 \in 1 - 1 .. Len(m)
          /\ Len(m) - 1 - 1 + 1 = Len(m) - 1
        BY <1>1, <2>4
    <2>7. /\ IsSeq(h) /\ Len(h) = Len(m) - 1 - 1 + 1
          /\ \A i \in 1 .. Len(m) - 1 - 1 + 1 : h[i] = m[1 + i - 1]
        BY ONLY <1>1, <2>5, <2>6, Cut
    <2>8. \A i \in 1 .. Len(h) : h[i] = m[i] /\ i \in 1 .. Len(m)
        BY ONLY <1>1, <2>4, <2>7
    <2>9. Alike(h)
        BY <2>7, <2>8 DEF Alike
    <2> QED BY <2>2, <2>3, <2>9, AlikeGrow
<1> QED
    BY <1>2, <1>3

LEMMA MergedAlike ==
    ASSUME NEW outputs, Alike(outputs)
    PROVE  Alike(mergeStreams(outputs))
<1>1. IsSeq(outputs) /\ Len(outputs) \in Nat
    BY SeqIs DEF Alike
<1>2. PICK f : /\ f = [n \in 0 .. Len(outputs) |-> Merging(f, outputs, n)]
               /\ mergeStreams(outputs) = f[Len(outputs)]
    BY <1>1, mergeStreamsIs
<1> DEFINE S == {n \in 0 .. Len(outputs) : Alike(f[n])}
<1>3. 0 \in S
    <2>1. 0 \in 0 .. Len(outputs)
        BY <1>1
    <2>2. f[0] = Merging(f, outputs, 0)
        BY <1>2, <2>1
    <2> QED BY <2>1, <2>2, NoneAlike DEF Merging
<1>4. ASSUME NEW n \in 0 .. Len(outputs) - 1, n \in S PROVE n + 1 \in S
    <2>1. n + 1 \in 0 .. Len(outputs) /\ n + 1 # 0 /\ n + 1 - 1 = n /\ n + 1 \in 1 .. Len(outputs)
        BY <1>1
    <2>2. f[n + 1] = Merging(f, outputs, n + 1)
        BY <1>2, <2>1
    <2>3. f[n + 1] = Merge(f[n], outputs[n + 1])
        BY <2>1, <2>2 DEF Merging
    <2>4. Alike(f[n]) /\ SameRows(outputs[n + 1])
        BY <1>4, <2>1 DEF Alike
    <2>5. Alike(f[n + 1])
        BY ONLY <2>3, <2>4, MergeAlike
    <2> QED BY <2>1, <2>5
<1>5. 0 .. Len(outputs) \subseteq S
    <2> HIDE DEF S
    <2> QED BY <1>1, <1>3, <1>4, Induction
<1> QED
    BY <1>1, <1>2, <1>5

AlikeCells == \A id \in DOMAIN Contents : Alike(cells[id].outputs)

LEMMA InitAlike == OnePicture /\ Init => AlikeCells
<1> SUFFICES ASSUME OnePicture, Init, NEW id \in DOMAIN Contents
             PROVE  Alike(cells[id].outputs)
    BY DEF AlikeCells
<1>1. PICK s : s = Contents[id].outputs /\ s = cells[id].outputs
    BY DEF Init
<1>2. IsSeq(s)
    BY <1>1, DisplayAssumption, SequenceIs DEF IsCell
<1>3. DOMAIN s = 1 .. Len(s)
    BY <1>2, SeqIs
<1>4. \A i \in DOMAIN s : SameRows(s[i])
    BY <1>1 DEF OnePicture
<1> QED
    BY <1>1, <1>2, <1>3, <1>4 DEF Alike

(* Only the outputs of the cell of a run change.                           *)
LEMMA AlikeSet ==
    ASSUME AlikeCells, CellsOk(cells), NEW id \in DOMAIN Contents, NEW d,
           cells' = [cells EXCEPT ![id] = d], Alike(d.outputs)
    PROVE  AlikeCells'
<1> SUFFICES ASSUME NEW x \in DOMAIN Contents PROVE Alike(cells'[x].outputs)
    BY DEF AlikeCells
<1>1. cells'[x] = IF x = id THEN d ELSE cells[x]
    BY DEF CellsOk
<1> QED
    BY <1>1 DEF AlikeCells

LEMMA NextAlike == OnePicture /\ ViewInv /\ AlikeCells /\ [Next]_vars => AlikeCells'
<1> SUFFICES ASSUME OnePicture, ViewInv, AlikeCells, [Next]_vars PROVE AlikeCells'
    OBVIOUS
<1>1. CellsOk(cells) /\ nb \in Seq(DOMAIN Contents) /\ (run.pc # "off" => run.cell \in DOMAIN Contents)
    BY DEF ViewInv, Typed
<1>2. CASE RunStart
    <2>1. PICK id \in ToSet(nb) : cells' = [cells EXCEPT ![id].outputs = <<>>]
        BY <1>2 DEF RunStart
    <2>2. id \in DOMAIN Contents
        BY <1>1 DEF ToSet
    <2>3. PICK d : d = [cells[id] EXCEPT !.outputs = <<>>]
        OBVIOUS
    <2>4. d.outputs = <<>>
        <3>1. IsCell(cells[id])
            BY <1>1, <2>2 DEF CellsOk
        <3>2. PICK a, b, s, n, o : cells[id] = [id |-> a, type |-> b, source |-> s, count |-> n,
                                                outputs |-> o]
            BY <3>1 DEF IsCell
        <3> QED BY <2>3, <3>2
    <2>5. cells' = [cells EXCEPT ![id] = d]
        BY <2>1, <2>3
    <2>6. Alike(d.outputs)
        BY <2>4, NoneAlike
    <2> QED BY <1>1, <2>2, <2>5, <2>6, AlikeSet
<1>3. CASE RunMessage
    <2>1. PICK m \in Messages \cup {[kind |-> "input", count |-> runs]} :
             cells' = [cells EXCEPT ![run.cell] = applyMessageToCell(@, m)]
        BY <1>3 DEF RunMessage
    <2>2. run.cell \in DOMAIN Contents
        BY <1>1, <1>3 DEF RunMessage, Hears
    <2>3. PICK c, d : c = cells[run.cell] /\ d = applyMessageToCell(c, m)
        OBVIOUS
    <2>4. IsCell(c) /\ Alike(c.outputs)
        BY <1>1, <2>2, <2>3 DEF CellsOk, AlikeCells
    <2>5. PICK a, b, s, n, o : c = [id |-> a, type |-> b, source |-> s, count |-> n,
                                    outputs |-> o]
        BY <2>4 DEF IsCell
    <2>6. CASE m.kind = "input"
        <3>1. d = [c EXCEPT !.count = m.count]
            BY <2>3, <2>6 DEF applyMessageToCell
        <3>2. d.outputs = c.outputs
            BY <2>5, <3>1
        <3>3. Alike(d.outputs)
            BY <2>4, <3>2
        <3> QED BY <1>1, <2>1, <2>2, <2>3, <3>3, AlikeSet
    <2>7. CASE m.kind # "input"
        <3>1. m \in Messages /\ d = [c EXCEPT !.outputs = Merge(c.outputs, m)]
            BY <2>3, <2>7 DEF applyMessageToCell
        <3>2. d.outputs = Merge(c.outputs, m)
            BY <2>5, <3>1
        <3>3. SameRows(m)
            BY <3>1 DEF OnePicture
        <3>4. Alike(d.outputs)
            BY <2>4, <3>2, <3>3, MergeAlike
        <3> QED BY <1>1, <2>1, <2>2, <2>3, <3>4, AlikeSet
    <2> QED BY <2>6, <2>7
<1>4. CASE ~RunStart /\ ~RunMessage
    <2>1. cells' = cells
        <3>1. CASE Scheduler
            BY <3>1 DEF Scheduler, TimerFires, Resume, FlushHidden, FlushBuild, FlushSvg,
               FlushHook, FlushFails, session
        <3>2. CASE Redraw
            BY <3>2 DEF Redraw, OpFlushed, OpMutate, OpCommit, OpDraw, OpRestore, ShowBuild,
               ShowDraw, session
        <3>3. CASE RunReply \/ RunIdle \/ RunEnds \/ RunAborted \/ SocketClose \/ Dispose
                   \/ OpBegin \/ Hide \/ Show
            BY <3>3 DEF RunReply, RunIdle, FlushAfter, RunEnds, RunAborted, SocketClose,
               Dispose, OpBegin, Hide, Show, session
        <3>4. CASE UNCHANGED vars
            BY <3>4 DEF vars, session
        <3> QED BY <1>4, <3>1, <3>2, <3>3, <3>4 DEF Next
    <2> QED BY <2>1 DEF AlikeCells
<1> QED
    BY <1>2, <1>3, <1>4

-----------------------------------------------------------------------------
(* Following a mark.                                                       *)

LEMMA PreviewedIs ==
    ASSUME NEW o, SameRows(o), NEW rows, Depicted(o, rows)
    PROVE  Previewed(o.bundle) = {rows}
<1>1. \A m \in DOMAIN o.bundle \cap Pictured : o.bundle[m] = rows
    BY DEF SameRows, Depicted
<1>2. \E m \in Pictured : m \in DOMAIN o.bundle
    BY DEF Depicted
<1>3. Pictured = {"image/png", "image/jpeg", "image/svg+xml"}
    BY DEF Pictured, Images
<1>4. CASE "image/svg+xml" \in DOMAIN o.bundle
    BY <1>1, <1>3, <1>4 DEF Previewed
<1>5. CASE "image/svg+xml" \notin DOMAIN o.bundle /\ "image/png" \in DOMAIN o.bundle
    BY <1>1, <1>3, <1>5 DEF Previewed
<1>6. CASE "image/svg+xml" \notin DOMAIN o.bundle /\ "image/png" \notin DOMAIN o.bundle
    <2>1. "image/jpeg" \in DOMAIN o.bundle
        BY <1>2, <1>3, <1>6
    <2> QED BY <1>1, <1>3, <1>6, <2>1 DEF Previewed
<1> QED
    BY <1>4, <1>5, <1>6

LEMMA PreviewIs ==
    ASSUME NEW book, Book(book), \A i \in 1 .. Len(book) : Alike(book[i].outputs),
           NEW jump, jump.kind = "image", Placed(jump, book)
    PROVE  previewOutput(book, jump.place) = {jump.rows}
<1>1. PICK i \in 1 .. Len(book) : \E j : PlacedAt(jump, book, i, j)
    BY DEF Placed
<1>2. PICK j : PlacedAt(jump, book, i, j)
    BY <1>1
<1>3. PICK merged, o : merged = mergeStreams(book[i].outputs) /\ o = merged[j]
    OBVIOUS
<1>4. /\ jump.place = <<i, j>> /\ book[i].type = "code" /\ j \in DOMAIN merged
      /\ Depicted(o, jump.rows)
    BY <1>2, <1>3 DEF PlacedAt
<1>5. Alike(merged)
    BY <1>3, MergedAlike
<1>6. SameRows(o)
    BY <1>3, <1>4, <1>5, SeqIs DEF Alike
<1>7. Previewed(o.bundle) = {jump.rows}
    BY <1>4, <1>6, PreviewedIs
<1>8. i \in DOMAIN book
    BY SeqIs DEF Book
<1>9. jump.place[1] = i /\ jump.place[2] = j
    BY <1>4
<1>10. o.kind = "data"
    BY <1>4 DEF Depicted
<1> QED
    BY <1>3, <1>4, <1>7, <1>8, <1>9, <1>10 DEF previewOutput

(* A range that a frame leads to is one of a cell with the count it names,  *)
(* and has the line.                                                       *)
LEMMA ActionableIs ==
    ASSUME NEW book, IsSeq(book), NEW sources, IsSeq(sources), NEW count, NEW k \in Nat,
           NEW found, found = Actionable(book, sources, count, k), found # {}
    PROVE  \E r : /\ found = {r} /\ k >= 1 /\ k <= r.end - r.start
                  /\ \E x \in 1 .. Len(sources) : r = sources[x]
                  /\ \E i \in 1 .. Len(book) : book[i].count = count /\ book[i].id = r.cell
<1>1. Len(book) \in Nat
    BY SeqIs
<1>2. PICK P : P = {i \in 1 .. Len(book) : book[i].type = "code" /\ book[i].count = count}
    OBVIOUS
<1>3. PICK i : i = IF P # {} THEN Min(P) ELSE 0
    OBVIOUS
<1>4. PICK j : j = IF i = 0 THEN 0 ELSE RangeOf(sources, book[i].id)
    OBVIOUS
<1>5. found = IF j = 0 \/ k < 1 THEN {} ELSE {r \in {sources[j]} : k <= r.end - r.start}
    BY <1>2, <1>3, <1>4 DEF Actionable, SelectInSeq, RangeOf
<1>6. j # 0 /\ ~(k < 1)
    BY ONLY <1>5, found # {}
<1>7. found = {r \in {sources[j]} : k <= r.end - r.start}
    BY ONLY <1>5, <1>6
<1>8. i # 0 /\ j = RangeOf(sources, book[i].id)
    BY ONLY <1>4, <1>6
<1>9. P \subseteq 1 .. Len(book)
    BY ONLY <1>2, Zenon
<1>10. P \subseteq Nat
    BY ONLY <1>1, <1>9
<1>11. P # {} /\ i = Min(P)
    BY ONLY <1>3, <1>8
<1>12. i \in P
    BY ONLY <1>10, <1>11, LeastIs
<1>13. i \in 1 .. Len(book) /\ book[i].count = count
    BY ONLY <1>2, <1>12
<1>14. j \in 1 .. Len(sources) /\ sources[j].cell = book[i].id
    BY <1>6, <1>8, RangeIs
<1>15. PICK r : r = sources[j]
    OBVIOUS
<1>16. found = {r} /\ k <= r.end - r.start
    BY ONLY <1>7, <1>15, found # {}
<1>17. k >= 1
    BY <1>6
<1> QED
    BY <1>13, <1>14, <1>15, <1>16, <1>17

LEMMA QuietPlan ==
    ASSUME ViewInv, Quiet, visible, ~failed
    PROVE  /\ buf = plan.lines /\ Book(Notebook(nb))
           /\ plan = buildRenderPlan(Notebook(nb), PngsIn(Notebook(nb)))
<1>1. ~Drawing /\ Batch = {} /\ Dirty = {}
    BY NoneToSet DEF Quiet, Drawing, Batch, Dirty
<1>2. buf = plan.lines /\ Fits(plan, nb, cells, {})
    BY <1>1 DEF ViewInv, Faithful, Quiet
<1>3. nb \in Seq(DOMAIN Contents) /\ CellsOk(cells)
    BY DEF ViewInv, Typed
<1>4. Notebook(nb) = BookOf(nb, cells)
    BY DEF Notebook, BookOf
<1>5. plan = buildRenderPlan(BookOf(nb, cells), PngsIn(BookOf(nb, cells)))
    BY <1>2, <1>3, FitsClean
<1>6. Book(BookOf(nb, cells))
    BY <1>3, BookIs
<1> QED
    BY <1>2, <1>4, <1>5, <1>6

LEMMA ClickMarked ==
    ASSUME ViewInv, Quiet, visible, ~failed, NEW c \in plan.clicks
    PROVE  /\ c.line \in Nat /\ Means(c.jump, buf[c.line + 1].what)
           /\ Placed(c.jump, Notebook(nb))
<1>1. PICK book : book = Notebook(nb)
    OBVIOUS
<1>2. /\ buf = plan.lines /\ Book(book)
      /\ plan = buildRenderPlan(book, PngsIn(book))
    BY <1>1, QuietPlan
<1>3. IsSeq(buf) /\ Marked(plan.clicks, Whats(buf), Len(buf), book)
    BY <1>2, PlanFound
<1>4. PICK n \in Nat : n = Len(buf)
    BY <1>3, SeqIs
<1>5. Mark(c, Whats(buf), n, book)
    BY <1>3, <1>4 DEF Marked
<1>6. c.line \in 0 .. n - 1
    BY <1>5 DEF Mark
<1>7. c.line \in Nat /\ c.line + 1 \in 1 .. n
    BY <1>6
<1>8. Whats(buf)[c.line + 1] = buf[c.line + 1].what
    BY <1>4, <1>7 DEF Whats
<1> QED
    BY <1>1, <1>5, <1>7, <1>8 DEF Mark

(* The frames of cells on a line of the viewer name one source line.        *)
OneFrame(clicks, line, count, k) ==
    \A d \in clicks : d.line = line /\ d.jump.kind = "cell" =>
        d.jump.count = count /\ d.jump.line = k

(* Such a frame `c`, shown on the line `l` from 1, and the line `t` of the  *)
(* only source it leads to.                                                 *)
OneLeads(book, p, c, l, t, count, k, r) ==
    /\ c \in p.clicks /\ c.line \in Nat /\ c.jump.kind = "cell" /\ l = c.line + 1
    /\ OneFrame(p.clicks, c.line, count, k)
    /\ Actionable(book, p.sources, count, k) = {r} /\ t = r.start + k

LEMMA JumpIs ==
    ASSUME NEW book, NEW p, NEW c, NEW l, NEW t, NEW count, NEW k, NEW r,
           OneLeads(book, p, c, l, t, count, k, r)
    PROVE  JumpTarget(book, p, l) = t
<1>1. PICK here : here = FramesOn(p, l)
    OBVIOUS
<1>2. l - 1 = c.line
    BY DEF OneLeads
<1>3. here = {d \in p.clicks : d.line = c.line /\ d.jump.kind = "cell"}
    BY <1>1, <1>2 DEF FramesOn
<1>4. PICK d : d = Search(here)
    OBVIOUS
<1>5. c \in here
    BY <1>3 DEF OneLeads
<1>6. d \in here
    BY <1>4, <1>5 DEF Search
<1>7. d.jump.count = count /\ d.jump.line = k
    BY <1>3, <1>6 DEF OneLeads, OneFrame
<1>8. Search({r}) = r
    BY DEF Search
<1>9. JumpTarget(book, p, l) =
         IF here = {} \/ Actionable(book, p.sources, d.jump.count, d.jump.line) = {} THEN 0
         ELSE Search(Actionable(book, p.sources, d.jump.count, d.jump.line)).start + d.jump.line
    BY <1>1, <1>4 DEF JumpTarget
<1>10. Search(Actionable(book, p.sources, d.jump.count, d.jump.line)) = r
    BY <1>7, <1>8 DEF OneLeads
<1> QED
    BY <1>5, <1>7, <1>9, <1>10 DEF OneLeads

LEMMA FrameFollowed ==
    ASSUME ViewInv, Quiet, visible, ~failed, NEW c \in plan.clicks,
           c.jump.kind = "cell", c \notin plan.missing
    PROVE  FrameLands(c)
<1>1. PICK book, count, k : /\ book = Notebook(nb) /\ count = c.jump.count
                            /\ k = c.jump.line
    OBVIOUS
<1>2. /\ buf = plan.lines /\ Book(book) /\ IsSeq(book)
      /\ plan = buildRenderPlan(book, PngsIn(book))
    BY <1>1, QuietPlan DEF Book
<1>3. /\ IsSeq(buf) /\ Sourced(plan.sources, buf)
      /\ plan.missing = Missing(book, plan.clicks, plan.sources)
    BY <1>2, PlanFound
<1>4. c.line \in Nat /\ buf[c.line + 1].what = <<count, k>> /\ k \in Nat
    BY <1>1, ClickMarked DEF Means
<1>5. PICK found : found = Actionable(book, plan.sources, count, k)
    OBVIOUS
<1>6. found # {}
    BY <1>1, <1>3, <1>5 DEF Missing
<1>7. PICK r : /\ found = {r} /\ k >= 1 /\ k <= r.end - r.start
               /\ \E x \in 1 .. Len(plan.sources) : r = plan.sources[x]
               /\ \E i \in 1 .. Len(book) : book[i].count = count /\ book[i].id = r.cell
    BY <1>2, <1>3, <1>4, <1>5, <1>6, ActionableIs DEF Sourced
<1>8. Source(r, buf)
    BY <1>3, <1>7 DEF Sourced
<1>9. PICK t : t = r.start + k
    OBVIOUS
<1>10. t \in 1 .. Len(buf) /\ buf[t].part = "source" /\ buf[t].at = k /\ buf[t].cell = r.cell
    <2>1. r.start \in Nat /\ r.end \in Nat
        BY <1>8 DEF Source
    <2>2. k \in 1 .. r.end - r.start
        BY <1>4, <1>7, <2>1
    <2> QED BY <1>8, <1>9, <2>2 DEF Source
<1>11. t \in DOMAIN buf
    BY <1>3, <1>10, SeqIs
<1>12. cells[r.cell].count = count
    <2>1. PICK i \in 1 .. Len(book) : book[i].count = count /\ book[i].id = r.cell
        BY <1>7
    <2>2. nb \in Seq(DOMAIN Contents) /\ CellsOk(cells) /\ book = BookOf(nb, cells)
        BY <1>1 DEF ViewInv, Typed, Notebook, BookOf
    <2>3. book[i] = cells[nb[i]] /\ book[i].id = nb[i]
        BY <2>2, BookIs
    <2> QED BY <2>1, <2>3
<1>13. JumpTarget(book, plan, c.line + 1) = t
    <2>1. ASSUME NEW d \in plan.clicks, d.line = c.line, d.jump.kind = "cell"
          PROVE  d.jump.count = count /\ d.jump.line = k
        <3>1. buf[c.line + 1].what = <<d.jump.count, d.jump.line>>
            BY <2>1, ClickMarked DEF Means
        <3> QED BY ONLY <1>4, <3>1
    <2>2. OneFrame(plan.clicks, c.line, count, k)
        BY <2>1 DEF OneFrame
    <2>3. Actionable(book, plan.sources, count, k) = {r}
        BY <1>5, <1>7
    <2>4. PICK l : l = c.line + 1
        OBVIOUS
    <2>5. OneLeads(book, plan, c, l, t, count, k, r)
        BY <1>4, <1>9, <2>2, <2>3, <2>4 DEF OneLeads
    <2>6. JumpTarget(book, plan, l) = t
        BY ONLY <2>5, JumpIs
    <2> QED BY <2>4, <2>6
<1>14. [click |-> c, lnum |-> t] \in populateTracebackQflist(book, plan)
    <2>1. [click |-> c, lnum |-> t] \in
             {[click |-> c, lnum |-> x.start + c.jump.line] :
                 x \in Actionable(book, plan.sources, c.jump.count, c.jump.line)}
        BY <1>1, <1>5, <1>7, <1>9
    <2> QED BY <2>1 DEF populateTracebackQflist
<1> QED
    BY <1>1, <1>4, <1>10, <1>11, <1>12, <1>13, <1>14 DEF FrameLands

LEMMA ImageFollowedToo ==
    ASSUME ViewInv, AlikeCells, Quiet, visible, ~failed, NEW c \in plan.clicks,
           c.jump.kind = "image"
    PROVE  PreviewFound(c)
<1>1. PICK book : book = Notebook(nb)
    OBVIOUS
<1>2. Book(book)
    BY <1>1, QuietPlan
<1>3. buf[c.line + 1].what = <<c.jump.rows>> /\ Placed(c.jump, book)
    BY <1>1, ClickMarked DEF Means
<1>4. \A i \in 1 .. Len(book) : Alike(book[i].outputs)
    <2>1. nb \in Seq(DOMAIN Contents) /\ CellsOk(cells) /\ book = BookOf(nb, cells)
        BY <1>1 DEF ViewInv, Typed, Notebook, BookOf
    <2>2. Len(book) = Len(nb) /\ \A i \in 1 .. Len(nb) : book[i] = cells[nb[i]]
        BY <2>1, BookIs
    <2>3. \A i \in 1 .. Len(nb) : nb[i] \in DOMAIN Contents
        BY <2>1
    <2> QED BY <2>2, <2>3 DEF AlikeCells
<1>5. previewOutput(book, c.jump.place) = {c.jump.rows}
    BY <1>2, <1>3, <1>4, PreviewIs
<1> QED
    BY <1>1, <1>3, <1>5 DEF PreviewFound

(* When runs, messages and redraws do not overlap, and the values of a      *)
(* bundle are one picture, what the user may follow leads where it says: a  *)
(* frame of a traceback to the source line it names, of a cell with the     *)
(* count it names, by jumpToTraceback and by the quickfix list alike, and   *)
(* the placeholder of an image to that image (view/traceback-jump.ts,       *)
(* dispatcher/view.ts, render/builder.ts).                                  *)
THEOREM MarksLeadWhereTheySay ==
    ASSUME ~Overlap, OnePicture
    PROVE  Spec => []ClicksLand
<1>1. ViewInv /\ AlikeCells => ClicksLand
    BY FrameFollowed, ImageFollowedToo DEF ClicksLand
<1>2. ~Overlap /\ OnePicture
    OBVIOUS
<1>3. Init => ViewInv /\ IInv /\ AlikeCells
    BY <1>2, InitView, InitInv, InitAlike
<1>4. ViewInv /\ IInv /\ AlikeCells /\ [Next]_vars => ViewInv' /\ IInv' /\ AlikeCells'
    BY <1>2, NextView, NextInv, NextAlike
<1> QED
    BY <1>1, <1>3, <1>4, PTL DEF Spec

=============================================================================

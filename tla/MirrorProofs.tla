---------------------------- MODULE MirrorProofs ----------------------------
(***************************************************************************)
(* Theorems about Mirror, for any notebooks, ids, texts and bounds: who is *)
(* registered for a cell has a buffer, unsaved edits of the mirror go only *)
(* by a hand of the user, the file and an unedited buffer of the mirror are*)
(* those of the notebook, and they go together.                            *)
(*                                                                         *)
(* The text of the mirror is built cell by cell, and what is proved of it  *)
(* goes by induction on the number of cells: each code cell stands in it   *)
(* with its marker (Layout), the way back finds the block of each line     *)
(* (OpenedBy), and so gives every code cell its source (RoundTrip).        *)
(***************************************************************************)
EXTENDS Mirror, TLAPS, WellFoundedInduction, SequenceTheorems

IsBuffer(b) ==
    /\ b = [state |-> b.state, lines |-> b.lines, modified |-> b.modified]
    /\ b.state \in {"none", "open", "frozen"} /\ b.modified \in BOOLEAN

IsMirror(m) ==
    /\ m = [there |-> m.there, bufnr |-> m.bufnr, stale |-> m.stale, build |-> m.build]
    /\ m.there \in BOOLEAN /\ m.bufnr \in BOOLEAN

IsCall(c) ==
    /\ c = [pc |-> c.pc, synced |-> c.synced, mirror |-> c.mirror, show |-> c.show,
            drop |-> c.drop, trims |-> c.trims]
    /\ c.trims \in BOOLEAN /\ IsMirror(c.mirror)

Shapes ==
    /\ IsMirror(mirror)
    /\ IsBuffer(buf) /\ IsCall(call)
    /\ scratch = [id \in Ids |-> scratch[id]] /\ \A id \in Ids : IsBuffer(scratch[id])
    /\ reg = [id \in Ids |-> reg[id]]
    /\ used = [ids |-> used.ids, ops |-> used.ops, typed |-> used.typed]
    /\ used.typed \in Nat

(* A registration is of a buffer that there is, during a call too.         *)
Registered ==
    \A id \in Ids : /\ reg[id] = "scratch" => scratch[id].state = "open"
                    /\ reg[id] = "mirror" => BufferThere

(* The buffer of the mirror is known by its number as long as it is there, *)
(* also to a refresh that holds on to the state it found, and only a buffer*)
(* that is there has unsaved edits.                                        *)
Known ==
    /\ buf.state = "open" => mirror.bufnr
    /\ call.pc \in {"replace", "regions"} /\ mirror.bufnr => call.mirror.bufnr
    /\ buf.modified => buf.state = "open"

IInv == Shapes /\ Registered /\ Known

(* What a call is about to replace has no unsaved edits.                   *)
Clean == call.pc = "replace" => ~buf.modified

-----------------------------------------------------------------------------
(* Induction, by the least counterexample.                                 *)

LEMMA LeastNatural ==
    ASSUME NEW S, S \subseteq Nat, S # {}
    PROVE  \E n \in S : \A m \in S : n <= m
<1> DEFINE R == {p \in Nat \X Nat : p[1] < p[2]}
<1>1. IsWellFoundedOn(R, Nat)
    BY NatLessThanWellFounded DEF OpToRel
<1> HIDE DEF R
<1>2. PICK n \in S : \A m \in S : ~ (<<m, n>> \in R)
    BY <1>1, WFMin
<1>3. \A m \in S : <<m, n>> \in Nat \X Nat
    OBVIOUS
<1>4. \A m \in S : ~ (m < n)
    BY <1>2, <1>3 DEF R
<1> QED
    BY <1>4

(* What holds of 0 and goes from n to n + 1, as a set, has all numbers.    *)
LEMMA Induction ==
    ASSUME NEW S, NEW N \in Nat, 0 \in S, \A n \in 0 .. N - 1 : n \in S => n + 1 \in S
    PROVE  0 .. N \subseteq S
<1> DEFINE T == (0 .. N) \ S
<1>1. ASSUME T # {} PROVE FALSE
    <2>1. T \subseteq Nat
        OBVIOUS
    <2>2. PICK n \in T : \A m \in T : n <= m
        BY <1>1, <2>1, LeastNatural
    <2>3. n # 0 /\ n \in 0 .. N
        BY <2>2
    <2>4. n - 1 \notin T /\ n - 1 \in 0 .. N - 1
        BY <2>2, <2>3
    <2>5. n - 1 \in S /\ n - 1 + 1 = n
        BY <2>3, <2>4
    <2> QED BY <2>2, <2>4, <2>5
<1> QED
    BY <1>1

-----------------------------------------------------------------------------
(* Sequences.                                                              *)

IsSeq(s) == \E S : s \in Seq(S)

LEMMA SeqIs ==
    ASSUME NEW s, IsSeq(s)
    PROVE  Len(s) \in Nat /\ DOMAIN s = 1 .. Len(s) /\ s = [i \in 1 .. Len(s) |-> s[i]]
BY DEF IsSeq

LEMMA MadeSeq ==
    ASSUME NEW n \in Nat, NEW s, s = [i \in 1 .. n |-> s[i]]
    PROVE  IsSeq(s) /\ Len(s) = n
<1> DEFINE S == {s[i] : i \in 1 .. n}
<1>1. [i \in 1 .. n |-> s[i]] \in Seq(S)
    OBVIOUS
<1>2. s \in Seq(S)
    BY <1>1
<1>3. Len(s) = n
    BY <1>2
<1> HIDE DEF S
<1> QED
    BY <1>2, <1>3 DEF IsSeq

LEMMA NoneIsSeq == IsSeq(<<>>) /\ Len(<<>>) = 0
<1>1. <<>> \in Seq({}) /\ Len(<<>>) = 0
    OBVIOUS
<1> QED
    BY <1>1 DEF IsSeq

LEMMA OneIsSeq ==
    ASSUME NEW e
    PROVE  IsSeq(<<e>>) /\ Len(<<e>>) = 1 /\ <<e>>[1] = e
<1>1. <<e>> \in Seq({e}) /\ Len(<<e>>) = 1 /\ <<e>>[1] = e
    OBVIOUS
<1> QED
    BY <1>1 DEF IsSeq

LEMMA Joined ==
    ASSUME NEW s, NEW t, IsSeq(s), IsSeq(t)
    PROVE  /\ IsSeq(s \o t) /\ Len(s \o t) = Len(s) + Len(t)
           /\ \A i \in 1 .. Len(s) : (s \o t)[i] = s[i]
           /\ \A i \in 1 .. Len(t) : (s \o t)[Len(s) + i] = t[i]
<1>1. PICK A, B : s \in Seq(A) /\ t \in Seq(B)
    BY DEF IsSeq
<1> DEFINE S == A \cup B
<1>2. ASSUME NEW r, NEW R, r \in Seq(R), R \subseteq S PROVE r \in Seq(S)
    <2>1. Len(r) \in Nat /\ r = [i \in 1 .. Len(r) |-> r[i]] /\ \A i \in 1 .. Len(r) : r[i] \in R
        BY <1>2
    <2>2. [i \in 1 .. Len(r) |-> r[i]] \in Seq(S)
        BY <1>2, <2>1
    <2> QED BY <2>1, <2>2
<1>3. s \in Seq(S) /\ t \in Seq(S)
    BY <1>1, <1>2
<1> HIDE DEF S
<1>4. /\ s \o t \in Seq(S) /\ Len(s \o t) = Len(s) + Len(t)
      /\ \A i \in 1 .. Len(s) + Len(t) :
            (s \o t)[i] = IF i <= Len(s) THEN s[i] ELSE t[i - Len(s)]
    BY <1>3, ConcatProperties
<1>5. Len(s) \in Nat /\ Len(t) \in Nat
    BY <1>3
<1>6. \A i \in 1 .. Len(t) : (s \o t)[Len(s) + i] = t[i]
    <2> SUFFICES ASSUME NEW i \in 1 .. Len(t) PROVE (s \o t)[Len(s) + i] = t[i]
        OBVIOUS
    <2>1. Len(s) + i \in 1 .. Len(s) + Len(t) /\ ~(Len(s) + i <= Len(s)) /\ Len(s) + i - Len(s) = i
        BY <1>5
    <2> QED BY <1>4, <2>1
<1>7. \A i \in 1 .. Len(s) : (s \o t)[i] = s[i]
    BY <1>4, <1>5
<1>8. IsSeq(s \o t)
    BY ONLY <1>4 DEF IsSeq
<1> QED
    BY ONLY <1>4, <1>6, <1>7, <1>8

LEMMA Appended ==
    ASSUME NEW s, IsSeq(s), NEW e
    PROVE  /\ IsSeq(Append(s, e)) /\ Len(Append(s, e)) = Len(s) + 1
           /\ Append(s, e)[Len(s) + 1] = e
           /\ \A i \in 1 .. Len(s) : Append(s, e)[i] = s[i]
<1>1. Len(s) \in Nat
    BY SeqIs
<1>2. /\ IsSeq(s \o <<e>>) /\ Len(s \o <<e>>) = Len(s) + 1
      /\ \A i \in 1 .. Len(s) : (s \o <<e>>)[i] = s[i]
      /\ (s \o <<e>>)[Len(s) + 1] = e
    BY <1>1, OneIsSeq, Joined
<1>3. Append(s, e) = s \o <<e>>
    <2>1. PICK S : s \in Seq(S)
        BY DEF IsSeq
    <2>2. s \in Seq(S \cup {e})
        <3>1. s = [i \in 1 .. Len(s) |-> s[i]] /\ \A i \in 1 .. Len(s) : s[i] \in S \cup {e}
            BY <2>1
        <3>2. [i \in 1 .. Len(s) |-> s[i]] \in Seq(S \cup {e})
            BY <1>1, <3>1
        <3> QED BY <3>1, <3>2
    <2> QED BY <2>2, AppendIsConcat
<1> QED
    BY <1>2, <1>3

LEMMA Cut ==
    ASSUME NEW s, IsSeq(s), NEW m \in 1 .. Len(s) + 1, NEW n \in m - 1 .. Len(s)
    PROVE  /\ IsSeq(SubSeq(s, m, n)) /\ Len(SubSeq(s, m, n)) = n - m + 1
           /\ \A i \in 1 .. n - m + 1 : SubSeq(s, m, n)[i] = s[m + i - 1]
<1>1. PICK S : s \in Seq(S)
    BY DEF IsSeq
<1>2. Len(s) \in Nat /\ \A i \in m .. n : s[i] \in S
    BY <1>1
<1>3. /\ SubSeq(s, m, n) \in Seq(S)
      /\ Len(SubSeq(s, m, n)) = IF m <= n THEN n - m + 1 ELSE 0
      /\ \A i \in 1 .. n - m + 1 : SubSeq(s, m, n)[i] = s[m + i - 1]
    BY <1>2, SubSeqProperties
<1>4. Len(SubSeq(s, m, n)) = n - m + 1
    BY <1>2, <1>3
<1> QED
    BY <1>3, <1>4 DEF IsSeq

-----------------------------------------------------------------------------
(* Records.                                                                *)

LEMMA ShownIs ==
    ASSUME NEW lines
    PROVE  /\ IsBuffer(Showing(lines))
           /\ Showing(lines).state = "open" /\ ~Showing(lines).modified
BY DEF IsBuffer, Showing

LEMMA NoBufferIs == IsBuffer(NoBuffer) /\ NoBuffer.state = "none" /\ ~NoBuffer.modified
BY DEF IsBuffer, NoBuffer

LEMMA NoMirrorIs == IsMirror(NoMirror) /\ ~NoMirror.bufnr /\ ~NoMirror.there
BY DEF IsMirror, NoMirror

(* A buffer keeps its state when it is marked.                             *)
LEMMA Marked ==
    ASSUME NEW b, IsBuffer(b), NEW m \in BOOLEAN, NEW c, c = [b EXCEPT !.modified = m]
    PROVE  IsBuffer(c) /\ c.state = b.state /\ c.modified = m
<1>1. PICK state, text, modified :
         /\ b = [state |-> state, lines |-> text, modified |-> modified]
         /\ state \in {"none", "open", "frozen"}
    BY DEF IsBuffer
<1>2. c = [state |-> state, lines |-> text, modified |-> m]
    BY <1>1
<1> QED
    BY <1>1, <1>2 DEF IsBuffer

LEMMA FrozenIs ==
    ASSUME NEW b, IsBuffer(b), NEW c, c = Freeze(b) PROVE IsBuffer(c)
<1>1. PICK state, text, modified :
         b = [state |-> state, lines |-> text, modified |-> modified]
    BY DEF IsBuffer
<1>2. c = [b EXCEPT !.state = "frozen", !.lines = Append(@, FrozenLine), !.modified = FALSE]
    BY DEF Freeze
<1>3. c = [state |-> "frozen", lines |-> Append(text, FrozenLine), modified |-> FALSE]
    BY <1>1, <1>2
<1> QED
    BY <1>3 DEF IsBuffer

LEMMA RebuiltIs ==
    ASSUME NEW old, IsMirror(old), NEW cells, NEW synced, NEW m,
           m = Rebuilt(old, cells, synced)
    PROVE  /\ IsMirror(m) /\ m.there = old.there /\ m.bufnr = old.bufnr
           /\ m.build.cellRegions = buildMirror(cells).cellRegions
<1>1. PICK there, bufnr, stale, build :
         /\ old = [there |-> there, bufnr |-> bufnr, stale |-> stale, build |-> build]
         /\ there \in BOOLEAN /\ bufnr \in BOOLEAN
    BY DEF IsMirror
<1>2. PICK b : b = [lineProvenance |-> buildMirror(cells).lineProvenance,
                    cellRegions |-> buildMirror(cells).cellRegions]
    OBVIOUS
<1>3. m = [old EXCEPT !.build = b, !.stale = ~synced]
    BY <1>2 DEF Rebuilt
<1>4. m = [there |-> there, bufnr |-> bufnr, stale |-> ~synced, build |-> b]
    BY <1>1, <1>3
<1>5. m.build.cellRegions = buildMirror(cells).cellRegions
    BY <1>2, <1>4
<1> QED
    BY <1>1, <1>4, <1>5 DEF IsMirror

LEMMA CallTurns ==
    ASSUME NEW c, IsCall(c), NEW pc, NEW d, d = [c EXCEPT !.pc = pc]
    PROVE  IsCall(d) /\ d.pc = pc /\ d.mirror = c.mirror /\ d.synced = c.synced
<1>1. PICK p, s, m, show, drop, trims :
         /\ c = [pc |-> p, synced |-> s, mirror |-> m, show |-> show, drop |-> drop,
                 trims |-> trims]
         /\ trims \in BOOLEAN /\ IsMirror(m)
    BY DEF IsCall
<1>2. d = [pc |-> pc, synced |-> s, mirror |-> m, show |-> show, drop |-> drop,
           trims |-> trims]
    BY <1>1
<1> QED
    BY <1>1, <1>2 DEF IsCall

(* The counters after a step.                                              *)
LEMMA UsedIs ==
    ASSUME NEW u, u = [ids |-> u.ids, ops |-> u.ops, typed |-> u.typed], NEW n, NEW v,
           \/ v = [u EXCEPT !.ops = @ + 1, !.ids = @ + n]
           \/ v = [u EXCEPT !.ops = @ + 1]
    PROVE  /\ v = [ids |-> v.ids, ops |-> v.ops, typed |-> v.typed]
           /\ v.typed = u.typed
<1>1. PICK i, o, t : u = [ids |-> i, ops |-> o, typed |-> t]
    OBVIOUS
<1>2. \/ v = [ids |-> i + n, ops |-> o + 1, typed |-> t]
      \/ v = [ids |-> i, ops |-> o + 1, typed |-> t]
    BY <1>1
<1> QED
    BY <1>1, <1>2

-----------------------------------------------------------------------------
(* The invariant.                                                          *)

LEMMA InitInv == Init => IInv /\ Clean
<1> SUFFICES ASSUME Init PROVE IInv /\ Clean
    OBVIOUS
<1>1. IsCall(call) /\ call.pc = "off"
    BY NoMirrorIs DEF Init, NoCall, IsCall
<1>2. \A id \in Ids : scratch[id] = NoBuffer /\ reg[id] = "none"
    BY DEF Init
<1>3. used = [ids |-> used.ids, ops |-> used.ops, typed |-> used.typed] /\ used.typed = 0
    BY DEF Init
<1>4. mirror = NoMirror /\ buf = NoBuffer
    BY DEF Init
<1>5. scratch = [id \in Ids |-> scratch[id]] /\ reg = [id \in Ids |-> reg[id]]
    BY DEF Init
<1>7. Shapes
    BY ONLY <1>1, <1>2, <1>3, <1>4, <1>5, NoBufferIs, NoMirrorIs DEF Shapes
<1> QED
    BY <1>1, <1>2, <1>4, <1>7, NoBufferIs DEF Init, IInv, Registered, Known, Clean

(* What is kept when nothing but the mirror and its buffer move.           *)
LEMMA BufferKept ==
    ASSUME IInv, UNCHANGED <<scratch, reg>>,
           IsMirror(mirror'), mirror.bufnr => mirror'.bufnr,
           IsBuffer(buf'), buf.state = "open" => buf'.state = "open",
           buf'.state = "open" => mirror'.bufnr, buf'.modified => buf'.state = "open",
           IsCall(call'),
           call'.pc \in {"replace", "regions"} /\ mirror'.bufnr => call'.mirror.bufnr,
           used' = [ids |-> used'.ids, ops |-> used'.ops, typed |-> used'.typed],
           used'.typed \in Nat
    PROVE  IInv'
<1>1. Shapes'
    BY DEF IInv, Shapes
<1>2. Registered'
    BY DEF IInv, Registered, BufferThere
<1> QED
    BY <1>1, <1>2 DEF IInv, Known

LEMMA UsedKept ==
    ASSUME IInv, used' = used
    PROVE  /\ used' = [ids |-> used'.ids, ops |-> used'.ops, typed |-> used'.typed]
           /\ used'.typed \in Nat
BY DEF IInv, Shapes

LEMMA CallMoves ==
    ASSUME IInv, Refresh \/ Replace \/ UpdateRegions
    PROVE  /\ IsCall(call') /\ (call'.pc = "replace" => ~buf.modified /\ buf' = buf)
           /\ call'.pc \in {"replace", "regions", "finish"}
           /\ call'.pc \in {"replace", "regions"} =>
                 mirror' = mirror /\ (call'.mirror = call.mirror \/ call'.mirror = mirror)
           /\ call'.pc \in {"replace", "regions"} /\ Refresh =>
                 mirror.there /\ call'.mirror = mirror
           /\ Replace => call'.mirror = call.mirror
<1>1. IsCall(call)
    BY DEF IInv, Shapes
<1>2. CASE Refresh
    <2>1. UNCHANGED <<buf, mirror>> /\ ~Replace
        BY <1>2 DEF Refresh, Replace
    <2>2. CASE ~mirror.there
        <3>1. call' = [call EXCEPT !.pc = "finish"]
            BY <1>2, <2>2 DEF Refresh
        <3> QED BY <1>1, <2>1, <3>1, CallTurns
    <2>3. CASE mirror.there
        <3>1. PICK pc, synced, m :
                 /\ call' = [call EXCEPT !.pc = pc, !.synced = synced, !.mirror = m]
                 /\ m = mirror /\ pc \in {"replace", "regions"}
                 /\ pc = "replace" => ~buf.modified
            <4> DEFINE next == IF BufferThere /\ ~Skipped THEN "replace" ELSE "regions"
                       there == ~BufferThere \/ ~Skipped
            <4>1. call' = [call EXCEPT !.pc = next, !.synced = there, !.mirror = mirror]
                BY <1>2, <2>3 DEF Refresh
            <4>2. next \in {"replace", "regions"} /\ (next = "replace" => ~buf.modified)
                BY DEF Skipped
            <4> HIDE DEF next, there
            <4> WITNESS next, there, mirror
            <4> QED BY <4>1, <4>2
        <3>2. IsMirror(m)
            BY <3>1 DEF IInv, Shapes
        <3>3. IsCall(call') /\ call'.pc = pc /\ call'.mirror = m
            <4>1. PICK p, s, n, show, drop, trims :
                     /\ call = [pc |-> p, synced |-> s, mirror |-> n, show |-> show,
                                drop |-> drop, trims |-> trims]
                     /\ trims \in BOOLEAN
                BY ONLY <1>1 DEF IsCall
            <4>2. call' = [pc |-> pc, synced |-> synced, mirror |-> m, show |-> show,
                           drop |-> drop, trims |-> trims]
                BY ONLY <3>1, <4>1
            <4> QED BY ONLY <3>2, <4>1, <4>2 DEF IsCall
        <3> QED BY <2>1, <2>3, <3>1, <3>3
    <2> QED BY <2>2, <2>3
<1>3. CASE Replace \/ UpdateRegions
    <2>1. PICK pc :
             /\ call' = [call EXCEPT !.pc = pc] /\ pc \in {"regions", "finish"}
             /\ pc = "regions" => Replace /\ mirror' = mirror
        <3>1. \/ call' = [call EXCEPT !.pc = "regions"] /\ Replace /\ mirror' = mirror
              \/ call' = [call EXCEPT !.pc = "finish"]
            BY <1>3 DEF Replace, UpdateRegions
        <3> QED BY <3>1
    <2>2. IsCall(call') /\ call'.pc = pc /\ call'.mirror = call.mirror
        BY ONLY <1>1, <2>1, CallTurns
    <2>3. ~Refresh
        BY <1>3 DEF Refresh, Replace, UpdateRegions
    <2> QED BY ONLY <2>1, <2>2, <2>3
<1> QED BY <1>2, <1>3

LEMMA CallInv ==
    ASSUME IInv, Refresh \/ Replace \/ UpdateRegions
    PROVE  IInv' /\ Clean'
<1>1. UNCHANGED <<scratch, reg, used>>
    BY DEF Refresh, Replace, UpdateRegions
<1>2. \/ mirror' = mirror
      \/ UpdateRegions /\ \E cells, synced : mirror' = Rebuilt(call.mirror, cells, synced)
    BY DEF Refresh, Replace, UpdateRegions
<1>3. IsMirror(mirror') /\ (mirror.bufnr => mirror'.bufnr)
    BY <1>2, RebuiltIs DEF IInv, Shapes, Known, IsCall, UpdateRegions
<1>4. \/ buf' = buf
      \/ /\ buf.state = "open" /\ mirror' = mirror
         /\ \E lines : buf' = Showing(lines)
    BY DEF Refresh, Replace, UpdateRegions, Replaced
<1>5. /\ IsBuffer(buf') /\ (buf.state = "open" <=> buf'.state = "open")
      /\ buf'.modified => buf.modified
    BY <1>4, ShownIs DEF IInv, Shapes
<1>6. IsCall(call') /\ (call'.pc = "replace" => ~buf.modified /\ buf' = buf)
    BY CallMoves
<1>7. call'.pc \in {"replace", "regions"} /\ mirror'.bufnr => call'.mirror.bufnr
    <2> SUFFICES ASSUME call'.pc \in {"replace", "regions"}, mirror'.bufnr
                 PROVE  call'.mirror.bufnr
        OBVIOUS
    <2>1. mirror' = mirror
        BY CallMoves
    <2>2. CASE Refresh
        BY <2>1, <2>2, CallMoves
    <2>3. CASE Replace
        BY <2>1, <2>3, CallMoves DEF Replace, IInv, Known
    <2>4. CASE UpdateRegions
        <3>1. call'.pc = "finish"
            <4>1. call' = [call EXCEPT !.pc = "finish"] /\ IsCall(call)
                BY <2>4 DEF UpdateRegions, IInv, Shapes
            <4> QED BY ONLY <4>1, CallTurns
        <3> QED BY <3>1
    <2> QED BY <2>2, <2>3, <2>4
<1>8. IInv'
    BY <1>1, <1>3, <1>5, <1>6, <1>7, BufferKept, UsedKept DEF IInv, Shapes, Known
<1> QED BY <1>6, <1>5, <1>8 DEF Clean

-----------------------------------------------------------------------------
(* Scratch buffers.                                                        *)

(* What is kept when only scratch buffers and registrations move.          *)
LEMMA ScratchKept ==
    ASSUME IInv, UNCHANGED <<mirror, buf>>,
           scratch' = [id \in Ids |-> scratch'[id]], reg' = [id \in Ids |-> reg'[id]],
           \A id \in Ids : /\ IsBuffer(scratch'[id])
                           /\ reg'[id] = "scratch" => scratch'[id].state = "open"
                           /\ reg'[id] = "mirror" => reg[id] = "mirror",
           IsCall(call'),
           call'.pc \in {"replace", "regions"} /\ mirror'.bufnr => call'.mirror.bufnr,
           used' = [ids |-> used'.ids, ops |-> used'.ops, typed |-> used'.typed],
           used'.typed \in Nat
    PROVE  IInv'
<1>1. Shapes'
    BY DEF IInv, Shapes
<1>2. Registered'
    BY DEF IInv, Registered, BufferThere
<1> QED
    BY <1>1, <1>2 DEF IInv, Known

LEMMA FreezesOthers ==
    ASSUME IInv, NEW ids, NEW id \in Ids
    PROVE  /\ IsBuffer(Frozen(ids)[id])
           /\ id \notin ids => Frozen(ids)[id] = scratch[id]
<1>1. Frozen(ids)[id] = IF id \in ids /\ reg[id] = "scratch" /\ scratch[id].state = "open"
                        THEN Freeze(scratch[id]) ELSE scratch[id]
    BY DEF Frozen
<1> QED
    BY <1>1, FrozenIs DEF IInv, Shapes

LEMMA FinishInv == ASSUME IInv, Finish PROVE IInv' /\ Clean'
<1>1. UNCHANGED <<mirror, buf, used>> /\ IsCall(call') /\ call'.pc = "off"
    BY NoMirrorIs DEF Finish, mirrors, NoCall, IsCall
<1>2. /\ scratch' = [id \in Ids |-> scratch'[id]] /\ reg' = [id \in Ids |-> reg'[id]]
    BY DEF Finish, Unregistered
<1>3. ASSUME NEW id \in Ids
      PROVE  /\ IsBuffer(scratch'[id])
             /\ reg'[id] = "scratch" => scratch'[id].state = "open"
             /\ reg'[id] = "mirror" => reg[id] = "mirror"
    <2>1. /\ reg'[id] = "none" \/ (id \notin call.drop /\ reg'[id] = reg[id])
        BY DEF Finish, Unregistered
    <2>2. CASE id \in DOMAIN call.show /\ reg[id] = "scratch" /\ scratch[id].state = "open"
        <3> DEFINE m == call.trims /\ Len(scratch[id].lines) > Len(call.show[id])
        <3>1. scratch'[id] = [Showing(call.show[id]) EXCEPT !.modified = m]
            BY <2>2 DEF Finish
        <3>2. m \in BOOLEAN
            OBVIOUS
        <3> DEFINE b == Showing(call.show[id])
        <3>3. IsBuffer(b) /\ b.state = "open"
            BY ShownIs
        <3>4. scratch'[id] = [b EXCEPT !.modified = m]
            BY <3>1
        <3> HIDE DEF m, b
        <3>5. IsBuffer(scratch'[id]) /\ scratch'[id].state = "open"
            BY ONLY <3>2, <3>3, <3>4, Marked
        <3> QED BY <2>1, <3>5
    <2>3. CASE ~(id \in DOMAIN call.show /\ reg[id] = "scratch" /\ scratch[id].state = "open")
        <3>1. scratch'[id] = Frozen(call.drop)[id]
            BY <2>3 DEF Finish
        <3> QED BY <2>1, <3>1, FreezesOthers DEF IInv, Registered
    <2> QED BY <2>2, <2>3
<1>4. IInv'
    BY <1>1, <1>2, <1>3, ScratchKept, UsedKept
<1> QED BY <1>1, <1>4 DEF Clean

(* An operation, an undo and a redo begin: only deleteCell touches a       *)
(* buffer, the scratch of its cell.                                        *)
LEMMA BeginsInv ==
    ASSUME IInv, UNCHANGED mirrors, call'.pc = "refresh", IsCall(call'),
           used' = [ids |-> used'.ids, ops |-> used'.ops, typed |-> used'.typed],
           used'.typed = used.typed,
           \/ UNCHANGED <<scratch, reg>>
           \/ \E id : scratch' = Frozen({id}) /\ reg' = Unregistered({id})
    PROVE  IInv' /\ Clean'
<1>1. UNCHANGED <<mirror, buf>> /\ used'.typed \in Nat
    BY DEF mirrors, IInv, Shapes
<1>2. CASE UNCHANGED <<scratch, reg>>
    <2>1. IInv'
        BY <1>1, <1>2, ScratchKept DEF IInv, Shapes, Registered
    <2> QED BY <2>1 DEF Clean
<1>3. ASSUME NEW cell, scratch' = Frozen({cell}), reg' = Unregistered({cell})
      PROVE  IInv' /\ Clean'
    <2>1. scratch' = [id \in Ids |-> scratch'[id]] /\ reg' = [id \in Ids |-> reg'[id]]
        BY <1>3 DEF Frozen, Unregistered
    <2>2. ASSUME NEW id \in Ids
          PROVE  /\ IsBuffer(scratch'[id])
                 /\ reg'[id] = "scratch" => scratch'[id].state = "open"
                 /\ reg'[id] = "mirror" => reg[id] = "mirror"
        <3>1. reg'[id] = "none" \/ (id \notin {cell} /\ reg'[id] = reg[id])
            BY <1>3 DEF Unregistered
        <3> QED BY <1>3, <3>1, FreezesOthers DEF IInv, Registered
    <2>3. IInv'
        BY <1>1, <2>1, <2>2, ScratchKept
    <2> QED BY <2>3 DEF Clean
<1> QED BY <1>2, <1>3

LEMMA OperateIs ==
    ASSUME IInv, NEW new, NEW entry, NEW ids, NEW show, NEW drop,
           Operate(new, entry, ids, show, drop)
    PROVE  /\ UNCHANGED mirrors /\ call'.pc = "refresh" /\ IsCall(call')
           /\ used' = [ids |-> used'.ids, ops |-> used'.ops, typed |-> used'.typed]
           /\ used'.typed = used.typed
<1>1. call' = [pc |-> "refresh", synced |-> TRUE, mirror |-> NoMirror, show |-> show,
               drop |-> drop, trims |-> FALSE]
    BY DEF Operate, NoCall
<1>2. used' = [used EXCEPT !.ops = @ + 1, !.ids = @ + ids]
    BY DEF Operate
<1>3. /\ used' = [ids |-> used'.ids, ops |-> used'.ops, typed |-> used'.typed]
      /\ used'.typed = used.typed
    BY <1>2, UsedIs DEF IInv, Shapes
<1>4. IsCall(call') /\ call'.pc = "refresh"
    BY ONLY <1>1, NoMirrorIs DEF IsCall
<1>5. UNCHANGED mirrors
    BY DEF Operate
<1> QED
    BY ONLY <1>3, <1>4, <1>5

LEMMA OperationInv ==
    ASSUME IInv,
           InsertCell \/ MoveCell \/ ChangeCellType \/ DeleteCell \/ SplitCell \/ JoinCell
    PROVE  IInv' /\ Clean'
<1>1. PICK new, entry, ids, show, drop : Operate(new, entry, ids, show, drop)
    BY DEF InsertCell, MoveCell, ChangeCellType, DeleteCell, SplitCell, JoinCell
<1>2. \/ UNCHANGED <<scratch, reg>>
      \/ \E id : scratch' = Frozen({id}) /\ reg' = Unregistered({id})
    BY DEF InsertCell, MoveCell, ChangeCellType, DeleteCell, SplitCell, JoinCell
<1> QED BY <1>1, <1>2, OperateIs, BeginsInv

LEMMA TimelineInv == ASSUME IInv, Undo \/ Redo PROVE IInv' /\ Clean'
<1>1. PICK from, to, kind : ProcessOne(from, to, kind)
    BY DEF Undo, Redo
<1>2. UNCHANGED <<mirrors, scratch, reg>>
    BY <1>1 DEF ProcessOne
<1>3. call' = [NoCall EXCEPT !.pc = "refresh", !.show = Last(from).sync, !.trims = TRUE]
    BY <1>1 DEF ProcessOne
<1>4. call' = [pc |-> "refresh", synced |-> TRUE, mirror |-> NoMirror,
               show |-> Last(from).sync, drop |-> {}, trims |-> TRUE]
    BY <1>3 DEF NoCall
<1>5. used' = [used EXCEPT !.ops = @ + 1]
    BY <1>1 DEF ProcessOne
<1>6. /\ used' = [ids |-> used'.ids, ops |-> used'.ops, typed |-> used'.typed]
      /\ used'.typed = used.typed
    BY <1>5, UsedIs DEF IInv, Shapes
<1> QED
    BY <1>2, <1>4, <1>6, BeginsInv, NoMirrorIs DEF IsCall

-----------------------------------------------------------------------------
(* Opening and saving.                                                     *)

LEMMA EditInMirrorInv ==
    ASSUME IInv, NEW cell, EditInMirror(cell)
    PROVE  IInv' /\ call' = call
<1>1. /\ UNCHANGED <<scratch, call, used>>
      /\ reg' = [reg EXCEPT ![cell] = "mirror"]
    BY DEF EditInMirror
<1>2. PICK m : IsMirror(m) /\ mirror' = [m EXCEPT !.there = TRUE, !.bufnr = TRUE]
    <2>1. IsMirror(IF mirror.there THEN mirror ELSE Rebuilt(mirror, nb, TRUE))
        BY RebuiltIs DEF IInv, Shapes
    <2> QED BY <2>1 DEF EditInMirror
<1>3. IsMirror(mirror') /\ mirror'.bufnr = TRUE
    <2>1. PICK there, bufnr, stale, build :
             m = [there |-> there, bufnr |-> bufnr, stale |-> stale, build |-> build]
        BY <1>2 DEF IsMirror
    <2>2. mirror' = [there |-> TRUE, bufnr |-> TRUE, stale |-> stale, build |-> build]
        BY ONLY <1>2, <2>1
    <2> QED BY <2>2 DEF IsMirror
<1>4. IsBuffer(buf') /\ buf'.state = "open"
    <2>1. \/ BufferThere /\ buf' = buf
          \/ \E lines : buf' = Showing(lines)
        BY DEF EditInMirror, openCellRegion
    <2> QED BY <2>1, ShownIs DEF BufferThere, IInv, Shapes
<1>5. /\ reg' = [id \in Ids |-> reg'[id]]
      /\ \A id \in Ids : reg'[id] = "mirror" \/ reg'[id] = reg[id]
    BY <1>1 DEF IInv, Shapes
<1>6. Shapes'
    BY ONLY IInv, <1>1, <1>3, <1>4, <1>5 DEF IInv, Shapes
<1>7. Registered'
    BY ONLY IInv, <1>1, <1>3, <1>4, <1>5 DEF IInv, Registered, BufferThere
<1> QED BY <1>1, <1>3, <1>4, <1>6, <1>7 DEF IInv, Known, EditInMirror, AtRest

LEMMA EditInScratchInv ==
    ASSUME IInv, NEW cell, EditInScratch(cell)
    PROVE  IInv' /\ call' = call
<1>1. /\ UNCHANGED <<mirror, buf, call, used>>
      /\ reg' = [reg EXCEPT ![cell] = "scratch"]
      /\ scratch' = [scratch EXCEPT ![cell] = Loaded(@, nb[Index(nb, cell)].source)]
    BY DEF EditInScratch, mirrors
<1>2. \A b, source : IsBuffer(Loaded(b, source)) /\ Loaded(b, source).state = "open"
    BY ShownIs DEF Loaded
<1>3. /\ scratch' = [id \in Ids |-> scratch'[id]] /\ reg' = [id \in Ids |-> reg'[id]]
    BY <1>1 DEF IInv, Shapes
<1>4. ASSUME NEW id \in Ids
      PROVE  /\ IsBuffer(scratch'[id])
             /\ reg'[id] = "scratch" => scratch'[id].state = "open"
             /\ reg'[id] = "mirror" => reg[id] = "mirror"
    <2>1. CASE id = cell
        <3>1. \E b, source : scratch'[id] = Loaded(b, source)
            BY <1>1, <2>1 DEF IInv, Shapes
        <3>2. reg'[id] = "scratch"
            BY <1>1, <2>1 DEF IInv, Shapes
        <3> QED BY <1>2, <3>1, <3>2
    <2>2. CASE id # cell
        <3>1. scratch'[id] = scratch[id] /\ reg'[id] = reg[id]
            BY <1>1, <2>2 DEF IInv, Shapes
        <3> QED BY <3>1 DEF IInv, Shapes, Registered
    <2> QED BY <2>1, <2>2
<1> QED
    BY <1>1, <1>3, <1>4, ScratchKept, UsedKept DEF IInv, Shapes, Known

(* refreshMirror inside a save: edits that are not the save's own stay.    *)
LEMMA RefreshedIs ==
    ASSUME IInv, NEW cells, NEW force \in BOOLEAN, Refreshed(cells, force)
    PROVE  /\ IsMirror(mirror') /\ mirror'.bufnr = mirror.bufnr
           /\ IsBuffer(buf') /\ (buf.state = "open" <=> buf'.state = "open")
           /\ buf'.modified => buf.modified
           /\ buf' = buf \/ force \/ ~buf.modified
<1>1. mirror' = mirror \/ \E synced : mirror' = Rebuilt(mirror, cells, synced)
    BY DEF Refreshed, mirrors
<1>2. \/ buf' = buf
      \/ /\ buf.state = "open" /\ (force \/ ~buf.modified)
         /\ buf' = Showing(Lines(cells))
    BY DEF Refreshed, mirrors, Replaced, BufferThere, Skipped
<1>3. IsMirror(mirror') /\ mirror'.bufnr = mirror.bufnr
    BY <1>1, RebuiltIs DEF IInv, Shapes
<1> QED BY ONLY IInv, <1>2, <1>3, ShownIs DEF IInv, Shapes

LEMMA SaveMirrorInv ==
    ASSUME IInv, SaveMirror
    PROVE  IInv' /\ AtRest /\ call' = call
<1>1. /\ UNCHANGED <<scratch, reg, used, call>> /\ AtRest
      /\ \E cells : Refreshed(cells, TRUE)
    BY DEF SaveMirror, Saves
<1>2. /\ IsMirror(mirror') /\ mirror'.bufnr = mirror.bufnr
      /\ IsBuffer(buf') /\ (buf.state = "open" <=> buf'.state = "open")
      /\ buf'.modified => buf.modified
    BY <1>1, RefreshedIs
<1>3. IInv'
    BY <1>1, <1>2, BufferKept, UsedKept DEF IInv, Shapes, Known
<1> QED BY <1>1, <1>3

LEMMA SaveUnchangedInv ==
    ASSUME IInv, SaveUnchanged
    PROVE  IInv' /\ AtRest /\ call' = call
<1>1. /\ UNCHANGED <<mirror, scratch, reg, used, call>> /\ AtRest
      /\ buf' = [buf EXCEPT !.modified = FALSE]
    BY DEF SaveUnchanged, Saves
<1>2. IsBuffer(buf') /\ buf'.state = buf.state /\ buf'.modified = FALSE
    BY <1>1, Marked DEF IInv, Shapes
<1>3. IInv'
    BY <1>1, <1>2, BufferKept, UsedKept DEF IInv, Shapes, Known
<1> QED BY <1>1, <1>3

LEMMA SaveScratchInv ==
    ASSUME IInv, NEW cell \in Ids, SaveScratch(cell)
    PROVE  IInv' /\ AtRest /\ call' = call
<1>1. /\ UNCHANGED <<reg, call>> /\ AtRest
      /\ scratch' = [scratch EXCEPT ![cell].modified = FALSE]
      /\ used' = [used EXCEPT !.ops = @ + 1]
      /\ \E cells : Refreshed(cells, FALSE)
    BY DEF SaveScratch
<1>2. /\ IsMirror(mirror') /\ mirror'.bufnr = mirror.bufnr
      /\ IsBuffer(buf') /\ (buf.state = "open" <=> buf'.state = "open")
      /\ buf'.modified => buf.modified
    BY <1>1, RefreshedIs
<1>3. /\ used' = [ids |-> used'.ids, ops |-> used'.ops, typed |-> used'.typed]
      /\ used'.typed = used.typed
    BY <1>1, UsedIs DEF IInv, Shapes
<1>4. scratch' = [id \in Ids |-> scratch'[id]]
    BY <1>1 DEF IInv, Shapes
<1>5. ASSUME NEW id \in Ids
      PROVE  IsBuffer(scratch'[id]) /\ scratch'[id].state = scratch[id].state
    <2>1. IsBuffer(scratch[id])
        BY DEF IInv, Shapes
    <2>2. scratch'[id] = scratch[id] \/ scratch'[id] = [scratch[id] EXCEPT !.modified = FALSE]
        BY <1>1 DEF IInv, Shapes
    <2> QED BY <2>1, <2>2, Marked
<1>6. Shapes'
    BY ONLY IInv, <1>1, <1>2, <1>3, <1>4, <1>5 DEF IInv, Shapes
<1>7. Registered'
    BY ONLY IInv, <1>1, <1>2, <1>5 DEF IInv, Registered, BufferThere
<1> QED BY <1>1, <1>2, <1>6, <1>7 DEF IInv, Known

-----------------------------------------------------------------------------
(* Closing, and the user.                                                  *)

LEMMA CloseMirrorInv ==
    ASSUME IInv, CloseMirror
    PROVE  IInv' /\ call' = call /\ ~buf'.modified
<1>1. /\ UNCHANGED <<scratch, call, used>> /\ buf' = NoBuffer
      /\ mirror' = mirror \/ mirror' = NoMirror
    BY DEF CloseMirror, cleanupMirrorOnExit
<1>2. \/ CellsOfMirror = {} /\ reg' = reg
      \/ reg' = Unregistered(CellsOfMirror)
    BY DEF CloseMirror, Origins, Forgotten
<1>3. /\ reg' = [id \in Ids |-> reg'[id]]
      /\ \A id \in Ids : reg'[id] # "mirror" /\ (reg'[id] = "scratch" => reg[id] = "scratch")
    BY <1>2 DEF Unregistered, CellsOfMirror, IInv, Shapes
<1>5. Shapes'
    BY ONLY IInv, <1>1, <1>3, NoBufferIs, NoMirrorIs DEF IInv, Shapes
<1>6. Registered'
    BY ONLY IInv, <1>1, <1>3 DEF IInv, Registered
<1>7. call' = call /\ (mirror'.bufnr => mirror.bufnr)
    BY ONLY <1>1, NoMirrorIs
<1>8. buf'.state = "none" /\ ~buf'.modified
    BY ONLY <1>1, NoBufferIs
<1>9. Known'
    BY ONLY IInv, <1>7, <1>8 DEF IInv, Known
<1> QED BY ONLY <1>5, <1>6, <1>7, <1>8, <1>9 DEF IInv

LEMMA CloseScratchInv ==
    ASSUME IInv, NEW cell \in Ids, CloseScratch(cell)
    PROVE  IInv' /\ call' = call
<1>1. /\ UNCHANGED <<mirror, buf, call, used>>
      /\ scratch' = [scratch EXCEPT ![cell] = NoBuffer]
      /\ reg' = IF reg[cell] = "scratch" THEN Unregistered({cell}) ELSE reg
    BY DEF CloseScratch, mirrors, Forgotten
<1>2. /\ scratch' = [id \in Ids |-> scratch'[id]] /\ reg' = [id \in Ids |-> reg'[id]]
    BY <1>1 DEF IInv, Shapes, Unregistered
<1>3. ASSUME NEW id \in Ids
      PROVE  /\ IsBuffer(scratch'[id])
             /\ reg'[id] = "scratch" => scratch'[id].state = "open"
             /\ reg'[id] = "mirror" => reg[id] = "mirror"
    <2>1. scratch'[id] = IF id = cell THEN NoBuffer ELSE scratch[id]
        BY <1>1 DEF IInv, Shapes
    <2>2. \/ reg'[id] = "none"
          \/ reg'[id] = reg[id] /\ (id = cell => reg[id] # "scratch")
        BY <1>1 DEF Unregistered
    <2> QED BY <2>1, <2>2, NoBufferIs DEF IInv, Shapes, Registered
<1> QED
    BY <1>1, <1>2, <1>3, ScratchKept, UsedKept DEF IInv, Shapes, Known

LEMMA ReloadInv ==
    ASSUME IInv, Reload
    PROVE  IInv' /\ call' = call /\ ~buf'.modified
<1>1. /\ UNCHANGED <<scratch, reg, call, used>> /\ buf.state = "open"
      /\ \E lines : buf' = Showing(lines)
      /\ mirror' = mirror \/ mirror' = [mirror EXCEPT !.stale = FALSE]
    BY DEF Reload
<1>2. IsMirror(mirror') /\ mirror'.bufnr = mirror.bufnr
    <2>1. PICK there, bufnr, stale, build :
             /\ mirror = [there |-> there, bufnr |-> bufnr, stale |-> stale, build |-> build]
             /\ there \in BOOLEAN /\ bufnr \in BOOLEAN
        BY DEF IInv, Shapes, IsMirror
    <2>2. \/ mirror' = mirror
          \/ mirror' = [there |-> there, bufnr |-> bufnr, stale |-> FALSE, build |-> build]
        BY ONLY <1>1, <2>1
    <2> QED BY ONLY <2>1, <2>2 DEF IsMirror
<1>3. IsBuffer(buf') /\ buf'.state = "open" /\ ~buf'.modified
    BY <1>1, ShownIs
<1>4. IInv'
    BY <1>1, <1>2, <1>3, BufferKept, UsedKept DEF IInv, Shapes, Known
<1> QED BY <1>1, <1>3, <1>4

LEMMA ReopenInv ==
    ASSUME IInv, Reopen
    PROVE  IInv' /\ AtRest /\ call' = call
<1>1. /\ call' = call /\ AtRest /\ mirror' = NoMirror
      /\ buf' = IF mirror.bufnr THEN NoBuffer ELSE buf
      /\ reg' = [id \in Ids |-> "none"]
      /\ used' = [used EXCEPT !.ops = @ + 1, !.ids = Max({@} \cup CellIds(nb'))]
    BY DEF Reopen, WipesMirror, cleanupMirrorOnExit
<1>2. IsBuffer(buf') /\ buf'.state # "open" /\ ~buf'.modified
    BY <1>1, NoBufferIs DEF IInv, Shapes, Known
<1>3. /\ used' = [ids |-> used'.ids, ops |-> used'.ops, typed |-> used'.typed]
      /\ used'.typed = used.typed
    BY <1>1, UsedIs DEF IInv, Shapes
<1>4. scratch' = [id \in Ids |-> IF reg[id] = "scratch" THEN NoBuffer ELSE scratch[id]]
    BY DEF Reopen
<1>5. /\ scratch' = [id \in Ids |-> scratch'[id]]
      /\ \A id \in Ids : IsBuffer(scratch'[id])
    BY <1>4, NoBufferIs DEF IInv, Shapes
<1>7. Shapes'
    BY ONLY IInv, <1>1, <1>2, <1>3, <1>5, NoMirrorIs DEF IInv, Shapes
<1>8. Registered'
    BY ONLY <1>1 DEF Registered
<1> QED BY ONLY <1>1, <1>2, <1>7, <1>8, NoMirrorIs DEF IInv, Known

Typing ==
    ChangeLine \/ AddLine \/ RemoveLine \/ AddPreamble \/ PasteBlock \/ LoseMarkers

LEMMA TypingInv ==
    ASSUME IInv, Typing
    PROVE  /\ IInv' /\ call' = call /\ used'.typed # used.typed
           /\ Meanwhile \/ call.pc # "replace"
<1>1. /\ Types /\ \E lines : Edited(lines)
    BY DEF Typing, ChangeLine, AddLine, RemoveLine, AddPreamble, PasteBlock, LoseMarkers
<1>2. /\ UNCHANGED <<mirror, scratch, reg, call>> /\ buf.state = "open"
      /\ Meanwhile \/ call.pc # "replace"
      /\ used' = [used EXCEPT !.typed = @ + 1]
    BY <1>1 DEF Types
<1>3. PICK lines : buf' = [buf EXCEPT !.lines = lines, !.modified = TRUE]
    BY <1>1 DEF Edited
<1>4. IsBuffer(buf') /\ buf'.state = "open"
    <2>1. PICK state, text, modified :
             buf = [state |-> state, lines |-> text, modified |-> modified]
        BY DEF IInv, Shapes, IsBuffer
    <2>2. buf' = [state |-> state, lines |-> lines, modified |-> TRUE]
        BY ONLY <1>3, <2>1
    <2>3. state = "open"
        BY ONLY <1>2, <2>1
    <2> QED BY ONLY <2>2, <2>3 DEF IsBuffer
<1>5. /\ used' = [ids |-> used'.ids, ops |-> used'.ops, typed |-> used'.typed]
      /\ used'.typed = used.typed + 1 /\ used.typed \in Nat
    <2>1. PICK i, o, t : used = [ids |-> i, ops |-> o, typed |-> t] /\ t \in Nat
        BY DEF IInv, Shapes
    <2>2. used' = [ids |-> i, ops |-> o, typed |-> t + 1]
        BY ONLY <1>2, <2>1
    <2> QED BY ONLY <2>1, <2>2
<1>6. IInv'
    BY <1>2, <1>4, <1>5, BufferKept DEF IInv, Shapes, Known
<1> QED BY ONLY <1>2, <1>5, <1>6

LEMMA TypeInScratchInv ==
    ASSUME IInv, NEW cell \in Ids, TypeInScratch(cell)
    PROVE  IInv' /\ UNCHANGED <<call, buf>>
<1>1. /\ UNCHANGED <<mirror, buf, reg, call>>
      /\ used' = [used EXCEPT !.typed = @ + 1]
    BY DEF TypeInScratch, mirrors
<1>2. PICK l : scratch' = [scratch EXCEPT ![cell].lines = [@ EXCEPT ![1] = l],
                                         ![cell].modified = TRUE]
    BY DEF TypeInScratch
<1>3. /\ used' = [ids |-> used'.ids, ops |-> used'.ops, typed |-> used'.typed]
      /\ used'.typed \in Nat
    <2>1. PICK i, o, t : used = [ids |-> i, ops |-> o, typed |-> t] /\ t \in Nat
        BY DEF IInv, Shapes
    <2>2. used' = [ids |-> i, ops |-> o, typed |-> t + 1]
        BY ONLY <1>1, <2>1
    <2> QED BY ONLY <2>1, <2>2
<1>4. scratch' = [id \in Ids |-> scratch'[id]]
    BY <1>2 DEF IInv, Shapes
<1>5. ASSUME NEW id \in Ids
      PROVE  IsBuffer(scratch'[id]) /\ scratch'[id].state = scratch[id].state
    <2>1. CASE id # cell
        BY <1>2, <2>1 DEF IInv, Shapes
    <2>2. CASE id = cell
        <3>1. PICK b, c, lines :
                 /\ b = scratch[id] /\ c = scratch'[id]
                 /\ c = [b EXCEPT !.lines = lines, !.modified = TRUE]
            BY <1>2, <2>2 DEF IInv, Shapes
        <3>2. PICK state, text, modified :
                 /\ b = [state |-> state, lines |-> text, modified |-> modified]
                 /\ state \in {"none", "open", "frozen"}
            BY <3>1 DEF IInv, Shapes, IsBuffer
        <3>3. c = [b EXCEPT !.lines = lines, !.modified = TRUE]
            BY ONLY <3>1
        <3>4. c = [state |-> state, lines |-> lines, modified |-> TRUE]
            BY ONLY <3>2, <3>3
        <3>5. IsBuffer(c) /\ c.state = b.state
            BY ONLY <3>2, <3>4 DEF IsBuffer
        <3> QED BY ONLY <3>1, <3>5
    <2> QED BY <2>1, <2>2
<1>6. \A id \in Ids : /\ reg'[id] = "scratch" => scratch'[id].state = "open"
                      /\ reg'[id] = "mirror" => reg[id] = "mirror"
    BY <1>1, <1>5 DEF IInv, Registered
<1> QED
    BY <1>1, <1>3, <1>4, <1>5, <1>6, ScratchKept DEF IInv, Shapes, Known

-----------------------------------------------------------------------------
(* The text of the mirror, cell by cell.                                   *)

Top ==
    [lines |-> SUPPRESSION_HEADER,
     lineProvenance |-> [i \in DOMAIN SUPPRESSION_HEADER |-> [Content EXCEPT !.kind = "header"]],
     cellRegions |-> <<>>]

(* What there is of the mirror after n cells, if f tells it for fewer.     *)
Grown(f, cells, n) == IF n = 0 THEN Top ELSE AddRegion(f[n - 1], cells[n])

LEMMA GrowthIs ==
    ASSUME NEW cells, NEW N \in Nat
    PROVE  \E f : f = [n \in 0 .. N |-> Grown(f, cells, n)]
<1> DEFINE P(m) == \E f : f = [n \in 0 .. m |-> Grown(f, cells, n)]
           S == {m \in Nat : P(m)}
<1>1. 0 \in S
    <2>1. PICK f : f = [n \in 0 .. 0 |-> Top]
        OBVIOUS
    <2>2. \A n \in 0 .. 0 : Grown(f, cells, n) = Top
        BY DEF Grown
    <2>3. f = [n \in 0 .. 0 |-> Grown(f, cells, n)]
        BY <2>1, <2>2
    <2> QED BY <2>3
<1>2. ASSUME NEW m \in 0 .. N - 1, m \in S PROVE m + 1 \in S
    <2>1. PICK f : f = [n \in 0 .. m |-> Grown(f, cells, n)]
        BY <1>2
    <2>2. PICK g : g = [n \in 0 .. m + 1 |-> IF n = m + 1 THEN AddRegion(f[m], cells[m + 1]) ELSE f[n]]
        OBVIOUS
    <2>3. ASSUME NEW n \in 0 .. m + 1 PROVE g[n] = Grown(g, cells, n)
        <3>1. CASE n = m + 1
            <4>1. g[n] = AddRegion(f[m], cells[m + 1]) /\ g[m] = f[m] /\ n # 0 /\ n - 1 = m
                BY <2>2, <3>1
            <4> QED BY <3>1, <4>1 DEF Grown
        <3>2. CASE n # m + 1
            <4>1. n \in 0 .. m /\ g[n] = f[n]
                BY <2>2, <3>2
            <4>2. f[n] = Grown(f, cells, n)
                BY <2>1, <4>1
            <4>3. n # 0 => g[n - 1] = f[n - 1]
                BY <2>2, <4>1
            <4> QED BY <4>1, <4>2, <4>3 DEF Grown
        <3> QED BY <3>1, <3>2
    <2>4. g = [n \in 0 .. m + 1 |-> Grown(g, cells, n)]
        BY <2>2, <2>3
    <2> QED BY <2>4
<1>3. 0 .. N \subseteq S
    <2> HIDE DEF S
    <2> QED BY <1>1, <1>2, Induction
<1>4. N \in S
    BY <1>3
<1> QED
    BY <1>4

LEMMA BuiltIs ==
    ASSUME NEW cells, IsSeq(cells)
    PROVE  \E f : /\ f = [n \in 0 .. Len(cells) |-> Grown(f, cells, n)]
                  /\ buildMirror(cells) = f[Len(cells)]
<1>1. Len(cells) \in Nat
    BY SeqIs
<1>2. \E f : f = [n \in 0 .. Len(cells) |-> Grown(f, cells, n)]
    BY <1>1, GrowthIs
<1>3. PICK f : /\ f = CHOOSE g : g = [n \in 0 .. Len(cells) |-> Grown(g, cells, n)]
               /\ f = [n \in 0 .. Len(cells) |-> Grown(f, cells, n)]
    BY <1>2
<1>4. buildMirror(cells) =
         (CHOOSE g : g = [n \in 0 .. Len(cells) |->
                             IF n = 0 THEN Top ELSE AddRegion(g[n - 1], cells[n])])[Len(cells)]
    BY DEF buildMirror, Top
<1>5. buildMirror(cells) = f[Len(cells)]
    BY <1>3, <1>4 DEF Grown
<1> QED
    BY <1>3, <1>5, ZenonT(30)

(* A line of a cell is restored from its comment.                          *)
LEMMA Normalized ==
    ASSUME NEW source, IsSeq(source)
    PROVE  /\ IsSeq(normalizeCell(source).lines)
           /\ Len(normalizeCell(source).lines) = Len(source)
           /\ IsSeq(normalizeCell(source).provenance)
           /\ Len(normalizeCell(source).provenance) = Len(source)
           /\ \A i \in 1 .. Len(source) :
                 /\ denormalizeLine(normalizeCell(source).lines[i],
                                    normalizeCell(source).provenance[i]) = source[i]
                 /\ source[i][1] # "marker" => normalizeCell(source).lines[i][1] # "marker"
<1>1. Len(source) \in Nat /\ DOMAIN source = 1 .. Len(source)
    BY SeqIs
<1>2. PICK text, from :
         /\ text = [i \in 1 .. Len(source) |->
                       IF i \in Magic(source) THEN commentLine(source[i]) ELSE source[i]]
         /\ from = [i \in 1 .. Len(source) |->
                       IF i \in Magic(source) THEN [kind |-> "magic", original |-> source[i]]
                       ELSE Content]
         /\ normalizeCell(source).lines = text /\ normalizeCell(source).provenance = from
    BY <1>1 DEF normalizeCell
<1>3. IsSeq(text) /\ Len(text) = Len(source)
    <2>1. text = [i \in 1 .. Len(source) |-> text[i]]
        BY <1>2
    <2> QED BY ONLY <1>1, <2>1, MadeSeq
<1>4. IsSeq(from) /\ Len(from) = Len(source)
    <2>1. from = [i \in 1 .. Len(source) |-> from[i]]
        BY <1>2
    <2> QED BY ONLY <1>1, <2>1, MadeSeq
<1>5. ASSUME NEW i \in 1 .. Len(source)
      PROVE  /\ denormalizeLine(text[i], from[i]) = source[i]
             /\ source[i][1] # "marker" => text[i][1] # "marker"
    <2>1. CASE i \in Magic(source)
        <3>1. text[i] = commentLine(source[i])
              /\ from[i] = [kind |-> "magic", original |-> source[i]]
            BY <1>2, <2>1
        <3>2. commentLine(source[i])[1] = "comment"
            BY DEF commentLine
        <3> QED BY <3>1, <3>2 DEF denormalizeLine
    <2>2. CASE i \notin Magic(source)
        <3>1. text[i] = source[i] /\ from[i] = Content
            BY <1>2, <2>2
        <3>2. Content.kind = "content"
            BY DEF Content
        <3> QED BY <3>1, <3>2 DEF denormalizeLine
    <2> QED BY <2>1, <2>2
<1> QED
    BY <1>2, <1>3, <1>4, <1>5

IsCode(cells, k) == cells[k].cell_type = "code"

(* The line of the marker of cell k, and the region of the cell.           *)
Place(f, k) == Len(f[k - 1].lines) + 1

Region(f, cells, k) ==
    [cellId |-> cells[k].id, startLine |-> Place(f, k),
     endLine |-> Place(f, k) - 1 + Len(cells[k].source)]

(* A cell stands in the text: its marker, and its lines below.             *)
Stands(c, at, region, lines, from, regions) ==
    /\ at \in 3 .. Len(lines) /\ at + Len(c.source) <= Len(lines)
    /\ lines[at] = Marker(c.id)
    /\ \A i \in 1 .. Len(c.source) :
          /\ lines[at + i] = normalizeCell(c.source).lines[i]
          /\ from[at + i] = normalizeCell(c.source).provenance[i]
    /\ \E r \in 1 .. Len(regions) : regions[r] = region

StandsIn(f, cells, k, m) ==
    Stands(cells[k], Place(f, k), Region(f, cells, k), m.lines, m.lineProvenance, m.cellRegions)

Inside(f, cells, k, j) == Place(f, k) <= j /\ j <= Place(f, k) + Len(cells[k].source)

(* The text of the first n cells: the header and their blocks.             *)
Layout(f, cells, n) ==
    /\ IsSeq(f[n].lines) /\ IsSeq(f[n].lineProvenance) /\ IsSeq(f[n].cellRegions)
    /\ Len(f[n].lineProvenance) = Len(f[n].lines) /\ Len(f[n].lines) >= 2
    /\ \A i \in 1 .. 2 : f[n].lines[i] = SUPPRESSION_HEADER[i]
    /\ \A k \in 1 .. n : IsCode(cells, k) => StandsIn(f, cells, k, f[n])
    /\ \A r \in 1 .. Len(f[n].cellRegions) : \E k \in 1 .. n :
          IsCode(cells, k) /\ f[n].cellRegions[r] = Region(f, cells, k)
    /\ \A j \in 3 .. Len(f[n].lines) : \E k \in 1 .. n :
          IsCode(cells, k) /\ Inside(f, cells, k, j)

HasSources(cells) == IsSeq(cells) /\ \A i \in 1 .. Len(cells) : IsSeq(cells[i].source)

LEMMA LayoutTop ==
    ASSUME NEW f, f[0] = Top, NEW cells
    PROVE  Layout(f, cells, 0)
<1>1. PICK a, b, from : /\ f[0].lines = <<a, b>> /\ SUPPRESSION_HEADER = <<a, b>>
                        /\ f[0].lineProvenance = from /\ from = [i \in 1 .. 2 |-> from[i]]
                        /\ f[0].cellRegions = <<>>
    <2>1. DOMAIN SUPPRESSION_HEADER = 1 .. 2
        BY DEF SUPPRESSION_HEADER
    <2>2. PICK from : /\ from = [i \in DOMAIN SUPPRESSION_HEADER |-> [Content EXCEPT !.kind = "header"]]
                      /\ f[0].lineProvenance = from
        BY DEF Top
    <2>3. from = [i \in 1 .. 2 |-> from[i]]
        BY <2>1, <2>2
    <2>4. f[0].lines = SUPPRESSION_HEADER /\ f[0].cellRegions = <<>>
        BY DEF Top
    <2>5. \E a, b : SUPPRESSION_HEADER = <<a, b>>
        BY DEF SUPPRESSION_HEADER
    <2> QED BY <2>2, <2>3, <2>4, <2>5
<1>2. <<a, b>> \in Seq({a, b}) /\ Len(<<a, b>>) = 2
    OBVIOUS
<1>3. IsSeq(f[0].lines) /\ Len(f[0].lines) = 2
    BY ONLY <1>1, <1>2 DEF IsSeq
<1>4. IsSeq(f[0].lineProvenance) /\ Len(f[0].lineProvenance) = 2
    BY ONLY <1>1, MadeSeq
<1> QED
    BY ONLY <1>1, <1>3, <1>4, NoneIsSeq DEF Layout

LEMMA JoinedAround ==
    ASSUME NEW s, NEW one, NEW t, IsSeq(s), IsSeq(t), NEW l \in Nat, Len(s) = l,
           NEW o \in Nat, Len(t) = o
    PROVE  /\ IsSeq(s \o <<one>> \o t) /\ Len(s \o <<one>> \o t) = l + 1 + o
           /\ \A i \in 1 .. l : (s \o <<one>> \o t)[i] = s[i]
           /\ (s \o <<one>> \o t)[l + 1] = one
           /\ \A i \in 1 .. o : (s \o <<one>> \o t)[l + 1 + i] = t[i]
<1>1. /\ IsSeq(s \o <<one>>) /\ Len(s \o <<one>>) = l + 1
      /\ \A i \in 1 .. l : (s \o <<one>>)[i] = s[i]
      /\ (s \o <<one>>)[l + 1] = one
    BY Joined, OneIsSeq
<1>7. PICK k \in Nat : k = l + 1
    OBVIOUS
<1>2. PICK u : u = s \o <<one>> /\ k = l + 1
    BY <1>7
<1>5. IsSeq(u) /\ Len(u) = k
    BY ONLY <1>1, <1>2
<1>6. /\ IsSeq(u \o t) /\ Len(u \o t) = k + o
      /\ \A i \in 1 .. k : (u \o t)[i] = u[i]
      /\ \A i \in 1 .. o : (u \o t)[k + i] = t[i]
    BY ONLY <1>5, IsSeq(t), Len(t) = o, Joined
<1>3. /\ IsSeq(u \o t) /\ Len(u \o t) = l + 1 + o
      /\ \A i \in 1 .. l + 1 : (u \o t)[i] = u[i]
      /\ \A i \in 1 .. o : (u \o t)[l + 1 + i] = t[i]
    BY ONLY <1>2, <1>6, Zenon
<1>4. l + 1 \in 1 .. l + 1 /\ \A i \in 1 .. l : i \in 1 .. l + 1
    OBVIOUS
<1> QED BY ONLY <1>1, <1>2, <1>3, <1>4

LEMMA StandsStill ==
    ASSUME NEW c, NEW at, NEW region, NEW w \in Nat, Len(c.source) = w,
           NEW l \in Nat, NEW q \in Nat, NEW more \in Nat,
           NEW lines, NEW from, NEW regions, Len(lines) = l, Len(regions) = q,
           Stands(c, at, region, lines, from, regions),
           NEW lines2, NEW from2, NEW regions2, Len(lines2) = l + more, Len(regions2) = q + 1,
           \A i \in 1 .. l : lines2[i] = lines[i] /\ from2[i] = from[i],
           \A r \in 1 .. q : regions2[r] = regions[r]
    PROVE  Stands(c, at, region, lines2, from2, regions2)
<1>1. at \in 3 .. l /\ at + w <= l
    BY DEF Stands
<1>2. at \in 1 .. l /\ \A i \in 1 .. w : at + i \in 1 .. l
    BY ONLY <1>1, l \in Nat, w \in Nat
<1>3. at \in 3 .. Len(lines2) /\ at + w <= Len(lines2)
    BY ONLY <1>1, l \in Nat, w \in Nat, more \in Nat, Len(lines2) = l + more
<1>4. lines2[at] = Marker(c.id)
    BY <1>2 DEF Stands
<1>5. \A i \in 1 .. w : /\ lines2[at + i] = normalizeCell(c.source).lines[i]
                        /\ from2[at + i] = normalizeCell(c.source).provenance[i]
    BY <1>2 DEF Stands
<1>6. \E r \in 1 .. Len(regions2) : regions2[r] = region
    <2>1. PICK r \in 1 .. q : regions[r] = region
        BY DEF Stands
    <2>2. r \in 1 .. Len(regions2)
        BY ONLY r \in 1 .. q, q \in Nat, Len(regions2) = q + 1
    <2> QED BY <2>1, <2>2
<1> QED BY ONLY <1>3, <1>4, <1>5, <1>6, Len(c.source) = w DEF Stands

LEMMA LayoutGrows ==
    ASSUME NEW f, NEW cells, HasSources(cells), NEW n \in Nat, n + 1 <= Len(cells),
           f[n + 1] = AddRegion(f[n], cells[n + 1]), Layout(f, cells, n)
    PROVE  Layout(f, cells, n + 1)
<1>1. PICK c, lines, from, regions :
         /\ c = cells[n + 1] /\ lines = f[n].lines /\ from = f[n].lineProvenance
         /\ regions = f[n].cellRegions
    OBVIOUS
<1>2. PICK l \in Nat, q \in Nat, w \in Nat :
         /\ IsSeq(lines) /\ IsSeq(from) /\ IsSeq(regions)
         /\ Len(lines) = l /\ Len(from) = l /\ Len(regions) = q /\ l >= 2
         /\ IsSeq(c.source) /\ Len(c.source) = w
    <2>1. /\ IsSeq(lines) /\ IsSeq(from) /\ IsSeq(regions)
          /\ Len(from) = Len(lines) /\ Len(lines) >= 2
        BY <1>1 DEF Layout
    <2>2. IsSeq(c.source)
        <3>1. n + 1 \in 1 .. Len(cells)
            BY SeqIs DEF HasSources
        <3> QED BY <1>1, <3>1 DEF HasSources
    <2>3. Len(lines) \in Nat /\ Len(regions) \in Nat /\ Len(c.source) \in Nat
        BY ONLY <2>1, <2>2, SeqIs
    <2> QED BY ONLY <2>1, <2>2, <2>3
<1>3. Place(f, n + 1) = l + 1
    <2>1. n + 1 - 1 = n
        OBVIOUS
    <2> QED BY <1>1, <1>2, <2>1 DEF Place
<1>4. \A k \in 1 .. n + 1 : k = n + 1 \/ k \in 1 .. n
    OBVIOUS
<1>5. n + 1 \in 1 .. n + 1 /\ \A k \in 1 .. n : k \in 1 .. n + 1
    OBVIOUS
<1>6. CASE c.cell_type # "code"
    <2>1. f[n + 1] = f[n] /\ ~IsCode(cells, n + 1)
        BY <1>1, <1>6 DEF AddRegion, IsCode
    <2>4. \A k \in 1 .. n + 1 : IsCode(cells, k) => StandsIn(f, cells, k, f[n + 1])
        BY <2>1, <1>4 DEF Layout
    <2>5. \A r \in 1 .. Len(f[n + 1].cellRegions) : \E k \in 1 .. n + 1 :
             IsCode(cells, k) /\ f[n + 1].cellRegions[r] = Region(f, cells, k)
        BY <2>1, <1>5 DEF Layout
    <2>6. \A j \in 3 .. Len(f[n + 1].lines) : \E k \in 1 .. n + 1 :
             IsCode(cells, k) /\ Inside(f, cells, k, j)
        BY <2>1, <1>5 DEF Layout
    <2> QED BY <2>1, <2>4, <2>5, <2>6 DEF Layout
<1>7. CASE c.cell_type = "code"
    <2>1. PICK mark, kind, text, texts, region, lines2, from2, regions2 :
             /\ mark = Marker(c.id) /\ region = Region(f, cells, n + 1)
             /\ text = normalizeCell(c.source).lines
             /\ texts = normalizeCell(c.source).provenance
             /\ lines2 = lines \o <<mark>> \o text /\ from2 = from \o <<kind>> \o texts
             /\ regions2 = Append(regions, region)
             /\ f[n + 1].lines = lines2 /\ f[n + 1].lineProvenance = from2
             /\ f[n + 1].cellRegions = regions2
        <3>1. Len(normalizeCell(c.source).lines) = w
            BY <1>2, Normalized
        <3>2. l + 1 - 1 + w = l + w
            BY ONLY l \in Nat, w \in Nat
        <3>3. Region(f, cells, n + 1) =
                 [cellId |-> c.id, startLine |-> l + 1, endLine |-> l + w]
            <4>1. Len(cells[n + 1].source) = w /\ cells[n + 1].id = c.id
                BY <1>1, <1>2
            <4>2. Place(f, n + 1) - 1 + Len(cells[n + 1].source) = l + w
                BY ONLY <1>3, <3>2, <4>1
            <4>3. PICK last : last = l + w
                OBVIOUS
            <4>4. Region(f, cells, n + 1) =
                     [cellId |-> cells[n + 1].id, startLine |-> Place(f, n + 1), endLine |-> last]
                BY ONLY <4>2, <4>3, Zenon DEF Region
            <4> QED BY ONLY <1>3, <4>1, <4>3, <4>4, Zenon
        <3>4. f[n + 1] = AddRegion(f[n], c)
            BY <1>1
        <3>5. f[n + 1] =
                 [lines |-> lines \o <<Marker(c.id)>> \o normalizeCell(c.source).lines,
                  lineProvenance |-> from \o <<[Content EXCEPT !.kind = "marker"]>>
                                        \o normalizeCell(c.source).provenance,
                  cellRegions |-> Append(regions,
                      [cellId |-> c.id, startLine |-> l + 1, endLine |-> l + w])]
            BY ONLY <1>1, <1>2, <1>7, <3>1, <3>4, Zenon DEF AddRegion
        <3>6. PICK kind : kind = [Content EXCEPT !.kind = "marker"]
            OBVIOUS
        <3>7. PICK text, texts : /\ text = normalizeCell(c.source).lines
                                 /\ texts = normalizeCell(c.source).provenance
            OBVIOUS
        <3>8. PICK lines2, from2, regions2 :
                 /\ lines2 = lines \o <<Marker(c.id)>> \o text
                 /\ from2 = from \o <<kind>> \o texts
                 /\ regions2 = Append(regions, Region(f, cells, n + 1))
            OBVIOUS
        <3>9. f[n + 1] = [lines |-> lines2, lineProvenance |-> from2, cellRegions |-> regions2]
            BY ONLY <3>3, <3>5, <3>6, <3>7, <3>8, Zenon
        <3>10. /\ f[n + 1].lines = lines2 /\ f[n + 1].lineProvenance = from2
               /\ f[n + 1].cellRegions = regions2
            BY ONLY <3>9
        <3> QED BY ONLY <3>7, <3>8, <3>10, Zenon
    <2>2. /\ IsSeq(text) /\ Len(text) = w
          /\ IsSeq(texts) /\ Len(texts) = w
        BY ONLY <1>2, <2>1, Normalized
    <2>4. /\ IsSeq(lines2) /\ Len(lines2) = l + 1 + w
          /\ \A i \in 1 .. l : lines2[i] = lines[i]
          /\ lines2[l + 1] = mark
          /\ \A i \in 1 .. w : lines2[l + 1 + i] = text[i]
        <3>1. IsSeq(lines) /\ Len(lines) = l /\ IsSeq(text) /\ Len(text) = w
            BY ONLY <1>2, <2>2, Zenon
        <3>2. /\ IsSeq(lines \o <<mark>> \o text) /\ Len(lines \o <<mark>> \o text) = l + 1 + w
              /\ \A i \in 1 .. l : (lines \o <<mark>> \o text)[i] = lines[i]
              /\ (lines \o <<mark>> \o text)[l + 1] = mark
              /\ \A i \in 1 .. w : (lines \o <<mark>> \o text)[l + 1 + i] = text[i]
            BY ONLY <3>1, l \in Nat, w \in Nat, JoinedAround
        <3> QED BY ONLY <2>1, <3>2, Zenon
    <2>5. /\ IsSeq(from2) /\ Len(from2) = l + 1 + w
          /\ \A i \in 1 .. l : from2[i] = from[i]
          /\ \A i \in 1 .. w : from2[l + 1 + i] = texts[i]
        <3>1. IsSeq(from) /\ Len(from) = l /\ IsSeq(texts) /\ Len(texts) = w
            BY ONLY <1>2, <2>2, Zenon
        <3>2. /\ IsSeq(from \o <<kind>> \o texts) /\ Len(from \o <<kind>> \o texts) = l + 1 + w
              /\ \A i \in 1 .. l : (from \o <<kind>> \o texts)[i] = from[i]
              /\ \A i \in 1 .. w : (from \o <<kind>> \o texts)[l + 1 + i] = texts[i]
            BY ONLY <3>1, l \in Nat, w \in Nat, JoinedAround, SMTT(30)
        <3> QED BY ONLY <2>1, <3>2, Zenon
    <2>6. /\ IsSeq(regions2) /\ Len(regions2) = q + 1
          /\ \A r \in 1 .. q : regions2[r] = regions[r]
          /\ regions2[q + 1] = region
        BY ONLY <1>2, <2>1, Appended
    <2>7. l + 1 + w = l + (1 + w) /\ 1 + w \in Nat
        BY ONLY l \in Nat, w \in Nat
    <2>8. StandsIn(f, cells, n + 1, f[n + 1])
        <3>1. l + 1 \in 3 .. Len(lines2) /\ l + 1 + w <= Len(lines2)
            BY ONLY l \in Nat, w \in Nat, <1>2, <2>4
        <3>2. \E r \in 1 .. Len(regions2) : regions2[r] = region
            <4>1. q + 1 \in 1 .. Len(regions2)
                BY ONLY q \in Nat, <2>6
            <4> QED BY ONLY <2>6, <4>1
        <3>3. Stands(c, l + 1, region, lines2, from2, regions2)
            BY ONLY <1>2, <2>1, <2>4, <2>5, <3>1, <3>2 DEF Stands
        <3> QED BY ONLY <1>1, <1>3, <2>1, <3>3, Zenon DEF StandsIn
    <2>9. ASSUME NEW k \in 1 .. n, IsCode(cells, k) PROVE StandsIn(f, cells, k, f[n + 1])
        <3>1. PICK d, at, own : d = cells[k] /\ at = Place(f, k) /\ own = Region(f, cells, k)
            OBVIOUS
        <3>2. Stands(d, at, own, lines, from, regions)
            BY <1>1, <2>9, <3>1 DEF Layout, StandsIn
        <3>3. PICK v \in Nat : Len(d.source) = v
            <4>1. k \in 1 .. Len(cells)
                BY SeqIs DEF HasSources
            <4> QED BY <3>1, <4>1, SeqIs DEF HasSources
        <3>4. Stands(d, at, own, lines2, from2, regions2)
            <4>1. Len(lines2) = l + (1 + w) /\ 1 + w \in Nat
                BY ONLY <2>4, <2>7, Zenon
            <4>2. \A i \in 1 .. l : lines2[i] = lines[i] /\ from2[i] = from[i]
                BY ONLY <2>4, <2>5, Zenon
            <4>3. Len(lines) = l /\ Len(regions) = q /\ Len(regions2) = q + 1
                BY ONLY <1>2, <2>6, Zenon
            <4>4. PICK more \in Nat : more = 1 + w
                BY <4>1
            <4>5. \A r \in 1 .. q : regions2[r] = regions[r]
                BY ONLY <2>6, Zenon
            <4>6. Len(lines2) = l + more
                BY ONLY <4>1, <4>4, Zenon
            <4> QED BY ONLY <3>2, <3>3, <4>2, <4>3, <4>5, <4>6, l \in Nat, q \in Nat, v \in Nat,
                            more \in Nat, StandsStill
        <3> QED BY ONLY <2>1, <3>1, <3>4, Zenon DEF StandsIn
    <2>10. IsCode(cells, n + 1)
        BY <1>1, <1>7 DEF IsCode
    <2>12. ASSUME NEW r \in 1 .. Len(regions2)
           PROVE  \E k \in 1 .. n + 1 : IsCode(cells, k) /\ regions2[r] = Region(f, cells, k)
        <3>1. CASE r \in 1 .. q
            <4>1. \E k \in 1 .. n : IsCode(cells, k) /\ regions[r] = Region(f, cells, k)
                BY <1>1, <1>2, <3>1 DEF Layout
            <4> QED BY ONLY <1>5, <2>6, <3>1, <4>1
        <3>2. CASE r \notin 1 .. q
            <4>1. r = q + 1
                BY ONLY q \in Nat, <2>6, <3>2, r \in 1 .. Len(regions2)
            <4> QED BY ONLY <1>5, <2>1, <2>6, <2>10, <4>1
        <3> QED BY ONLY <3>1, <3>2
    <2>13. ASSUME NEW j \in 3 .. Len(lines2)
           PROVE  \E k \in 1 .. n + 1 : IsCode(cells, k) /\ Inside(f, cells, k, j)
        <3>1. CASE j \in 3 .. l
            <4>1. \E k \in 1 .. n : IsCode(cells, k) /\ Inside(f, cells, k, j)
                BY <1>1, <1>2, <3>1 DEF Layout
            <4> QED BY ONLY <1>5, <4>1
        <3>2. CASE j \notin 3 .. l
            <4>1. l + 1 <= j /\ j <= l + 1 + w
                <5>1. Len(lines2) = l + 1 + w
                    BY ONLY <2>4, Zenon
                <5> QED BY ONLY l \in Nat, w \in Nat, <5>1, <3>2, j \in 3 .. Len(lines2)
            <4>2. Inside(f, cells, n + 1, j)
                BY ONLY <1>1, <1>2, <1>3, <4>1, Zenon DEF Inside
            <4> QED BY ONLY <1>5, <2>10, <4>2
        <3> QED BY ONLY <3>1, <3>2
    <2>14. Len(from2) = Len(lines2) /\ Len(lines2) >= 2
        BY ONLY <2>4, <2>5, <1>2, l \in Nat, w \in Nat
    <2>15. \A i \in 1 .. 2 : lines2[i] = SUPPRESSION_HEADER[i]
        <3>1. \A i \in 1 .. 2 : i \in 1 .. l
            BY ONLY <1>2, l \in Nat
        <3>2. \A i \in 1 .. 2 : lines[i] = SUPPRESSION_HEADER[i]
            BY <1>1 DEF Layout
        <3> QED BY ONLY <2>4, <3>1, <3>2
    <2>16. \A k \in 1 .. n + 1 : IsCode(cells, k) => StandsIn(f, cells, k, f[n + 1])
        BY ONLY <2>8, <2>9, <1>4
    <2>17. /\ IsSeq(f[n + 1].lines) /\ IsSeq(f[n + 1].lineProvenance)
           /\ IsSeq(f[n + 1].cellRegions)
           /\ Len(f[n + 1].lineProvenance) = Len(f[n + 1].lines) /\ Len(f[n + 1].lines) >= 2
        BY ONLY <2>1, <2>4, <2>5, <2>6, <2>14, Zenon
    <2>18. \A i \in 1 .. 2 : f[n + 1].lines[i] = SUPPRESSION_HEADER[i]
        BY ONLY <2>1, <2>15, Zenon
    <2>19. \A r \in 1 .. Len(f[n + 1].cellRegions) : \E k \in 1 .. n + 1 :
              IsCode(cells, k) /\ f[n + 1].cellRegions[r] = Region(f, cells, k)
        BY ONLY <2>1, <2>12, Zenon
    <2>20. \A j \in 3 .. Len(f[n + 1].lines) : \E k \in 1 .. n + 1 :
              IsCode(cells, k) /\ Inside(f, cells, k, j)
        BY ONLY <2>1, <2>13, Zenon
    <2> QED BY ONLY <2>16, <2>17, <2>18, <2>19, <2>20, Zenon DEF Layout
<1> QED BY <1>6, <1>7

LEMMA LayoutIs ==
    ASSUME NEW cells, HasSources(cells)
    PROVE  \E f : /\ \A n \in 0 .. Len(cells) : Layout(f, cells, n)
                  /\ buildMirror(cells) = f[Len(cells)]
<1>1. PICK f : /\ f = [n \in 0 .. Len(cells) |-> Grown(f, cells, n)]
               /\ buildMirror(cells) = f[Len(cells)]
    BY BuiltIs DEF HasSources
<1>2. Len(cells) \in Nat
    BY SeqIs DEF HasSources
<1> DEFINE S == {n \in 0 .. Len(cells) : Layout(f, cells, n)}
<1>3. 0 \in S
    <2>1. 0 \in 0 .. Len(cells)
        BY <1>2
    <2>2. f[0] = Top
        BY <1>1, <2>1 DEF Grown
    <2> QED BY <2>1, <2>2, LayoutTop
<1>4. ASSUME NEW n \in 0 .. Len(cells) - 1, n \in S PROVE n + 1 \in S
    <2>1. n + 1 \in 0 .. Len(cells) /\ n + 1 # 0 /\ n + 1 - 1 = n /\ n \in Nat
        BY <1>2
    <2>2. f[n + 1] = AddRegion(f[n], cells[n + 1])
        BY <1>1, <2>1 DEF Grown
    <2>3. n + 1 <= Len(cells)
        BY <1>2, <2>1
    <2> QED BY <1>4, <2>1, <2>2, <2>3, LayoutGrows
<1>5. 0 .. Len(cells) \subseteq S
    <2> HIDE DEF S
    <2> QED BY ONLY <1>2, <1>3, <1>4, Induction
<1> QED
    BY <1>1, <1>5

-----------------------------------------------------------------------------
(* Lines at some places, and places in a sequence.                         *)

(* What is picked from the first n lines.                                  *)
Gathered(g, lines, places, n) ==
    IF n = 0 THEN <<>> ELSE IF n \in places THEN Append(g[n - 1], lines[n]) ELSE g[n - 1]

Gathers(g, lines, places, N) ==
    /\ g = [n \in 0 .. N |-> g[n]]
    /\ \A n \in 0 .. N : g[n] = Gathered(g, lines, places, n)

LEMMA GatheredIs ==
    ASSUME NEW lines, NEW places, NEW N \in Nat
    PROVE  \E g : Gathers(g, lines, places, N)
<1> DEFINE P(m) == \E g : g = [n \in 0 .. m |-> Gathered(g, lines, places, n)]
           S == {m \in Nat : P(m)}
<1>1. 0 \in S
    <2>1. PICK g : g = [n \in 0 .. 0 |-> <<>>]
        OBVIOUS
    <2>2. \A n \in 0 .. 0 : Gathered(g, lines, places, n) = <<>>
        BY DEF Gathered
    <2>3. g = [n \in 0 .. 0 |-> Gathered(g, lines, places, n)]
        BY <2>1, <2>2
    <2> QED BY <2>3
<1>2. ASSUME NEW m \in 0 .. N - 1, m \in S PROVE m + 1 \in S
    <2>1. PICK f : f = [n \in 0 .. m |-> Gathered(f, lines, places, n)]
        BY <1>2
    <2>2. PICK last : last = IF m + 1 \in places THEN Append(f[m], lines[m + 1]) ELSE f[m]
        OBVIOUS
    <2>3. PICK g : g = [n \in 0 .. m + 1 |-> IF n = m + 1 THEN last ELSE f[n]]
        OBVIOUS
    <2>4. ASSUME NEW n \in 0 .. m + 1 PROVE g[n] = Gathered(g, lines, places, n)
        <3>1. CASE n = m + 1
            <4>1. g[n] = last /\ g[m] = f[m] /\ n # 0 /\ n - 1 = m
                BY <2>3, <3>1
            <4> QED BY <2>2, <3>1, <4>1 DEF Gathered
        <3>2. CASE n # m + 1
            <4>1. n \in 0 .. m /\ g[n] = f[n]
                BY <2>3, <3>2
            <4>2. f[n] = Gathered(f, lines, places, n)
                BY <2>1, <4>1
            <4>3. n # 0 => g[n - 1] = f[n - 1]
                BY <2>3, <4>1
            <4> QED BY <4>1, <4>2, <4>3 DEF Gathered
        <3> QED BY <3>1, <3>2
    <2>5. g = [n \in 0 .. m + 1 |-> Gathered(g, lines, places, n)]
        BY <2>3, <2>4
    <2> QED BY <2>5
<1>3. 0 .. N \subseteq S
    <2> HIDE DEF S
    <2> QED BY <1>1, <1>2, Induction
<1>4. N \in S
    BY <1>3
<1>5. PICK g : g = [n \in 0 .. N |-> Gathered(g, lines, places, n)]
    BY <1>4
<1>6. \A n \in 0 .. N : g[n] = Gathered(g, lines, places, n)
    BY <1>5
<1> QED
    BY <1>5, <1>6 DEF Gathers

LEMMA PickedBy ==
    ASSUME NEW lines, IsSeq(lines), NEW places
    PROVE  \E g : /\ g[0] = <<>> /\ Picked(lines, places) = g[Len(lines)]
                  /\ \A n \in 1 .. Len(lines) :
                        g[n] = IF n \in places THEN Append(g[n - 1], lines[n]) ELSE g[n - 1]
<1>1. PICK N \in Nat : N = Len(lines)
    BY SeqIs
<1>2. \E g : g = [n \in 0 .. N |-> Gathered(g, lines, places, n)]
    <2>1. PICK g : Gathers(g, lines, places, N)
        BY GatheredIs
    <2>2. g = [n \in 0 .. N |-> Gathered(g, lines, places, n)]
        BY ONLY <2>1 DEF Gathers
    <2> QED BY <2>2
<1>3. PICK g : /\ g = CHOOSE h : h = [n \in 0 .. N |-> Gathered(h, lines, places, n)]
               /\ g = [n \in 0 .. N |-> Gathered(g, lines, places, n)]
    BY <1>2
<1>4. Picked(lines, places) =
         (CHOOSE h : h = [n \in 0 .. N |->
             IF n = 0 THEN <<>>
             ELSE IF n \in places THEN Append(h[n - 1], lines[n]) ELSE h[n - 1]])[N]
    BY <1>1 DEF Picked
<1>5. Picked(lines, places) = g[N]
    BY <1>3, <1>4 DEF Gathered
<1>6. \A n \in 0 .. N : g[n] = Gathered(g, lines, places, n)
    BY <1>3
<1>7. g[0] = <<>>
    BY <1>1, <1>6 DEF Gathered
<1>8. \A n \in 1 .. N :
         g[n] = IF n \in places THEN Append(g[n - 1], lines[n]) ELSE g[n - 1]
    BY <1>1, <1>6 DEF Gathered
<1> QED
    BY <1>1, <1>5, <1>7, <1>8

(* What is picked is a sequence of lines at these places.                  *)
LEMMA PickedIs ==
    ASSUME NEW lines, IsSeq(lines), NEW places
    PROVE  /\ IsSeq(Picked(lines, places))
           /\ \A i \in 1 .. Len(Picked(lines, places)) :
                 \E p \in 1 .. Len(lines) : p \in places /\ Picked(lines, places)[i] = lines[p]
<1>1. PICK N \in Nat : N = Len(lines)
    BY SeqIs
<1>2. PICK g : /\ g[0] = <<>> /\ Picked(lines, places) = g[N]
               /\ \A n \in 1 .. N :
                     g[n] = IF n \in places THEN Append(g[n - 1], lines[n]) ELSE g[n - 1]
    BY <1>1, PickedBy
<1> DEFINE Drawn(s) == \A i \in 1 .. Len(s) : \E p \in 1 .. N : p \in places /\ s[i] = lines[p]
           S == {n \in 0 .. N : IsSeq(g[n]) /\ Drawn(g[n])}
<1>3. 0 \in S
    <2>1. Len(<<>>) = 0 /\ 0 \in 0 .. N
        BY NoneIsSeq
    <2>2. Drawn(<<>>)
        BY <2>1
    <2> HIDE DEF Drawn
    <2> QED BY <1>2, <2>1, <2>2, NoneIsSeq
<1>4. ASSUME NEW n \in 0 .. N - 1, n \in S PROVE n + 1 \in S
    <2>1. n + 1 \in 1 .. N /\ n + 1 \in 0 .. N /\ n + 1 - 1 = n
        OBVIOUS
    <2>2. PICK s, t : s = g[n] /\ t = g[n + 1]
        OBVIOUS
    <2>3. IsSeq(s) /\ Drawn(s)
        BY <1>4, <2>2
    <2>4. t = IF n + 1 \in places THEN Append(s, lines[n + 1]) ELSE s
        BY <1>2, <2>1, <2>2
    <2>5. CASE n + 1 \notin places
        <3>1. g[n + 1] = s
            BY <2>2, <2>4, <2>5
        <3> HIDE DEF Drawn
        <3> QED BY <2>1, <2>3, <3>1
    <2>6. CASE n + 1 \in places
        <3>1. PICK k \in Nat : Len(s) = k
            BY <2>3, SeqIs
        <3>2. /\ IsSeq(t) /\ Len(t) = k + 1 /\ t[k + 1] = lines[n + 1]
              /\ \A i \in 1 .. k : t[i] = s[i]
            BY ONLY <2>3, <2>4, <2>6, <3>1, Appended
        <3>3. ASSUME NEW i \in 1 .. Len(t)
              PROVE  \E p \in 1 .. N : p \in places /\ t[i] = lines[p]
            <4>1. i \in 1 .. k \/ i = k + 1
                BY ONLY <3>2, i \in 1 .. Len(t), k \in Nat
            <4>2. CASE i = k + 1
                BY <2>1, <2>6, <3>2, <4>2
            <4>3. CASE i \in 1 .. k
                BY <2>3, <3>1, <3>2, <4>3
            <4> QED BY <4>1, <4>2, <4>3
        <3>4. Drawn(t)
            BY ONLY <3>3
        <3> HIDE DEF Drawn
        <3> QED BY <2>1, <2>2, <3>2, <3>4
    <2> QED BY <2>5, <2>6
<1>5. 0 .. N \subseteq S
    <2> HIDE DEF S
    <2> QED BY <1>3, <1>4, Induction
<1>6. N \in S
    BY <1>5
<1>7. IsSeq(g[N]) /\ Drawn(g[N])
    BY <1>6
<1> QED
    BY ONLY <1>1, <1>2, <1>7

(* The places are those of w lines below line a.                           *)
IsRun(places, n, a, w) == \A i \in 1 .. n : i \in places <=> i \in a + 1 .. a + w

(* A run of lines is picked as it is.                                      *)
LEMMA PickedRun ==
    ASSUME NEW lines, IsSeq(lines), NEW places, NEW a \in Nat, NEW w \in Nat,
           a + w <= Len(lines), IsRun(places, Len(lines), a, w)
    PROVE  /\ IsSeq(Picked(lines, places)) /\ Len(Picked(lines, places)) = w
           /\ \A i \in 1 .. w : Picked(lines, places)[i] = lines[a + i]
<1>1. PICK N \in Nat : N = Len(lines)
    BY SeqIs
<1>2. PICK g : /\ g[0] = <<>> /\ Picked(lines, places) = g[N]
               /\ \A n \in 1 .. N :
                     g[n] = IF n \in places THEN Append(g[n - 1], lines[n]) ELSE g[n - 1]
    BY <1>1, PickedBy
<1> DEFINE Had(n) == IF n <= a THEN 0 ELSE IF n <= a + w THEN n - a ELSE w
           Good(n, s) == /\ IsSeq(s) /\ Len(s) = Had(n)
                         /\ \A i \in 1 .. Had(n) : s[i] = lines[a + i]
           S == {n \in 0 .. N : Good(n, g[n])}
<1>3. 0 \in S
    <2>1. Had(0) = 0 /\ 0 \in 0 .. N
        OBVIOUS
    <2> HIDE DEF Had
    <2>2. Good(0, <<>>)
        BY <2>1, NoneIsSeq
    <2> QED BY <1>2, <2>1, <2>2
<1>4. ASSUME NEW n \in 0 .. N - 1, n \in S PROVE n + 1 \in S
    <2>1. n + 1 \in 1 .. N /\ n + 1 \in 0 .. N /\ n + 1 - 1 = n
        OBVIOUS
    <2>2. PICK s, t : s = g[n] /\ t = g[n + 1]
        OBVIOUS
    <2>3. Good(n, s)
        BY <1>4, <2>2
    <2>4. t = IF n + 1 \in places THEN Append(s, lines[n + 1]) ELSE s
        BY <1>2, <2>1, <2>2
    <2>5. n + 1 \in places <=> n + 1 \in a + 1 .. a + w
        BY <1>1, <2>1 DEF IsRun
    <2>6. CASE n + 1 \notin places
        <3>1. Had(n + 1) = Had(n) /\ t = s
            BY <2>4, <2>5, <2>6
        <3> HIDE DEF Had
        <3>2. Good(n + 1, t)
            BY <2>3, <3>1
        <3> QED BY <2>1, <2>2, <3>2
    <2>7. CASE n + 1 \in places
        <3>1. PICK k \in Nat : /\ Had(n) = k /\ Had(n + 1) = k + 1 /\ k = n - a
                               /\ a + (k + 1) = n + 1
            BY <2>5, <2>7
        <3> HIDE DEF Had
        <3>2. IsSeq(s) /\ Len(s) = k /\ \A i \in 1 .. k : s[i] = lines[a + i]
            BY ONLY <2>3, <3>1
        <3>3. /\ IsSeq(t) /\ Len(t) = k + 1 /\ t[k + 1] = lines[n + 1]
              /\ \A i \in 1 .. k : t[i] = s[i]
            <4>1. t = Append(s, lines[n + 1])
                BY ONLY <2>4, <2>7
            <4> QED BY ONLY <3>2, <4>1, Appended
        <3>4. ASSUME NEW i \in 1 .. k + 1 PROVE t[i] = lines[a + i]
            <4>1. i \in 1 .. k \/ i = k + 1
                BY ONLY i \in 1 .. k + 1, k \in Nat
            <4> QED BY ONLY <3>1, <3>2, <3>3, <4>1, Zenon
        <3>5. Good(n + 1, t)
            BY ONLY <3>1, <3>3, <3>4
        <3> QED BY <2>1, <2>2, <3>5
    <2> QED BY <2>6, <2>7
<1>5. 0 .. N \subseteq S
    <2> HIDE DEF S
    <2> QED BY <1>3, <1>4, Induction
<1>6. Good(N, g[N])
    <2>1. N \in S
        BY <1>5
    <2> QED BY <2>1
<1>7. Had(N) = w
    BY <1>1
<1> HIDE DEF Had
<1> QED
    BY ONLY <1>2, <1>6, <1>7

(* The first place of what is looked for.                                  *)
LEMMA LeastIs ==
    ASSUME NEW S, S \subseteq Nat, S # {}
    PROVE  Min(S) \in S
<1>1. \E n \in S : \A m \in S : n <= m
    BY LeastNatural
<1> QED
    BY <1>1 DEF Min

LEMMA GreatestIs ==
    ASSUME NEW S, S \subseteq Nat, NEW n \in S, \A m \in S : m <= n
    PROVE  Max(S) = n
<1>1. Max(S) \in S /\ \A m \in S : m <= Max(S)
    BY DEF Max
<1>2. n <= Max(S) /\ Max(S) <= n /\ n \in Nat /\ Max(S) \in Nat
    BY <1>1
<1> QED
    BY <1>2

LEMMA IndexIs ==
    ASSUME NEW cells, IsSeq(cells), NEW k \in 1 .. Len(cells)
    PROVE  Index(cells, cells[k].id) \in 1 .. Len(cells)
           /\ cells[Index(cells, cells[k].id)].id = cells[k].id
<1> DEFINE S == {i \in 1 .. Len(cells) : cells[i].id = cells[k].id}
<1>1. Len(cells) \in Nat
    BY SeqIs
<1>2. S \subseteq Nat /\ k \in S
    BY <1>1
<1>3. Index(cells, cells[k].id) = IF S # {} THEN Min(S) ELSE 0
    BY DEF Index, SelectInSeq
<1>4. Index(cells, cells[k].id) \in S
    <2> HIDE DEF S
    <2> QED BY <1>2, <1>3, LeastIs
<1> QED
    BY <1>4

-----------------------------------------------------------------------------
(* The way back: the text of a notebook, distributed, is the notebook.     *)

CodeIds(cells) == {cells[i].id : i \in {j \in 1 .. Len(cells) : IsCode(cells, j)}}

BuildOf(cells) ==
    [lineProvenance |-> buildMirror(cells).lineProvenance,
     cellRegions |-> buildMirror(cells).cellRegions]

(* A source: lines, of which none is a marker.                             *)
Plain(s) == IsSeq(s) /\ \A i \in 1 .. Len(s) : s[i][1] # "marker"
IsSource(s) == Plain(s) /\ s # <<>>

(* The cells of a notebook, or of a snapshot of it: ids differ.            *)
IsBook(cells) ==
    /\ IsSeq(cells)
    /\ \A i \in 1 .. Len(cells) : cells[i].id \in Ids /\ IsSource(cells[i].source)
    /\ \A i, j \in 1 .. Len(cells) : cells[i].id = cells[j].id => i = j

LEMMA BookHasSources == ASSUME NEW cells, IsBook(cells) PROVE HasSources(cells)
BY DEF IsBook, HasSources, IsSource, Plain

LEMMA IndexOf ==
    ASSUME NEW cells, IsBook(cells), NEW k \in 1 .. Len(cells)
    PROVE  Index(cells, cells[k].id) = k
BY IndexIs DEF IsBook

LEMMA MarkerIs ==
    \A id : Marker(id)[1] = "marker" /\ Marker(id)[2] = id
BY DEF Marker

LEMMA HeaderIs == \A i \in 1 .. 2 : SUPPRESSION_HEADER[i][1] = "header"
BY DEF SUPPRESSION_HEADER

(* The blocks of code cells come one below the other.                      *)
LEMMA BlocksInOrder ==
    ASSUME NEW f, NEW cells, HasSources(cells),
           \A n \in 0 .. Len(cells) : Layout(f, cells, n),
           NEW k \in 1 .. Len(cells), NEW j \in 1 .. Len(cells), k < j, IsCode(cells, k)
    PROVE  Place(f, k) + Len(cells[k].source) < Place(f, j)
<1>1. j - 1 \in 0 .. Len(cells) /\ k \in 1 .. j - 1
    BY SeqIs DEF HasSources
<1>2. Layout(f, cells, j - 1)
    BY <1>1
<1>3. StandsIn(f, cells, k, f[j - 1])
    BY <1>1, <1>2 DEF Layout
<1>4. PICK p, w, l : p = Place(f, k) /\ w = Len(cells[k].source) /\ l = Len(f[j - 1].lines)
    OBVIOUS
<1>5. w \in Nat
    BY <1>4, SeqIs DEF HasSources
<1>6. l \in Nat
    BY <1>2, <1>4, SeqIs DEF Layout
<1>7. p \in 3 .. l /\ p + w <= l
    BY ONLY <1>3, <1>4, Zenon DEF StandsIn, Stands
<1>8. Place(f, j) = l + 1
    BY <1>4 DEF Place
<1>9. p + w < l + 1
    BY ONLY <1>5, <1>6, <1>7
<1> QED
    BY ONLY <1>4, <1>8, <1>9, Zenon

(* A line is in the block of one cell.                                     *)
LEMMA BlockOfOne ==
    ASSUME NEW f, NEW cells, HasSources(cells),
           \A n \in 0 .. Len(cells) : Layout(f, cells, n),
           NEW k \in 1 .. Len(cells), NEW j \in 1 .. Len(cells),
           IsCode(cells, k), IsCode(cells, j), NEW i \in Nat,
           Inside(f, cells, k, i), Inside(f, cells, j, i)
    PROVE  k = j
<1>1. \A n \in 1 .. Len(cells) : IsCode(cells, n) =>
         Place(f, n) \in Nat /\ Len(cells[n].source) \in Nat
    <2> SUFFICES ASSUME NEW n \in 1 .. Len(cells), IsCode(cells, n)
                 PROVE  Place(f, n) \in Nat /\ Len(cells[n].source) \in Nat
        OBVIOUS
    <2>1. n - 1 \in 0 .. Len(cells)
        BY SeqIs DEF HasSources
    <2>2. IsSeq(f[n - 1].lines)
        BY <2>1 DEF Layout
    <2>3. Len(f[n - 1].lines) \in Nat
        BY <2>2, SeqIs
    <2>4. Place(f, n) \in Nat
        BY <2>3 DEF Place
    <2> QED BY <2>4, SeqIs DEF HasSources
<1>2. PICK p, q, v, w : /\ p = Place(f, k) /\ q = Place(f, j)
                        /\ v = Len(cells[k].source) /\ w = Len(cells[j].source)
    OBVIOUS
<1>3. p \in Nat /\ q \in Nat /\ v \in Nat /\ w \in Nat
    BY <1>1, <1>2
<1>4. p <= i /\ i <= p + v /\ q <= i /\ i <= q + w
    BY <1>2 DEF Inside
<1>5. k < j => p + v < q
    BY <1>2, BlocksInOrder
<1>6. j < k => q + w < p
    BY <1>2, BlocksInOrder
<1>7. k \in Nat /\ j \in Nat
    BY SeqIs DEF HasSources
<1> QED
    BY ONLY <1>3, <1>4, <1>5, <1>6, <1>7, i \in Nat

(* Which lines of the text are markers.                                    *)
LEMMA MarkersOfText ==
    ASSUME NEW f, NEW cells, IsBook(cells),
           \A n \in 0 .. Len(cells) : Layout(f, cells, n),
           NEW lines, lines = f[Len(cells)].lines, NEW j \in 1 .. Len(lines)
    PROVE  lines[j][1] = "marker" <=>
              \E k \in 1 .. Len(cells) : IsCode(cells, k) /\ j = Place(f, k)
<1>1. Len(cells) \in Nat /\ HasSources(cells)
    BY SeqIs, BookHasSources DEF IsBook
<1>2. PICK m : m = f[Len(cells)] /\ Layout(f, cells, Len(cells)) /\ lines = m.lines
    BY <1>1
<1>3. ASSUME NEW k \in 1 .. Len(cells), IsCode(cells, k)
      PROVE  /\ lines[Place(f, k)][1] = "marker"
             /\ \A i \in 1 .. Len(cells[k].source) : lines[Place(f, k) + i][1] # "marker"
    <2>1. StandsIn(f, cells, k, m)
        BY <1>2, <1>3 DEF Layout
    <2>2. /\ lines[Place(f, k)] = Marker(cells[k].id)
          /\ \A i \in 1 .. Len(cells[k].source) :
                lines[Place(f, k) + i] = normalizeCell(cells[k].source).lines[i]
        BY ONLY <1>2, <2>1, Zenon DEF StandsIn, Stands
    <2>3. /\ IsSeq(cells[k].source)
          /\ \A i \in 1 .. Len(cells[k].source) : cells[k].source[i][1] # "marker"
        BY DEF IsBook, IsSource, Plain
    <2>4. \A i \in 1 .. Len(cells[k].source) :
             normalizeCell(cells[k].source).lines[i][1] # "marker"
        BY ONLY <2>3, Normalized
    <2> QED BY ONLY <2>2, <2>4, MarkerIs
<1>4. CASE j \in 1 .. 2
    <2>1. lines[j][1] # "marker"
        BY <1>2, <1>4, HeaderIs DEF Layout
    <2> QED BY <1>3, <2>1
<1>5. CASE j \notin 1 .. 2
    <2>1. Len(lines) \in Nat
        BY <1>2, SeqIs DEF Layout
    <2>2. j \in 3 .. Len(lines)
        BY ONLY <1>5, <2>1, j \in 1 .. Len(lines)
    <2>3. PICK k \in 1 .. Len(cells) : IsCode(cells, k) /\ Inside(f, cells, k, j)
        BY <1>2, <2>2 DEF Layout
    <2>4. j = Place(f, k) \/ \E i \in 1 .. Len(cells[k].source) : j = Place(f, k) + i
        <3>1. PICK p, w : p = Place(f, k) /\ w = Len(cells[k].source)
            OBVIOUS
        <3>2. p <= j /\ j <= p + w
            BY <2>3, <3>1 DEF Inside
        <3>3. StandsIn(f, cells, k, m)
            BY <1>2, <2>3 DEF Layout
        <3>4. p \in 3 .. Len(lines)
            BY ONLY <1>2, <3>1, <3>3, Zenon DEF StandsIn, Stands
        <3>5. w \in Nat
            BY <1>1, <3>1, SeqIs DEF HasSources
        <3>6. j = p \/ (j - p \in 1 .. w /\ j = p + (j - p))
            BY ONLY <2>1, <2>2, <3>2, <3>4, <3>5
        <3> QED BY ONLY <3>1, <3>6
    <2>5. CASE j = Place(f, k)
        BY <1>3, <2>3, <2>5
    <2>6. CASE j # Place(f, k)
        <3>1. lines[j][1] # "marker"
            BY <1>3, <2>3, <2>4, <2>6
        <3> QED BY <1>3, <3>1
    <2> QED BY <2>5, <2>6
<1> QED
    BY <1>4, <1>5

(* The region that is found for an id is of that id.                       *)
LEMMA RegionIs ==
    ASSUME NEW m, NEW regions, regions = m.cellRegions, IsSeq(regions), NEW id,
           \E r \in 1 .. Len(regions) : regions[r].cellId = id
    PROVE  \E r \in 1 .. Len(regions) : RegionOf(m, id) = regions[r] /\ regions[r].cellId = id
<1> DEFINE S == {r \in 1 .. Len(regions) : regions[r].cellId = id}
           found == SelectInSeq(m.cellRegions, LAMBDA q : q.cellId = id)
<1>1. Len(regions) \in Nat
    BY SeqIs
<1>2. S \subseteq Nat /\ S # {}
    BY <1>1
<1>3. found = IF S # {} THEN Min(S) ELSE 0
    BY DEF SelectInSeq
<1>4. RegionOf(m, id) = regions[found]
    BY DEF RegionOf
<1>5. found \in S
    <2> HIDE DEF S, found
    <2> QED BY <1>2, <1>3, LeastIs
<1> HIDE DEF found
<1> QED
    BY <1>4, <1>5

(* Where the blocks of the code cells open.                                *)
Openings(f, cells) == {Place(f, k) : k \in {j \in 1 .. Len(cells) : IsCode(cells, j)}}

(* Everything about the text of a book: where its cells stand, which lines *)
(* open a block, and which cells the regions name.                         *)
TextOf(cells, f, m) ==
    /\ m = f[Len(cells)] /\ m = buildMirror(cells)
    /\ \A n \in 0 .. Len(cells) : Layout(f, cells, n)

LEMMA KnownIs ==
    ASSUME NEW cells, IsBook(cells)
    PROVE  KnownCells(BuildOf(cells)) = CodeIds(cells)
<1>1. PICK f : /\ \A n \in 0 .. Len(cells) : Layout(f, cells, n)
               /\ buildMirror(cells) = f[Len(cells)]
    BY BookHasSources, LayoutIs
<1>2. PICK m, regions : /\ m = f[Len(cells)] /\ regions = m.cellRegions
                        /\ BuildOf(cells).cellRegions = regions
    BY <1>1 DEF BuildOf
<1>3. Layout(f, cells, Len(cells))
    BY <1>1, SeqIs DEF IsBook
<1>4. DOMAIN regions = 1 .. Len(regions)
    BY <1>2, <1>3, SeqIs DEF Layout
<1>5. \A k : Region(f, cells, k).cellId = cells[k].id
    BY DEF Region
<1>6. ASSUME NEW r \in 1 .. Len(regions) PROVE regions[r].cellId \in CodeIds(cells)
    <2>1. PICK k \in 1 .. Len(cells) : IsCode(cells, k) /\ regions[r] = Region(f, cells, k)
        BY <1>2, <1>3 DEF Layout
    <2> QED BY <1>5, <2>1 DEF CodeIds
<1>7. ASSUME NEW id \in CodeIds(cells) PROVE \E r \in 1 .. Len(regions) : regions[r].cellId = id
    <2>1. PICK k \in 1 .. Len(cells) : IsCode(cells, k) /\ cells[k].id = id
        BY DEF CodeIds
    <2>2. StandsIn(f, cells, k, m)
        BY <1>2, <1>3, <2>1 DEF Layout
    <2>3. \E r \in 1 .. Len(regions) : regions[r] = Region(f, cells, k)
        BY ONLY <1>2, <2>2, Zenon DEF StandsIn, Stands
    <2> QED BY <1>5, <2>1, <2>3
<1>8. KnownCells(BuildOf(cells)) = {regions[r].cellId : r \in 1 .. Len(regions)}
    BY <1>2, <1>4, Zenon DEF KnownCells
<1> QED
    BY ONLY <1>6, <1>7, <1>8

(* The lines that open a block are the markers of the code cells.          *)
LEMMA OpeningIs ==
    ASSUME NEW cells, IsBook(cells), NEW f, NEW m, TextOf(cells, f, m)
    PROVE  Opening(m.lines, BuildOf(cells)) = Openings(f, cells)
<1>1. PICK lines : /\ lines = m.lines /\ IsSeq(lines)
                   /\ Layout(f, cells, Len(cells)) /\ lines = f[Len(cells)].lines
    <2>1. Len(cells) \in 0 .. Len(cells)
        BY SeqIs DEF IsBook
    <2>2. Layout(f, cells, Len(cells)) /\ m = f[Len(cells)]
        BY <2>1 DEF TextOf
    <2>3. IsSeq(f[Len(cells)].lines)
        BY <2>2 DEF Layout
    <2> QED BY ONLY <2>2, <2>3
<1>2. DOMAIN lines = 1 .. Len(lines)
    BY <1>1, SeqIs
<1>3. Opening(m.lines, BuildOf(cells)) =
         {i \in 1 .. Len(lines) : lines[i][1] = "marker" /\ lines[i][2] \in CodeIds(cells)}
    BY <1>1, <1>2, KnownIs DEF Opening
<1>4. ASSUME NEW k \in 1 .. Len(cells), IsCode(cells, k)
      PROVE  Place(f, k) \in 1 .. Len(lines) /\ lines[Place(f, k)] = Marker(cells[k].id)
    <2>1. StandsIn(f, cells, k, m)
        BY <1>4, <1>1 DEF Layout, TextOf
    <2>2. /\ Place(f, k) \in 3 .. Len(lines) /\ lines[Place(f, k)] = Marker(cells[k].id)
        BY ONLY <1>1, <2>1, Zenon DEF StandsIn, Stands
    <2>3. Len(lines) \in Nat
        BY <1>1, SeqIs
    <2> QED BY ONLY <2>2, <2>3
<1>5. ASSUME NEW i \in 1 .. Len(lines)
      PROVE  (lines[i][1] = "marker" /\ lines[i][2] \in CodeIds(cells)) <=>
             \E k \in 1 .. Len(cells) : IsCode(cells, k) /\ i = Place(f, k)
    <2>1. lines[i][1] = "marker" <=> \E k \in 1 .. Len(cells) : IsCode(cells, k) /\ i = Place(f, k)
        BY <1>1, MarkersOfText DEF TextOf
    <2>2. ASSUME NEW k \in 1 .. Len(cells), IsCode(cells, k), i = Place(f, k)
          PROVE  lines[i][2] \in CodeIds(cells)
        BY <1>4, <2>2, MarkerIs DEF CodeIds
    <2> QED BY <2>1, <2>2
<1> QED
    BY ONLY <1>3, <1>4, <1>5 DEF Openings

(* The block of a line is that of the cell the line stands in, and the     *)
(* header is in none.                                                      *)
LEMMA OpenedByIs ==
    ASSUME NEW cells, IsBook(cells), NEW f, NEW m, TextOf(cells, f, m),
           NEW opening, opening = Openings(f, cells)
    PROVE  /\ \A i \in 1 .. 2 : OpenedBy(opening, i) = 0
           /\ \A k \in 1 .. Len(cells), i \in 1 .. Len(m.lines) :
                 IsCode(cells, k) /\ Inside(f, cells, k, i) => OpenedBy(opening, i) = Place(f, k)
<1>1. HasSources(cells) /\ \A n \in 0 .. Len(cells) : Layout(f, cells, n)
    BY BookHasSources DEF TextOf
<1>2. Layout(f, cells, Len(cells)) /\ m = f[Len(cells)]
    BY <1>1, SeqIs DEF TextOf, IsBook
<1>3. PICK l \in Nat : Len(m.lines) = l
    BY <1>2, SeqIs DEF Layout
<1>4. \A k \in 1 .. Len(cells) : IsCode(cells, k) =>
         Place(f, k) \in 3 .. l /\ Len(cells[k].source) \in Nat
    <2> SUFFICES ASSUME NEW k \in 1 .. Len(cells), IsCode(cells, k)
                 PROVE  Place(f, k) \in 3 .. l /\ Len(cells[k].source) \in Nat
        OBVIOUS
    <2>1. StandsIn(f, cells, k, m)
        BY <1>2 DEF Layout
    <2>2. Place(f, k) \in 3 .. l
        BY ONLY <1>3, <2>1, Zenon DEF StandsIn, Stands
    <2> QED BY <1>1, <2>2, SeqIs DEF HasSources
<1>5. opening \subseteq 3 .. l
    BY <1>4 DEF Openings
<1>6. ASSUME NEW i \in 1 .. 2 PROVE OpenedBy(opening, i) = 0
    <2>1. {j \in opening : j <= i} = {}
        <3>1. ASSUME NEW j \in opening PROVE ~ (j <= i)
            BY ONLY <1>5, i \in 1 .. 2, l \in Nat, j \in opening
        <3> QED BY ONLY <3>1
    <2>2. {0} \cup {} = {0} /\ {0} \subseteq Nat /\ \A j \in {0} : j <= 0
        OBVIOUS
    <2>3. Max({0}) = 0
        BY <2>2, GreatestIs
    <2> QED BY ONLY <2>1, <2>2, <2>3 DEF OpenedBy
<1>7. ASSUME NEW k \in 1 .. Len(cells), NEW i \in 1 .. Len(m.lines), IsCode(cells, k),
             Inside(f, cells, k, i)
      PROVE  OpenedBy(opening, i) = Place(f, k)
    <2>1. PICK p, w : /\ p = Place(f, k) /\ w = Len(cells[k].source)
                      /\ p \in 3 .. l /\ w \in Nat /\ p <= i /\ i <= p + w
        BY <1>4, <1>7, Zenon DEF Inside
    <2> DEFINE S == {0} \cup {j \in opening : j <= i}
    <2>2. S \subseteq Nat /\ p \in S
        BY <1>5, <1>7, <2>1, SMTT(30) DEF Openings
    <2>3. ASSUME NEW j \in S PROVE j <= p
        <3>1. CASE j = 0
            BY <2>1, <3>1
        <3>2. CASE j # 0
            <4>1. PICK n \in 1 .. Len(cells) : IsCode(cells, n) /\ j = Place(f, n) /\ j <= i
                BY <2>3, <3>2 DEF Openings
            <4>2. k < n => p + w < j
                BY <1>1, <1>7, <2>1, <4>1, BlocksInOrder
            <4>3. n < k => j + Len(cells[n].source) < p
                BY <1>1, <2>1, <4>1, BlocksInOrder
            <4>4. Len(cells[n].source) \in Nat /\ j \in 3 .. l
                BY <1>4, <4>1
            <4>5. n = k => j = p
                BY <2>1, <4>1
            <4>6. n \in Nat /\ k \in Nat
                BY SeqIs DEF IsBook
            <4>7. i \in Nat
                BY <1>3
            <4>8. PICK v : v = Len(cells[n].source)
                OBVIOUS
            <4>9. j + v < p \/ n >= k
                BY ONLY <4>3, <4>6, <4>8
            <4>10. p \in 3 .. l /\ w \in Nat /\ j <= i /\ v \in Nat
                BY ONLY <2>1, <4>1, <4>4, <4>8, Zenon
            <4>11. j \in Nat /\ p \in Nat
                BY ONLY <4>4, <4>10, l \in Nat
            <4>12. CASE n < k
                BY ONLY <4>6, <4>9, <4>10, <4>11, <4>12
            <4>13. CASE n = k
                BY ONLY <4>5, <4>11, <4>13
            <4>14. CASE k < n
                <5>1. p + w < j /\ i <= p + w
                    BY ONLY <2>1, <4>2, <4>14, Zenon
                <5> QED BY ONLY <4>7, <4>10, <4>11, <5>1
            <4> QED BY ONLY <4>6, <4>12, <4>13, <4>14
        <3> QED BY ONLY <3>1, <3>2
    <2>4. OpenedBy(opening, i) = Max(S)
        BY DEF OpenedBy
    <2> HIDE DEF S
    <2> QED BY <2>1, <2>2, <2>3, <2>4, GreatestIs
<1> QED
    BY ONLY <1>6, <1>7

LEMMA OpenedByCell ==
    ASSUME NEW cells, IsBook(cells), NEW f, NEW m, TextOf(cells, f, m),
           NEW opening, opening = Openings(f, cells),
           NEW k \in 1 .. Len(cells), NEW i \in 1 .. Len(m.lines),
           IsCode(cells, k), Inside(f, cells, k, i)
    PROVE  OpenedBy(opening, i) = Place(f, k)
BY OpenedByIs

LEMMA NoneBefore == ASSUME NEW s, IsSeq(s) PROVE <<>> \o s = s
<1>1. PICK S : s \in Seq(S)
    BY DEF IsSeq
<1> QED
    BY <1>1

LEMMA TextIs ==
    ASSUME NEW cells, IsBook(cells)
    PROVE  \E f, m : TextOf(cells, f, m)
BY BookHasSources, LayoutIs DEF TextOf

LEMMA LinesOf ==
    ASSUME NEW cells, IsBook(cells), NEW f, NEW m, TextOf(cells, f, m)
    PROVE  /\ IsSeq(m.lines) /\ IsSeq(m.lineProvenance) /\ IsSeq(m.cellRegions)
           /\ Len(m.lines) \in Nat /\ Len(m.lines) >= 2
           /\ Len(m.lineProvenance) = Len(m.lines)
           /\ \A i \in 1 .. 2 : m.lines[i] = SUPPRESSION_HEADER[i]
           /\ \A i \in 3 .. Len(m.lines) : \E k \in 1 .. Len(cells) :
                 IsCode(cells, k) /\ Inside(f, cells, k, i)
<1>1. Len(cells) \in 0 .. Len(cells)
    BY SeqIs DEF IsBook
<1>2. Layout(f, cells, Len(cells)) /\ m = f[Len(cells)]
    BY <1>1 DEF TextOf
<1>3. IsSeq(m.lines)
    BY <1>2 DEF Layout
<1>4. Len(m.lines) \in Nat
    BY <1>3, SeqIs
<1> QED
    BY ONLY <1>2, <1>4, Zenon DEF Layout

LEMMA CellStands ==
    ASSUME NEW cells, IsBook(cells), NEW f, NEW m, TextOf(cells, f, m),
           NEW k \in 1 .. Len(cells), IsCode(cells, k)
    PROVE  /\ Place(f, k) \in 3 .. Len(m.lines) /\ Len(cells[k].source) \in Nat
           /\ Place(f, k) + Len(cells[k].source) <= Len(m.lines)
           /\ m.lines[Place(f, k)] = Marker(cells[k].id)
           /\ \A i \in 1 .. Len(cells[k].source) :
                 /\ m.lines[Place(f, k) + i] = normalizeCell(cells[k].source).lines[i]
                 /\ m.lineProvenance[Place(f, k) + i] = normalizeCell(cells[k].source).provenance[i]
           /\ \E r \in 1 .. Len(m.cellRegions) : m.cellRegions[r] = Region(f, cells, k)
<1>1. Len(cells) \in 0 .. Len(cells)
    BY SeqIs DEF IsBook
<1>2. Layout(f, cells, Len(cells)) /\ m = f[Len(cells)]
    BY <1>1 DEF TextOf
<1>3. StandsIn(f, cells, k, m)
    BY <1>2 DEF Layout
<1>4. Len(cells[k].source) \in Nat
    BY SeqIs, BookHasSources DEF HasSources
<1> QED
    BY ONLY <1>3, <1>4, Zenon DEF StandsIn, Stands

LEMMA EmptyIs == ASSUME NEW s, IsSeq(s), Len(s) = 0 PROVE s = <<>>
<1>1. PICK S : s \in Seq(S)
    BY DEF IsSeq
<1> QED
    BY <1>1

(* The lines of a cell, and what stands above the first block.             *)
LEMMA OwnPlaces ==
    ASSUME NEW cells, IsBook(cells), NEW f, NEW m, TextOf(cells, f, m),
           NEW k \in 1 .. Len(cells), IsCode(cells, k),
           NEW opening, opening = Opening(m.lines, BuildOf(cells)),
           NEW i \in 1 .. Len(m.lines)
    PROVE  /\ (/\ i \notin opening /\ OpenedBy(opening, i) # 0
               /\ m.lines[OpenedBy(opening, i)] = Marker(cells[k].id))
                  <=> i \in Place(f, k) + 1 .. Place(f, k) + Len(cells[k].source)
           /\ OpenedBy(opening, i) = 0 => i \in 1 .. 2
<1>1. /\ HasSources(cells) /\ \A n \in 0 .. Len(cells) : Layout(f, cells, n)
      /\ opening = Openings(f, cells)
    BY BookHasSources, OpeningIs DEF TextOf
<1>2. PICK lines, p, w, l :
         /\ lines = m.lines /\ p = Place(f, k) /\ w = Len(cells[k].source) /\ l = Len(lines)
    OBVIOUS
<1>3. IsSeq(lines) /\ l \in Nat
    BY <1>2, LinesOf
<1>4. \A j \in 1 .. Len(cells) : IsCode(cells, j) =>
         /\ Place(f, j) \in 3 .. l /\ lines[Place(f, j)] = Marker(cells[j].id)
         /\ Len(cells[j].source) \in Nat
    BY <1>2, CellStands
<1>5. p \in 3 .. l /\ w \in Nat /\ lines[p] = Marker(cells[k].id) /\ p \in opening
    BY <1>1, <1>2, <1>4 DEF Openings
<1>6. i \in 1 .. l /\ i \in Nat
    BY <1>2, <1>3
<1>7. CASE i \in 1 .. 2
    <2>1. OpenedBy(opening, i) = 0
        BY <1>1, <1>7, OpenedByIs
    <2>2. i \notin p + 1 .. p + w
        BY ONLY <1>3, <1>5, <1>7
    <2> QED BY ONLY <1>2, <1>7, <2>1, <2>2, Zenon
<1>8. CASE i \notin 1 .. 2
    <2>1. i \in 3 .. l
        BY ONLY <1>3, <1>6, <1>8
    <2>2. PICK j \in 1 .. Len(cells) : IsCode(cells, j) /\ Inside(f, cells, j, i)
        BY <1>2, <2>1, LinesOf
    <2>3. OpenedBy(opening, i) = Place(f, j)
        BY <1>1, <2>2, OpenedByCell
    <2>4. Place(f, j) # 0
        BY <1>4, <2>2
    <2>5. j = k <=> lines[Place(f, j)] = Marker(cells[k].id)
        <3>1. lines[Place(f, j)] = Marker(cells[j].id)
            BY <1>4, <2>2
        <3>2. Marker(cells[j].id) = Marker(cells[k].id) => cells[j].id = cells[k].id
            BY MarkerIs
        <3>3. cells[j].id = cells[k].id => j = k
            BY DEF IsBook
        <3> QED BY ONLY <3>1, <3>2, <3>3
    <2>6. ASSUME i \in opening PROVE i = Place(f, j)
        <3>1. PICK n \in 1 .. Len(cells) : IsCode(cells, n) /\ i = Place(f, n)
            BY <1>1, <2>6 DEF Openings
        <3>2. Inside(f, cells, n, i)
            <4>1. PICK v : v = Len(cells[n].source)
                OBVIOUS
            <4>2. v \in Nat
                BY <1>4, <3>1, <4>1
            <4>3. i <= i /\ i <= i + v
                BY ONLY <1>6, <4>2
            <4> QED BY ONLY <3>1, <4>1, <4>3, Zenon DEF Inside
        <3>3. n = j
            BY <1>1, <1>6, <2>2, <3>1, <3>2, BlockOfOne
        <3> QED BY ONLY <3>1, <3>3
    <2>7. CASE j = k
        <3>1. p <= i /\ i <= p + w
            BY <1>2, <2>2, <2>7 DEF Inside
        <3>2. i # p <=> i \in p + 1 .. p + w
            BY ONLY <1>3, <1>5, <1>6, <3>1
        <3>3. i \notin opening <=> i # p
            BY ONLY <1>2, <1>5, <2>6, <2>7, Zenon
        <3> QED BY ONLY <1>2, <2>3, <2>4, <2>5, <2>7, <3>2, <3>3, Zenon
    <2>8. CASE j # k
        <3>1. ASSUME i \in p + 1 .. p + w PROVE FALSE
            <4>1. p <= i /\ i <= p + w
                BY ONLY <1>3, <1>5, <1>6, <3>1
            <4>2. Inside(f, cells, k, i)
                BY <1>2, <4>1 DEF Inside
            <4> QED BY <1>1, <1>6, <2>2, <2>8, <4>2, BlockOfOne
        <3> QED BY ONLY <1>2, <2>3, <2>4, <2>5, <2>8, <3>1, Zenon
    <2> QED BY ONLY <2>7, <2>8
<1> QED
    BY ONLY <1>7, <1>8

(* What goes back to a code cell is its source.                            *)
LEMMA BlockIs ==
    ASSUME NEW cells, IsBook(cells), NEW f, NEW m, TextOf(cells, f, m),
           NEW k \in 1 .. Len(cells), IsCode(cells, k),
           NEW opening, opening = Opening(m.lines, BuildOf(cells)),
           NEW block, block = BlockOf(m.lines, opening, cells[k].id)
    PROVE  /\ IsSeq(block) /\ Len(block) = Len(cells[k].source)
           /\ \A i \in 1 .. Len(cells[k].source) :
                 block[i] = normalizeCell(cells[k].source).lines[i]
<1>1. PICK lines, p, w, id :
         /\ lines = m.lines /\ p = Place(f, k) /\ w = Len(cells[k].source)
         /\ id = cells[k].id
    OBVIOUS
<1>2. IsSeq(lines) /\ DOMAIN lines = 1 .. Len(lines) /\ Len(lines) \in Nat
    BY <1>1, LinesOf, SeqIs
<1>3. p \in 3 .. Len(lines) /\ w \in Nat /\ p + w <= Len(lines)
    BY <1>1, CellStands
<1> DEFINE S == {i \in DOMAIN lines \ opening :
                    LET o == OpenedBy(opening, i) IN o # 0 /\ lines[o] = Marker(id)}
           T == {i \in DOMAIN lines : /\ OpenedBy(opening, i) = 0
                                      /\ lines[i] \notin Range(SUPPRESSION_HEADER)}
<1>4. \A i \in 1 .. Len(lines) : i \in S <=> i \in p + 1 .. p + w
    <2> SUFFICES ASSUME NEW i \in 1 .. Len(lines) PROVE i \in S <=> i \in p + 1 .. p + w
        OBVIOUS
    <2>1. (/\ i \notin opening /\ OpenedBy(opening, i) # 0
           /\ lines[OpenedBy(opening, i)] = Marker(id)) <=> i \in p + 1 .. p + w
        BY <1>1, OwnPlaces
    <2> QED BY <1>2, <2>1
<1>5. \A i \in 1 .. Len(lines) : i \notin T
    <2> SUFFICES ASSUME NEW i \in 1 .. Len(lines), OpenedBy(opening, i) = 0
                 PROVE  lines[i] \in Range(SUPPRESSION_HEADER)
        BY <1>2
    <2>1. i \in 1 .. 2
        BY <1>1, OwnPlaces
    <2>2. lines[i] = SUPPRESSION_HEADER[i]
        BY <1>1, <2>1, LinesOf
    <2>3. DOMAIN SUPPRESSION_HEADER = 1 .. 2
        BY DEF SUPPRESSION_HEADER
    <2> QED BY <2>1, <2>2, <2>3 DEF Range
<1> HIDE DEF S, T
<1>6. /\ IsSeq(Picked(lines, S)) /\ Len(Picked(lines, S)) = w
      /\ \A i \in 1 .. w : Picked(lines, S)[i] = lines[p + i]
    <2>1. p \in Nat
        BY <1>2, <1>3
    <2>2. w \in Nat /\ p + w <= Len(lines) /\ IsSeq(lines)
        BY <1>2, <1>3
    <2>3. IsRun(S, Len(lines), p, w)
        BY ONLY <1>4 DEF IsRun
    <2> QED BY ONLY <2>1, <2>2, <2>3, PickedRun
<1>7. Picked(lines, T) = <<>>
    <2>1. IsRun(T, Len(lines), 0, 0)
        BY ONLY <1>2, <1>5 DEF IsRun
    <2>2. 0 + 0 <= Len(lines)
        BY <1>2
    <2>3. IsSeq(Picked(lines, T)) /\ Len(Picked(lines, T)) = 0
        BY ONLY <1>2, <2>1, <2>2, PickedRun
    <2> QED BY <2>3, EmptyIs
<1>8. block = Picked(lines, S) \/ block = <<>> \o Picked(lines, S)
    <2>1. Preamble(lines, opening) = Picked(lines, T)
        BY Zenon DEF Preamble, T
    <2> QED BY <1>1, <1>7, <2>1 DEF BlockOf, S
<1>9. block = Picked(lines, S)
    BY <1>6, <1>8, NoneBefore
<1>10. \A i \in 1 .. w : lines[p + i] = normalizeCell(cells[k].source).lines[i]
    BY <1>1, CellStands
<1> QED
    BY ONLY <1>1, <1>6, <1>9, <1>10, Zenon

(* And so is what stood for its lines.                                     *)
LEMMA ProvenanceIs ==
    ASSUME NEW cells, IsBook(cells), NEW f, NEW m, TextOf(cells, f, m),
           NEW k \in 1 .. Len(cells), IsCode(cells, k),
           NEW prov, prov = ProvenanceOf(BuildOf(cells), cells[k].id)
    PROVE  /\ IsSeq(prov) /\ Len(prov) = Len(cells[k].source)
           /\ \A i \in 1 .. Len(cells[k].source) :
                 prov[i] = normalizeCell(cells[k].source).provenance[i]
<1>1. PICK from, regions, p, w, id, l :
         /\ from = m.lineProvenance /\ regions = m.cellRegions
         /\ p = Place(f, k) /\ w = Len(cells[k].source) /\ id = cells[k].id /\ l = Len(m.lines)
    OBVIOUS
<1>2. IsSeq(from) /\ IsSeq(regions) /\ Len(from) = l /\ l \in Nat
    BY <1>1, LinesOf
<1>3. p \in 3 .. l /\ w \in Nat /\ p + w <= l
    BY <1>1, CellStands
<1>4. BuildOf(cells).lineProvenance = from /\ BuildOf(cells).cellRegions = regions
    BY <1>1 DEF BuildOf, TextOf
<1>5. \A j : Region(f, cells, j).cellId = cells[j].id
    BY DEF Region
<1>7. PICK r \in 1 .. Len(regions) : RegionOf(BuildOf(cells), id) = regions[r] /\ regions[r].cellId = id
    <2>1. \E n \in 1 .. Len(regions) : regions[n].cellId = id
        <3>1. \E n \in 1 .. Len(regions) : regions[n] = Region(f, cells, k)
            BY <1>1, CellStands
        <3> QED BY <1>1, <1>5, <3>1
    <2> QED BY <1>2, <1>4, <2>1, RegionIs
<1>8. regions[r] = Region(f, cells, k)
    <2>1. Len(cells) \in 0 .. Len(cells)
        BY SeqIs DEF IsBook
    <2>2. Layout(f, cells, Len(cells)) /\ m = f[Len(cells)]
        BY <2>1 DEF TextOf
    <2>3. PICK j \in 1 .. Len(cells) : regions[r] = Region(f, cells, j)
        BY <1>1, <1>7, <2>2 DEF Layout
    <2>4. j = k
        BY <1>1, <1>5, <1>7, <2>3 DEF IsBook
    <2> QED BY ONLY <2>3, <2>4
<1>9. regions[r].startLine = p /\ regions[r].endLine = p - 1 + w
    BY <1>1, <1>8 DEF Region
<1>10. prov = SubSeq(from, p + 1, p + w)
    <2>1. prov = SubSeq(from, regions[r].startLine + 1, regions[r].endLine + 1)
        BY <1>1, <1>4, <1>7, Zenon DEF ProvenanceOf
    <2>2. p - 1 + w + 1 = p + w
        BY ONLY <1>2, <1>3
    <2> QED BY ONLY <1>9, <2>1, <2>2, Zenon
<1>11. PICK a \in Nat, b \in Nat :
          /\ a = p + 1 /\ b = p + w /\ b - a + 1 = w
          /\ a \in 1 .. l + 1 /\ b \in a - 1 .. l
    BY ONLY <1>2, <1>3
<1>12. \A i \in 1 .. w : a + i - 1 = p + i
    <2>1. p \in Nat
        BY ONLY <1>3, <1>2
    <2> SUFFICES ASSUME NEW i \in 1 .. w PROVE a + i - 1 = p + i
        OBVIOUS
    <2>2. i \in Nat
        BY ONLY <1>3, i \in 1 .. w
    <2>3. p + 1 + i - 1 = p + i
        BY ONLY <2>1, <2>2
    <2> QED BY ONLY <1>11, <2>3, Zenon
<1>13. /\ IsSeq(prov) /\ Len(prov) = w /\ \A i \in 1 .. w : prov[i] = from[p + i]
    <2>1. a \in 1 .. Len(from) + 1 /\ b \in a - 1 .. Len(from)
        BY ONLY <1>2, <1>11, Zenon
    <2>2. prov = SubSeq(from, a, b)
        BY ONLY <1>10, <1>11, Zenon
    <2>3. /\ IsSeq(prov) /\ Len(prov) = b - a + 1
          /\ \A i \in 1 .. b - a + 1 : prov[i] = from[a + i - 1]
        BY ONLY <1>2, <2>1, <2>2, Cut
    <2> QED BY ONLY <1>11, <1>12, <2>3, Zenon
<1>14. \A i \in 1 .. w : from[p + i] = normalizeCell(cells[k].source).provenance[i]
    BY <1>1, CellStands
<1> QED
    BY ONLY <1>1, <1>13, <1>14, Zenon

(* For every notebook: what the text of its mirror gives back, unedited, is *)
(* the source of each code cell, its magics restored from the comments that *)
(* stood for them, and nothing for any other cell (lsp/mirror.ts,           *)
(* buildMirror; lsp/normalize.ts; lsp/writeback.ts, distributeWriteBack).   *)
THEOREM RoundTrip ==
    ASSUME NEW cells, IsBook(cells)
    PROVE  distributeWriteBack(Lines(cells), BuildOf(cells)) = CodeSources(cells)
<1>1. PICK f, m : TextOf(cells, f, m)
    BY TextIs
<1>2. PICK lines, opening, build :
         /\ lines = m.lines /\ build = BuildOf(cells) /\ opening = Opening(m.lines, build)
    OBVIOUS
<1>3. Lines(cells) = lines
    BY <1>1, <1>2 DEF Lines, TextOf
<1>4. opening = Openings(f, cells)
    BY <1>1, <1>2, OpeningIs
<1>5. {lines[i][2] : i \in opening} = CodeIds(cells)
    <2>1. \A j \in 1 .. Len(cells) : IsCode(cells, j) => lines[Place(f, j)][2] = cells[j].id
        BY <1>1, <1>2, CellStands, MarkerIs
    <2> QED BY <1>4, <2>1 DEF CodeIds, Openings
<1>6. DOMAIN cells = 1 .. Len(cells)
    BY SeqIs DEF IsBook
<1>7. {c.id : c \in {cells[i] : i \in {j \in DOMAIN cells : cells[j].cell_type = "code"}}} =
         CodeIds(cells)
    BY <1>6 DEF CodeIds, IsCode
<1> DEFINE Back(id) ==
              LET block == BlockOf(lines, opening, id)
                  prov == ProvenanceOf(build, id)
              IN Text(IF Len(block) # Len(prov) THEN block
                      ELSE [i \in DOMAIN block |-> denormalizeLine(block[i], prov[i])])
<1>8. ASSUME NEW id \in CodeIds(cells)
      PROVE  Back(id) = cells[Index(cells, id)].source
    <2>1. PICK k \in 1 .. Len(cells) : IsCode(cells, k) /\ id = cells[k].id
        BY DEF CodeIds
    <2>2. PICK block, prov, source, w :
             /\ block = BlockOf(lines, opening, id) /\ prov = ProvenanceOf(build, id)
             /\ source = cells[k].source /\ w = Len(source)
        OBVIOUS
    <2>3. /\ IsSeq(block) /\ Len(block) = w
          /\ \A i \in 1 .. w : block[i] = normalizeCell(source).lines[i]
        BY <1>1, <1>2, <2>1, <2>2, BlockIs
    <2>4. /\ IsSeq(prov) /\ Len(prov) = w
          /\ \A i \in 1 .. w : prov[i] = normalizeCell(source).provenance[i]
        BY <1>1, <1>2, <2>1, <2>2, ProvenanceIs
    <2>5. IsSeq(source) /\ source # <<>>
        BY <2>2 DEF IsBook, IsSource, Plain
    <2>6. \A i \in 1 .. w : denormalizeLine(block[i], prov[i]) = source[i]
        <3>1. IsSeq(source) /\ w = Len(source)
            BY <2>2, <2>5
        <3>2. \A i \in 1 .. w : denormalizeLine(normalizeCell(source).lines[i],
                                               normalizeCell(source).provenance[i]) = source[i]
            BY ONLY <3>1, Normalized
        <3> QED BY ONLY <2>3, <2>4, <3>2, Zenon
    <2>7. DOMAIN block = 1 .. w
        BY <2>3, SeqIs
    <2>8. source = [i \in 1 .. w |-> source[i]]
        BY <2>2, <2>5, SeqIs
    <2>9. [i \in DOMAIN block |-> denormalizeLine(block[i], prov[i])] = source
        BY ONLY <2>6, <2>7, <2>8
    <2>10. Back(id) = Text(source)
        BY <2>2, <2>3, <2>4, <2>9
    <2>11. Text(source) = source
        BY <2>5 DEF Text
    <2>12. Index(cells, id) = k
        BY <2>1, IndexOf
    <2> QED BY <2>2, <2>10, <2>11, <2>12
<1>9. distributeWriteBack(lines, build) = [id \in {lines[i][2] : i \in opening} |-> Back(id)]
    BY <1>2 DEF distributeWriteBack
<1>10. distributeWriteBack(lines, build) = [id \in CodeIds(cells) |-> Back(id)]
    <2> HIDE DEF Back
    <2> QED BY ONLY <1>5, <1>9
<1>11. CodeSources(cells) = [id \in CodeIds(cells) |-> cells[Index(cells, id)].source]
    BY <1>7 DEF CodeSources
<1> HIDE DEF Back
<1> QED
    BY ONLY <1>2, <1>3, <1>8, <1>10, <1>11

-----------------------------------------------------------------------------
(* More about sequences.                                                   *)

LEMMA TailIs ==
    ASSUME NEW s, IsSeq(s), NEW m \in Nat, m > Len(s)
    PROVE  IsSeq(SubSeq(s, m, Len(s))) /\ Len(SubSeq(s, m, Len(s))) = 0
<1>1. PICK S : s \in Seq(S)
    BY DEF IsSeq
<1>2. Len(s) \in Nat /\ \A i \in m .. Len(s) : s[i] \in S
    BY <1>1
<1>3. PICK n \in Nat : n = Len(s)
    BY <1>2
<1>4. /\ SubSeq(s, m, n) \in Seq(S)
      /\ Len(SubSeq(s, m, n)) = IF m <= n THEN n - m + 1 ELSE 0
    BY <1>1, <1>2, <1>3, SubSeqProperties
<1>5. ~ (m <= n)
    BY ONLY <1>3, m \in Nat, m > Len(s)
<1> QED
    BY ONLY <1>3, <1>4, <1>5 DEF IsSeq

LEMMA InsertedIs ==
    ASSUME NEW s, IsSeq(s), NEW n \in Nat, Len(s) = n, NEW i \in 1 .. n + 1, NEW e
    PROVE  /\ IsSeq(InsertAt(s, i, e)) /\ Len(InsertAt(s, i, e)) = n + 1
           /\ \A j \in 1 .. n + 1 : InsertAt(s, i, e)[j] =
                 IF j < i THEN s[j] ELSE IF j = i THEN e ELSE s[j - 1]
<1>0. PICK k \in Nat, l \in Nat : k = i - 1 /\ l = n - i + 1
    OBVIOUS
<1>1. PICK a, b, t :
         /\ k = i - 1 /\ l = n - i + 1
         /\ a = SubSeq(s, 1, i - 1) /\ b = SubSeq(s, i, n) /\ t = InsertAt(s, i, e)
    BY ONLY <1>0
<1>2. IsSeq(a) /\ Len(a) = k /\ \A j \in 1 .. k : a[j] = s[j]
    <2>1. 1 \in 1 .. Len(s) + 1 /\ i - 1 \in 1 - 1 .. Len(s) /\ i - 1 - 1 + 1 = i - 1
          /\ \A j \in 1 .. i - 1 : 1 + j - 1 = j
        OBVIOUS
    <2>2. /\ IsSeq(a) /\ Len(a) = i - 1 - 1 + 1
          /\ \A j \in 1 .. i - 1 - 1 + 1 : a[j] = s[1 + j - 1]
        BY ONLY <1>1, <2>1, IsSeq(s), Cut
    <2> QED BY ONLY <1>1, <2>1, <2>2, Zenon
<1>3. IsSeq(b) /\ Len(b) = l /\ \A j \in 1 .. l : b[j] = s[i + j - 1]
    <2>1. i \in 1 .. Len(s) + 1 /\ n \in i - 1 .. Len(s)
        OBVIOUS
    <2>2. IsSeq(b) /\ Len(b) = n - i + 1 /\ \A j \in 1 .. n - i + 1 : b[j] = s[i + j - 1]
        BY ONLY <1>1, <2>1, IsSeq(s), Cut
    <2> QED BY ONLY <1>1, <2>2, Zenon
<1>4. t = a \o <<e>> \o b
    <2>1. InsertAt(s, i, e) = SubSeq(s, 1, i - 1) \o <<e>> \o SubSeq(s, i, Len(s))
        BY Zenon DEF InsertAt
    <2> QED BY ONLY <1>1, <2>1, Len(s) = n, Zenon
<1>5. /\ IsSeq(t) /\ Len(t) = k + 1 + l
      /\ \A j \in 1 .. k : t[j] = a[j]
      /\ t[k + 1] = e
      /\ \A j \in 1 .. l : t[k + 1 + j] = b[j]
    <2>1. IsSeq(a) /\ IsSeq(b) /\ Len(a) = k /\ Len(b) = l
        BY ONLY <1>2, <1>3
    <2>2. /\ IsSeq(a \o <<e>> \o b) /\ Len(a \o <<e>> \o b) = k + 1 + l
          /\ \A j \in 1 .. k : (a \o <<e>> \o b)[j] = a[j]
          /\ (a \o <<e>> \o b)[k + 1] = e
          /\ \A j \in 1 .. l : (a \o <<e>> \o b)[k + 1 + j] = b[j]
        BY ONLY <2>1, k \in Nat, l \in Nat, JoinedAround
    <2> QED BY ONLY <1>4, <2>2, Zenon
<1>6. k + 1 + l = n + 1
    BY ONLY <1>1, n \in Nat, i \in 1 .. n + 1
<1>7. ASSUME NEW j \in 1 .. n + 1
      PROVE  t[j] = IF j < i THEN s[j] ELSE IF j = i THEN e ELSE s[j - 1]
    <2>1. CASE j < i
        <3>1. j \in 1 .. k
            BY ONLY <1>1, <2>1, n \in Nat, i \in 1 .. n + 1, j \in 1 .. n + 1
        <3> QED BY ONLY <1>2, <1>5, <2>1, <3>1
    <2>2. CASE j = i
        <3>1. k + 1 = j /\ ~ (j < i)
            BY ONLY <1>1, <2>2, n \in Nat, i \in 1 .. n + 1
        <3> QED BY ONLY <1>5, <2>2, <3>1
    <2>3. CASE j > i
        <3>1. PICK h \in 1 .. l : k + 1 + h = j /\ i + h - 1 = j - 1
            <4>1. j - i \in 1 .. l /\ k + 1 + (j - i) = j /\ i + (j - i) - 1 = j - 1
                BY ONLY <1>1, <2>3, n \in Nat, i \in 1 .. n + 1, j \in 1 .. n + 1
            <4> QED BY ONLY <4>1
        <3>2. t[j] = s[j - 1]
            BY ONLY <1>3, <1>5, <3>1, Zenon
        <3>3. ~ (j < i) /\ j # i
            BY ONLY <2>3, n \in Nat, i \in 1 .. n + 1, j \in 1 .. n + 1
        <3> QED BY ONLY <3>2, <3>3
    <2>4. j < i \/ j = i \/ j > i
        BY ONLY n \in Nat, i \in 1 .. n + 1, j \in 1 .. n + 1
    <2> QED BY ONLY <2>1, <2>2, <2>3, <2>4
<1> QED
    BY ONLY <1>1, <1>5, <1>6, <1>7, Zenon

LEMMA RemovedIs ==
    ASSUME NEW s, IsSeq(s), NEW n \in Nat, Len(s) = n, NEW i \in 1 .. n
    PROVE  /\ IsSeq(RemoveAt(s, i)) /\ Len(RemoveAt(s, i)) = n - 1
           /\ \A j \in 1 .. n - 1 : RemoveAt(s, i)[j] = IF j < i THEN s[j] ELSE s[j + 1]
<1>0. PICK k \in Nat, l \in Nat, m \in Nat : k = i - 1 /\ l = n - i /\ m = i + 1
    OBVIOUS
<1>1. PICK a, b, t :
         /\ k = i - 1 /\ l = n - i /\ m = i + 1
         /\ a = SubSeq(s, 1, i - 1) /\ b = SubSeq(s, m, n) /\ t = RemoveAt(s, i)
    BY ONLY <1>0
<1>2. IsSeq(a) /\ Len(a) = k /\ \A j \in 1 .. k : a[j] = s[j]
    <2>1. 1 \in 1 .. Len(s) + 1 /\ i - 1 \in 1 - 1 .. Len(s) /\ i - 1 - 1 + 1 = i - 1
          /\ \A j \in 1 .. i - 1 : 1 + j - 1 = j
        OBVIOUS
    <2>2. /\ IsSeq(a) /\ Len(a) = i - 1 - 1 + 1
          /\ \A j \in 1 .. i - 1 - 1 + 1 : a[j] = s[1 + j - 1]
        BY ONLY <1>1, <2>1, IsSeq(s), Cut
    <2> QED BY ONLY <1>1, <2>1, <2>2, Zenon
<1>3. IsSeq(b) /\ Len(b) = l /\ \A j \in 1 .. l : b[j] = s[m + j - 1]
    <2>1. m \in 1 .. Len(s) + 1 /\ n \in m - 1 .. Len(s) /\ n - m + 1 = l
        BY ONLY <1>1, n \in Nat, i \in 1 .. n, Len(s) = n
    <2>2. IsSeq(b) /\ Len(b) = n - m + 1 /\ \A j \in 1 .. n - m + 1 : b[j] = s[m + j - 1]
        BY ONLY <1>1, <2>1, IsSeq(s), Cut
    <2> QED BY ONLY <2>1, <2>2, Zenon
<1>4. t = a \o b
    <2>1. RemoveAt(s, i) = SubSeq(s, 1, i - 1) \o SubSeq(s, i + 1, Len(s))
        BY Zenon DEF RemoveAt
    <2> QED BY ONLY <1>1, <2>1, Len(s) = n, Zenon
<1>5. /\ IsSeq(t) /\ Len(t) = k + l
      /\ \A j \in 1 .. k : t[j] = a[j]
      /\ \A j \in 1 .. l : t[k + j] = b[j]
    BY ONLY <1>2, <1>3, <1>4, k \in Nat, l \in Nat, Joined, SMTT(30)
<1>6. k + l = n - 1
    BY ONLY <1>1, n \in Nat, i \in 1 .. n
<1>7. ASSUME NEW j \in 1 .. n - 1 PROVE t[j] = IF j < i THEN s[j] ELSE s[j + 1]
    <2>1. CASE j < i
        <3>1. j \in 1 .. k
            BY ONLY <1>1, <2>1, n \in Nat, i \in 1 .. n, j \in 1 .. n - 1
        <3> QED BY ONLY <1>2, <1>5, <2>1, <3>1
    <2>2. CASE ~ (j < i)
        <3>1. PICK h \in 1 .. l : k + h = j /\ m + h - 1 = j + 1
            <4>1. j - k \in 1 .. l /\ k + (j - k) = j /\ m + (j - k) - 1 = j + 1
                BY ONLY <1>1, <2>2, n \in Nat, i \in 1 .. n, j \in 1 .. n - 1
            <4> QED BY ONLY <4>1
        <3>2. t[j] = s[j + 1]
            BY ONLY <1>3, <1>5, <3>1, Zenon
        <3> QED BY ONLY <2>2, <3>2
    <2> QED BY ONLY <2>1, <2>2
<1> QED
    BY ONLY <1>1, <1>5, <1>6, <1>7, Zenon

-----------------------------------------------------------------------------
(* Notebooks and their snapshots.                                          *)

Good(c, n) == c.id \in Ids /\ c.id <= n /\ IsSource(c.source)
IsCell(c) == c = Cell(c.id, c.cell_type, c.source, c.outputs)

(* The ids given so far are up to n.                                       *)
Book(cells, n) ==
    /\ IsSeq(cells)
    /\ \A i \in 1 .. Len(cells) : Good(cells[i], n)
    /\ \A i, j \in 1 .. Len(cells) : cells[i].id = cells[j].id => i = j

Whole(cells) == \A i \in 1 .. Len(cells) : IsCell(cells[i])

LEMMA BookIs == ASSUME NEW cells, NEW n, Book(cells, n) PROVE IsBook(cells)
BY DEF Book, IsBook, Good

LEMMA CellIs ==
    ASSUME NEW id, NEW type, NEW source, NEW outputs, NEW c,
           c = Cell(id, type, source, outputs)
    PROVE  /\ IsCell(c) /\ c.id = id /\ c.cell_type = type /\ c.source = source
           /\ c.outputs = outputs
<1>1. c = [id |-> id, cell_type |-> type, source |-> source, outputs |-> outputs]
    BY DEF Cell
<1> QED
    BY ONLY <1>1 DEF IsCell, Cell

LEMMA LaterIs ==
    ASSUME NEW cells, NEW n \in Nat, Book(cells, n), NEW m \in Nat, n <= m
    PROVE  Book(cells, m)
<1>1. ASSUME NEW i \in 1 .. Len(cells) PROVE Good(cells[i], m)
    <2>1. cells[i].id \in Ids /\ cells[i].id <= n /\ IsSource(cells[i].source)
        BY DEF Book, Good
    <2>2. cells[i].id \in Nat
        BY <2>1, MirrorAssumption
    <2>3. cells[i].id <= m
        <3>1. PICK id \in Nat : id = cells[i].id
            BY <2>2
        <3>2. id <= n
            BY <2>1, <3>1
        <3>3. id <= m
            BY ONLY <3>2, n \in Nat, m \in Nat, n <= m, id \in Nat
        <3> QED BY ONLY <3>1, <3>3
    <2> QED BY ONLY <2>1, <2>3 DEF Good
<1> QED
    BY <1>1 DEF Book

LEMMA EmptyLineIs == IsSource(<<EmptyLine>>)
<1>1. EmptyLine[1] # "marker"
    BY MirrorAssumption
<1>2. IsSeq(<<EmptyLine>>) /\ Len(<<EmptyLine>>) = 1 /\ <<EmptyLine>>[1] = EmptyLine
    BY OneIsSeq
<1>3. <<EmptyLine>> # <<>>
    <2>1. Len(<<EmptyLine>>) # Len(<<>>)
        BY <1>2, NoneIsSeq
    <2> QED BY <2>1
<1>4. \A i \in 1 .. Len(<<EmptyLine>>) : i = 1
    BY <1>2
<1> QED
    BY <1>1, <1>2, <1>3, <1>4, Zenon DEF IsSource, Plain

LEMMA TextIsSource ==
    ASSUME NEW s, Plain(s)
    PROVE  IsSource(Text(s))
BY EmptyLineIs DEF Text, IsSource

LEMMA PlainCut ==
    ASSUME NEW s, Plain(s), NEW m \in Nat \ {0}, NEW n \in Nat, m <= n + 1, n <= Len(s)
    PROVE  Plain(SubSeq(s, m, n))
<1>1. PICK l \in Nat : Len(s) = l
    BY SeqIs DEF Plain
<1>2. m \in 1 .. Len(s) + 1 /\ n \in m - 1 .. Len(s)
    BY <1>1
<1>3. /\ IsSeq(SubSeq(s, m, n)) /\ Len(SubSeq(s, m, n)) = n - m + 1
      /\ \A i \in 1 .. n - m + 1 : SubSeq(s, m, n)[i] = s[m + i - 1]
    BY <1>2, Cut DEF Plain
<1>4. ASSUME NEW i \in 1 .. n - m + 1 PROVE m + i - 1 \in 1 .. Len(s)
    BY ONLY <1>1, m \in Nat \ {0}, n \in Nat, i \in 1 .. n - m + 1, n <= Len(s)
<1>5. \A i \in 1 .. n - m + 1 : SubSeq(s, m, n)[i][1] # "marker"
    BY <1>3, <1>4 DEF Plain
<1> QED
    BY ONLY <1>3, <1>5 DEF Plain

LEMMA PlainTail ==
    ASSUME NEW s, Plain(s), NEW m \in Nat \ {0}
    PROVE  Plain(SubSeq(s, m, Len(s)))
<1>1. PICK l \in Nat : Len(s) = l
    BY SeqIs DEF Plain
<1>2. CASE m <= l + 1
    <2>1. l <= Len(s)
        BY ONLY <1>1
    <2>2. Plain(SubSeq(s, m, l))
        BY ONLY <1>2, <2>1, Plain(s), m \in Nat \ {0}, l \in Nat, PlainCut
    <2> QED BY ONLY <1>1, <2>2
<1>3. CASE ~ (m <= l + 1)
    <2>1. m > Len(s) /\ m \in Nat
        BY <1>1, <1>3
    <2>2. IsSeq(SubSeq(s, m, Len(s))) /\ Len(SubSeq(s, m, Len(s))) = 0
        BY <2>1, TailIs DEF Plain
    <2>3. \A i \in 1 .. 0 : FALSE
        OBVIOUS
    <2> QED BY ONLY <2>2, <2>3 DEF Plain
<1> QED
    BY <1>2, <1>3

LEMMA PlainJoined ==
    ASSUME NEW s, NEW t, Plain(s), Plain(t)
    PROVE  Plain(s \o t) /\ (s # <<>> => s \o t # <<>>)
<1>1. PICK k \in Nat, l \in Nat : Len(s) = k /\ Len(t) = l
    BY SeqIs DEF Plain
<1>2. /\ IsSeq(s \o t) /\ Len(s \o t) = k + l
      /\ \A i \in 1 .. k : (s \o t)[i] = s[i]
      /\ \A i \in 1 .. l : (s \o t)[k + i] = t[i]
    BY <1>1, Joined DEF Plain
<1>3. ASSUME NEW i \in 1 .. k + l PROVE (s \o t)[i][1] # "marker"
    <2>1. CASE i \in 1 .. k
        BY <1>1, <1>2, <2>1 DEF Plain
    <2>2. CASE i \notin 1 .. k
        <3>1. PICK j \in 1 .. l : i = k + j
            <4>1. i - k \in 1 .. l /\ i = k + (i - k)
                BY ONLY <2>2, k \in Nat, l \in Nat, i \in 1 .. k + l
            <4> QED BY ONLY <4>1
        <3>2. t[j][1] # "marker"
            BY <1>1, <3>1 DEF Plain
        <3> QED BY ONLY <1>2, <3>1, <3>2, Zenon
    <2> QED BY <2>1, <2>2
<1>4. Plain(s \o t)
    BY ONLY <1>2, <1>3 DEF Plain
<1>5. ASSUME s # <<>> PROVE s \o t # <<>>
    <2>1. k # 0
        BY <1>1, <1>5, EmptyIs DEF Plain
    <2>2. Len(s \o t) # 0
        BY ONLY <1>2, <2>1, k \in Nat, l \in Nat
    <2> QED BY ONLY <2>2, NoneIsSeq, Zenon
<1> QED
    BY <1>4, <1>5

LEMMA FoundIs ==
    ASSUME NEW cells, IsSeq(cells), NEW id \in CellIds(cells)
    PROVE  Index(cells, id) \in 1 .. Len(cells) /\ cells[Index(cells, id)].id = id
<1>1. PICK k \in 1 .. Len(cells) : cells[k].id = id
    BY SeqIs DEF CellIds
<1> QED
    BY <1>1, IndexIs

Put(cells, i, c) == [cells EXCEPT ![i] = c]

(* A cell that is there for another of the same id.                        *)
LEMMA BookReplaced ==
    ASSUME NEW cells, NEW n, Book(cells, n), Whole(cells), NEW i \in 1 .. Len(cells),
           NEW c, Good(c, n), IsCell(c), c.id = cells[i].id,
           NEW new, new = Put(cells, i, c)
    PROVE  Book(new, n) /\ Whole(new)
<1>1. PICK k \in Nat : Len(cells) = k
    BY SeqIs DEF Book
<1>2. i \in 1 .. k /\ IsSeq(cells)
    BY <1>1 DEF Book
<1>3. /\ IsSeq(new) /\ Len(new) = k
      /\ \A j \in 1 .. k : new[j] = IF j = i THEN c ELSE cells[j]
    <2>1. cells = [j \in 1 .. k |-> cells[j]]
        BY <1>1, <1>2, SeqIs
    <2>2. new = [j \in 1 .. k |-> new[j]] /\ \A j \in 1 .. k : new[j] = IF j = i THEN c ELSE cells[j]
        BY ONLY <1>2, <2>1, new = Put(cells, i, c) DEF Put
    <2> QED BY ONLY <2>2, k \in Nat, MadeSeq
<1>4. \A j \in 1 .. k : Good(new[j], n) /\ new[j].id = cells[j].id /\ IsCell(new[j])
    BY <1>1, <1>3 DEF Book, Whole
<1>5. \A j, h \in 1 .. k : new[j].id = new[h].id => j = h
    BY <1>1, <1>4 DEF Book
<1> QED
    BY ONLY <1>3, <1>4, <1>5 DEF Book, Whole

(* A new cell.                                                             *)
LEMMA BookInserted ==
    ASSUME NEW cells, NEW n \in Nat, Book(cells, n), Whole(cells),
           NEW i \in 1 .. Len(cells) + 1,
           NEW c, IsCell(c), c.id = n + 1, n + 1 \in Ids, IsSource(c.source),
           NEW new, new = InsertAt(cells, i, c)
    PROVE  Book(new, n + 1) /\ Whole(new)
<1>1. PICK k \in Nat : Len(cells) = k
    BY SeqIs DEF Book
<1>2. /\ IsSeq(new) /\ Len(new) = k + 1
      /\ \A j \in 1 .. k + 1 :
            new[j] = IF j < i THEN cells[j] ELSE IF j = i THEN c ELSE cells[j - 1]
    BY <1>1, InsertedIs DEF Book
<1>3. i \in 1 .. k + 1
    BY <1>1
<1>4. PICK m \in Nat : m = n + 1
    OBVIOUS
<1>5. Book(cells, m)
    BY <1>4, LaterIs
<1>6. Good(c, m)
    BY <1>4 DEF Good
<1> DEFINE old(j) == IF j < i THEN j ELSE j - 1
<1>7. ASSUME NEW j \in 1 .. k + 1, j # i
      PROVE  old(j) \in 1 .. k /\ new[j] = cells[old(j)]
    <2>1. old(j) \in 1 .. k
        BY ONLY <1>3, <1>7, k \in Nat
    <2>2. new[j] = cells[old(j)]
        BY ONLY <1>2, <1>7
    <2> QED BY ONLY <2>1, <2>2
<1>8. \A j, h \in 1 .. k + 1 : j # i /\ h # i /\ old(j) = old(h) => j = h
    BY ONLY <1>3, k \in Nat
<1> HIDE DEF old
<1>9. new[i] = c
    BY <1>2, <1>3
<1>10. \A j \in 1 .. k + 1 : Good(new[j], m) /\ IsCell(new[j])
    BY <1>1, <1>5, <1>6, <1>7, <1>9 DEF Book, Whole
<1>11. ASSUME NEW j \in 1 .. k + 1, j # i PROVE new[j].id # c.id
    <2>1. PICK id : id = new[j].id /\ id <= n /\ id \in Nat
        BY <1>1, <1>7, <1>11, MirrorAssumption DEF Book, Good
    <2>2. id # n + 1
        BY ONLY <2>1, n \in Nat
    <2> QED BY <2>1, <2>2
<1>12. \A j, h \in 1 .. k + 1 : new[j].id = new[h].id => j = h
    <2> SUFFICES ASSUME NEW j \in 1 .. k + 1, NEW h \in 1 .. k + 1, new[j].id = new[h].id
                 PROVE  j = h
        OBVIOUS
    <2>1. CASE j = i
        BY <1>9, <1>11, <2>1
    <2>2. CASE h = i
        BY <1>9, <1>11, <2>2
    <2>3. CASE j # i /\ h # i
        <3>1. cells[old(j)].id = cells[old(h)].id /\ old(j) \in 1 .. k /\ old(h) \in 1 .. k
            BY <1>7, <2>3
        <3>2. old(j) = old(h)
            BY <1>1, <3>1 DEF Book
        <3> QED BY <1>8, <2>3, <3>2
    <2> QED BY <2>1, <2>2, <2>3
<1>13. Book(new, m) /\ Whole(new)
    BY ONLY <1>2, <1>10, <1>12 DEF Book, Whole
<1> QED
    BY ONLY <1>4, <1>13

LEMMA BookRemoved ==
    ASSUME NEW cells, NEW n, Book(cells, n), Whole(cells), NEW i \in 1 .. Len(cells),
           NEW new, new = RemoveAt(cells, i)
    PROVE  Book(new, n) /\ Whole(new)
<1>1. PICK k \in Nat : Len(cells) = k
    BY SeqIs DEF Book
<1>2. /\ IsSeq(new) /\ Len(new) = k - 1
      /\ \A j \in 1 .. k - 1 : new[j] = IF j < i THEN cells[j] ELSE cells[j + 1]
    BY <1>1, RemovedIs DEF Book
<1>3. i \in 1 .. k
    BY <1>1
<1> DEFINE old(j) == IF j < i THEN j ELSE j + 1
<1>4. ASSUME NEW j \in 1 .. k - 1
      PROVE  old(j) \in 1 .. k /\ new[j] = cells[old(j)]
    <2>1. old(j) \in 1 .. k
        BY ONLY <1>3, k \in Nat, j \in 1 .. k - 1
    <2>2. new[j] = cells[old(j)]
        BY ONLY <1>2, j \in 1 .. k - 1
    <2> QED BY ONLY <2>1, <2>2
<1>5. \A j, h \in 1 .. k - 1 : old(j) = old(h) => j = h
    BY ONLY <1>3, k \in Nat
<1> HIDE DEF old
<1>6. \A j \in 1 .. k - 1 : Good(new[j], n) /\ IsCell(new[j])
    BY <1>1, <1>4 DEF Book, Whole
<1>7. \A j, h \in 1 .. k - 1 : new[j].id = new[h].id => j = h
    BY <1>1, <1>4, <1>5 DEF Book
<1> QED
    BY ONLY <1>2, <1>6, <1>7 DEF Book, Whole

LEMMA BookSwapped ==
    ASSUME NEW cells, NEW n, Book(cells, n), Whole(cells), NEW i \in 1 .. Len(cells),
           NEW j \in 1 .. Len(cells), NEW new,
           new = [cells EXCEPT ![i] = cells[j], ![j] = cells[i]]
    PROVE  Book(new, n) /\ Whole(new)
<1>1. PICK k \in Nat : Len(cells) = k
    BY SeqIs DEF Book
<1>2. i \in 1 .. k /\ j \in 1 .. k
    BY <1>1
<1> DEFINE old(h) == IF h = j THEN i ELSE IF h = i THEN j ELSE h
<1>3. cells = [h \in 1 .. k |-> cells[h]]
    BY <1>1, SeqIs DEF Book
<1>4. new = [h \in 1 .. k |-> new[h]] /\ \A h \in 1 .. k : new[h] = cells[old(h)]
    BY ONLY <1>2, <1>3, new = [cells EXCEPT ![i] = cells[j], ![j] = cells[i]]
<1>5. IsSeq(new) /\ Len(new) = k
    BY ONLY <1>4, k \in Nat, MadeSeq
<1>6. \A h \in 1 .. k : old(h) \in 1 .. k
    BY ONLY <1>2
<1>7. \A h, g \in 1 .. k : old(h) = old(g) => h = g
    OBVIOUS
<1> HIDE DEF old
<1>8. \A h \in 1 .. k : Good(new[h], n) /\ IsCell(new[h])
    BY <1>1, <1>4, <1>6 DEF Book, Whole
<1>9. \A h, g \in 1 .. k : new[h].id = new[g].id => h = g
    BY <1>1, <1>4, <1>6, <1>7 DEF Book
<1> QED
    BY ONLY <1>5, <1>8, <1>9 DEF Book, Whole

-----------------------------------------------------------------------------
(* What the operations make of a notebook.                                 *)

LEMMA SnapshotIs ==
    ASSUME NEW cells, NEW n, Book(cells, n)
    PROVE  Book(takeStructuralSnapshot(cells), n)
<1>0. PICK k \in Nat : k = Len(cells)
    BY SeqIs DEF Book
<1>1. PICK s : k = Len(cells) /\ s = takeStructuralSnapshot(cells)
    BY <1>0
<1>2. DOMAIN cells = 1 .. k
    BY <1>1, SeqIs DEF Book
<1>3. s = [i \in 1 .. k |-> SnapshotCell(cells[i])]
    BY <1>1, <1>2 DEF takeStructuralSnapshot
<1>4. s = [i \in 1 .. k |-> s[i]]
    BY <1>3
<1>5. IsSeq(s) /\ Len(s) = k
    BY ONLY <1>4, k \in Nat, MadeSeq
<1>6. \A i \in 1 .. k : s[i].id = cells[i].id /\ s[i].source = cells[i].source
    BY <1>3 DEF SnapshotCell
<1>7. \A i \in 1 .. k : Good(s[i], n)
    BY <1>1, <1>6 DEF Book, Good
<1>8. \A i, j \in 1 .. k : s[i].id = s[j].id => i = j
    BY <1>1, <1>6 DEF Book
<1> QED
    BY ONLY <1>1, <1>5, <1>7, <1>8 DEF Book

LEMMA RestoredIs ==
    ASSUME NEW cells, NEW snapshot, NEW n, Book(snapshot, n)
    PROVE  Book(restoreStructural(cells, snapshot), n) /\ Whole(restoreStructural(cells, snapshot))
<1>1. PICK k \in Nat : k = Len(snapshot)
    BY SeqIs DEF Book
<1>2. DOMAIN snapshot = 1 .. k
    BY <1>1, SeqIs DEF Book
<1>3. PICK s, outputs :
         /\ s = restoreStructural(cells, snapshot)
         /\ s = [i \in 1 .. k |-> Cell(snapshot[i].id, snapshot[i].cell_type,
                                       snapshot[i].source, outputs[i])]
    <2> DEFINE Outputs(c) == LET i == Index(cells, c.id)
                             IN IF i # 0 /\ c.cell_type = "code" THEN cells[i].outputs
                                ELSE NoOutputs
    <2>1. restoreStructural(cells, snapshot) =
             [i \in DOMAIN snapshot |->
                 Cell(snapshot[i].id, snapshot[i].cell_type, snapshot[i].source,
                      Outputs(snapshot[i]))]
        BY DEF restoreStructural
    <2> HIDE DEF Outputs
    <2>2. PICK outputs : outputs = [i \in 1 .. k |-> Outputs(snapshot[i])]
        OBVIOUS
    <2>3. restoreStructural(cells, snapshot) =
             [i \in 1 .. k |-> Cell(snapshot[i].id, snapshot[i].cell_type,
                                    snapshot[i].source, outputs[i])]
        BY <1>2, <2>1, <2>2
    <2> QED BY <2>3
<1>4. s = [i \in 1 .. k |-> s[i]]
    BY <1>3
<1>5. IsSeq(s) /\ Len(s) = k
    BY ONLY <1>4, k \in Nat, MadeSeq
<1>6. ASSUME NEW i \in 1 .. k
      PROVE  IsCell(s[i]) /\ s[i].id = snapshot[i].id /\ s[i].source = snapshot[i].source
    <2>1. s[i] = Cell(snapshot[i].id, snapshot[i].cell_type, snapshot[i].source, outputs[i])
        BY <1>3
    <2> QED BY ONLY <2>1, CellIs
<1>7. \A i \in 1 .. k : Good(s[i], n)
    BY <1>1, <1>6 DEF Book, Good
<1>8. \A i, j \in 1 .. k : s[i].id = s[j].id => i = j
    BY <1>1, <1>6 DEF Book
<1> QED
    BY ONLY <1>3, <1>5, <1>6, <1>7, <1>8 DEF Book, Whole

LEMMA InsertCellIs ==
    ASSUME NEW cells, NEW n \in Nat, Book(cells, n), Whole(cells), n + 1 \in Ids,
           NEW position, NEW anchor, anchor \in CellIds(cells) \/ cells = <<>>,
           NEW new, new = insertCell(cells, position, "code", anchor, n + 1)
    PROVE  Book(new, n + 1) /\ Whole(new)
<1>1. PICK blank : blank = Cell(n + 1, "code", <<EmptyLine>>, NoOutputs)
    OBVIOUS
<1>2. IsCell(blank) /\ blank.id = n + 1 /\ IsSource(blank.source)
    BY <1>1, CellIs, EmptyLineIs
<1>3. CASE cells = <<>>
    <2>1. new = <<blank>>
        BY <1>1, <1>3 DEF insertCell
    <2>2. IsSeq(new) /\ Len(new) = 1 /\ new[1] = blank
        BY ONLY <2>1, OneIsSeq
    <2>3. n + 1 <= n + 1
        OBVIOUS
    <2>4. Good(blank, n + 1)
        BY <1>2, <2>3 DEF Good
    <2>5. \A i \in 1 .. 1 : i = 1
        OBVIOUS
    <2> QED BY ONLY <1>2, <2>2, <2>4, <2>5 DEF Book, Whole
<1>4. CASE cells # <<>>
    <2>1. Index(cells, anchor) \in 1 .. Len(cells)
        BY <1>4, FoundIs DEF Book
    <2>2. Len(cells) \in Nat
        BY SeqIs DEF Book
    <2>3. PICK i : /\ i = IF position = "after" THEN Index(cells, anchor) + 1
                          ELSE Index(cells, anchor)
                   /\ i \in 1 .. Len(cells) + 1
        BY <2>1, <2>2
    <2>4. new = InsertAt(cells, i, blank)
        BY <1>1, <1>4, <2>3 DEF insertCell
    <2> QED BY <1>2, <2>3, <2>4, BookInserted
<1> QED
    BY <1>3, <1>4

LEMMA DeleteCellIs ==
    ASSUME NEW cells, NEW n, Book(cells, n), Whole(cells), NEW id \in CellIds(cells),
           NEW new, new = deleteCell(cells, id)
    PROVE  Book(new, n) /\ Whole(new)
<1>1. Index(cells, id) \in 1 .. Len(cells)
    BY FoundIs DEF Book
<1> QED
    BY <1>1, BookRemoved DEF deleteCell

LEMMA MoveCellIs ==
    ASSUME NEW cells, NEW n, Book(cells, n), Whole(cells), NEW id \in CellIds(cells),
           NEW direction, NEW new, new = moveCell(cells, id, direction)
    PROVE  Book(new, n) /\ Whole(new)
<1>1. PICK i \in 1 .. Len(cells) : i = Index(cells, id)
    BY FoundIs DEF Book
<1>2. DOMAIN cells = 1 .. Len(cells)
    BY SeqIs DEF Book
<1>3. PICK j : j = IF direction = "up" THEN i - 1 ELSE i + 1
    OBVIOUS
<1>4. new = IF j \in 1 .. Len(cells) THEN [cells EXCEPT ![i] = cells[j], ![j] = cells[i]]
            ELSE cells
    BY <1>1, <1>2, <1>3 DEF moveCell
<1> QED
    BY <1>4, BookSwapped

LEMMA ChangeCellTypeIs ==
    ASSUME NEW cells, NEW n, Book(cells, n), Whole(cells), NEW id \in CellIds(cells),
           NEW type, NEW new, new = changeCellType(cells, id, type)
    PROVE  Book(new, n) /\ Whole(new)
<1>1. PICK i \in 1 .. Len(cells) : i = Index(cells, id) /\ cells[i].id = id
    BY FoundIs DEF Book
<1>2. CASE cells[i].cell_type = type
    BY <1>1, <1>2 DEF changeCellType
<1>3. CASE cells[i].cell_type # type
    <2>1. PICK c : c = Cell(id, type, cells[i].source, NoOutputs)
        OBVIOUS
    <2>2. IsCell(c) /\ c.id = id /\ c.source = cells[i].source
        BY ONLY <2>1, CellIs
    <2>3. Good(c, n)
        BY <1>1, <2>2 DEF Good, Book
    <2>4. i \in DOMAIN cells
        BY SeqIs DEF Book
    <2>5. new = Put(cells, i, c)
        BY <1>1, <1>3, <2>1, <2>4 DEF changeCellType, Put
    <2> QED BY <1>1, <2>2, <2>3, <2>5, BookReplaced
<1> QED
    BY <1>2, <1>3

(* A cell with another source.                                             *)
Sourced(c, source) == [c EXCEPT !.source = source]

LEMMA WithSource ==
    ASSUME NEW c, IsCell(c), NEW source, NEW d, d = Sourced(c, source)
    PROVE  IsCell(d) /\ d.id = c.id /\ d.source = source
<1>1. PICK id, type, text, outputs :
         c = [id |-> id, cell_type |-> type, source |-> text, outputs |-> outputs]
    BY DEF IsCell, Cell
<1>2. d = [id |-> id, cell_type |-> type, source |-> source, outputs |-> outputs]
    BY ONLY <1>1, d = Sourced(c, source) DEF Sourced
<1> QED
    BY ONLY <1>1, <1>2 DEF IsCell, Cell

LEMMA SourceReplaced ==
    ASSUME NEW cells, NEW n, Book(cells, n), Whole(cells), NEW i \in 1 .. Len(cells),
           NEW source, IsSource(source), NEW c, c = Sourced(cells[i], source),
           NEW new, new = Put(cells, i, c)
    PROVE  /\ Book(new, n) /\ Whole(new) /\ Len(new) = Len(cells)
           /\ new[i] = c /\ IsCell(c) /\ c.id = cells[i].id
           /\ c.source = source
           /\ \A j \in 1 .. Len(cells) : j # i => new[j] = cells[j]
<1>1. IsCell(c) /\ c.id = cells[i].id /\ c.source = source
    <2>1. IsCell(cells[i])
        BY DEF Whole
    <2> QED BY ONLY <2>1, c = Sourced(cells[i], source), WithSource
<1>2. Good(c, n)
    BY <1>1 DEF Good, Book
<1>3. Book(new, n) /\ Whole(new)
    BY <1>1, <1>2, BookReplaced
<1>4. DOMAIN cells = 1 .. Len(cells) /\ Len(cells) \in Nat
    BY SeqIs DEF Book
<1>5. DOMAIN new = 1 .. Len(cells) /\ DOMAIN new = 1 .. Len(new) /\ Len(new) \in Nat
    BY <1>3, <1>4, SeqIs DEF Book, Put
<1>6. Len(new) = Len(cells)
    <2>1. PICK k \in Nat, l \in Nat : k = Len(cells) /\ l = Len(new)
        BY <1>4, <1>5
    <2>2. 1 .. k = 1 .. l
        BY <1>5, <2>1
    <2>3. k = l
        <3>1. k # 0 => k \in 1 .. l
            BY ONLY <2>2, k \in Nat
        <3>2. l # 0 => l \in 1 .. k
            BY ONLY <2>2, l \in Nat
        <3> QED BY ONLY <3>1, <3>2, k \in Nat, l \in Nat
    <2> QED BY <2>1, <2>3
<1>7. new[i] = c /\ \A j \in 1 .. Len(cells) : j # i => new[j] = cells[j]
    BY <1>4 DEF Put
<1> QED
    BY <1>1, <1>3, <1>6, <1>7

LEMMA UpdatedIs ==
    ASSUME NEW cells, NEW n, Book(cells, n), Whole(cells), NEW id \in CellIds(cells),
           NEW source, IsSource(source), NEW new, new = updateCellSource(cells, id, source)
    PROVE  Book(new, n) /\ Whole(new)
<1>1. PICK i \in 1 .. Len(cells) : i = Index(cells, id)
    BY FoundIs DEF Book
<1>2. i # 0 /\ i \in DOMAIN cells
    BY SeqIs DEF Book
<1>3. PICK c : c = Sourced(cells[i], source)
    OBVIOUS
<1>4. new = Put(cells, i, c)
    BY <1>1, <1>2, <1>3 DEF updateCellSource, Sourced, Put
<1> QED
    BY ONLY <1>3, <1>4, Book(cells, n), Whole(cells), IsSource(source), SourceReplaced, Zenon

LEMMA JoinCellIs ==
    ASSUME NEW cells, NEW n, Book(cells, n), Whole(cells), NEW i \in 2 .. Len(cells),
           NEW new, new = joinCell(cells, cells[i].id)
    PROVE  Book(new, n) /\ Whole(new) /\ IsSource(new[i - 1].source)
<1>1. PICK k \in Nat : Len(cells) = k
    BY SeqIs DEF Book
<1>2. i \in 1 .. k /\ i - 1 \in 1 .. k /\ ~ (i <= 1) /\ i \in Nat
    BY <1>1
<1>3. Index(cells, cells[i].id) = i
    BY <1>1, <1>2, IndexOf, BookIs
<1>4. PICK h \in 1 .. k : h = i - 1
    BY <1>2
<1>5. PICK source : source = cells[h].source \o cells[i].source
    OBVIOUS
<1>6. IsSource(source)
    <2>1. IsSource(cells[h].source) /\ IsSource(cells[i].source)
        BY <1>1, <1>2 DEF Book, Good
    <2> QED BY <1>5, <2>1, PlainJoined DEF IsSource
<1>7. PICK merged : merged = Sourced(cells[h], source)
    OBVIOUS
<1>8. PICK mid : mid = Put(cells, h, merged)
    OBVIOUS
<1>9. /\ Book(mid, n) /\ Whole(mid) /\ Len(mid) = k /\ mid[h] = merged /\ merged.source = source
    <2>1. h \in 1 .. Len(cells)
        BY <1>1
    <2>2. /\ Book(mid, n) /\ Whole(mid) /\ Len(mid) = Len(cells) /\ mid[h] = merged
          /\ merged.source = source
        BY ONLY <1>6, <1>7, <1>8, <2>1, Book(cells, n), Whole(cells), SourceReplaced
    <2> QED BY ONLY <1>1, <2>2, Zenon
<1>10. new = RemoveAt(mid, i)
    <2>1. merged = [cells[i - 1] EXCEPT !.source = @ \o cells[i].source]
        BY <1>4, <1>5, <1>7 DEF Sourced
    <2>2. new = RemoveAt(ReplaceAt(cells, i - 1, merged), i)
        BY <1>2, <1>3, <2>1 DEF joinCell
    <2> QED BY <1>4, <1>8, <2>2 DEF ReplaceAt, Put
<1>11. Book(new, n) /\ Whole(new)
    BY <1>2, <1>9, <1>10, BookRemoved
<1>12. new[h] = mid[h]
    <2>1. \A j \in 1 .. k - 1 : new[j] = IF j < i THEN mid[j] ELSE mid[j + 1]
        <3>1. IsSeq(mid) /\ Len(mid) = k
            BY <1>9 DEF Book
        <3> QED BY ONLY <1>2, <1>10, <3>1, k \in Nat, RemovedIs
    <2>2. h \in 1 .. k - 1 /\ h < i
        BY ONLY <1>2, <1>4, k \in Nat
    <2> QED BY ONLY <2>1, <2>2
<1> QED
    BY <1>4, <1>6, <1>9, <1>11, <1>12

LEMMA SplitCellIs ==
    ASSUME NEW cells, NEW n \in Nat, Book(cells, n), Whole(cells), NEW id \in CellIds(cells),
           n + 1 \in Ids, NEW at \in 0 .. Len(cells[Index(cells, id)].source),
           NEW new, new = splitCell(cells, id, at, n + 1)
    PROVE  Book(new, n + 1) /\ Whole(new) /\ IsSource(new[Index(new, id)].source)
<1>1. PICK k \in Nat : Len(cells) = k
    BY SeqIs DEF Book
<1>2. PICK i \in 1 .. k : i = Index(cells, id) /\ cells[i].id = id
    BY <1>1, FoundIs DEF Book
<1>3. PICK source : source = cells[i].source /\ Plain(source)
    BY <1>1 DEF Book, Good, IsSource
<1>4. Len(source) \in Nat /\ at \in 0 .. Len(source)
    BY <1>2, <1>3, SeqIs DEF Plain
<1>5. PICK above, below :
         /\ above = Text(SubSeq(source, 1, at))
         /\ below = Text(SubSeq(source, at + 1, Len(source)))
    OBVIOUS
<1>6. IsSource(above) /\ IsSource(below)
    <2>1. 1 \in Nat \ {0} /\ at \in Nat /\ 1 <= at + 1 /\ at <= Len(source)
        BY <1>4
    <2>2. at + 1 \in Nat \ {0}
        BY <1>4
    <2>3. Plain(SubSeq(source, 1, at))
        BY <1>3, <2>1, PlainCut
    <2>4. Plain(SubSeq(source, at + 1, Len(source)))
        BY <1>3, <2>2, PlainTail
    <2> QED BY ONLY <1>5, <2>3, <2>4, TextIsSource
<1>7. PICK upper, lower :
         /\ upper = Sourced(cells[i], above)
         /\ lower = Cell(n + 1, cells[i].cell_type, below, NoOutputs)
    OBVIOUS
<1>8. PICK mid : mid = Put(cells, i, upper)
    OBVIOUS
<1>9. /\ Book(mid, n) /\ Whole(mid) /\ Len(mid) = k /\ mid[i] = upper
      /\ upper.source = above /\ upper.id = id
    <2>1. i \in 1 .. Len(cells)
        BY <1>1
    <2>2. /\ Book(mid, n) /\ Whole(mid) /\ Len(mid) = Len(cells) /\ mid[i] = upper
          /\ upper.source = above /\ upper.id = cells[i].id
        BY ONLY <1>6, <1>7, <1>8, <2>1, Book(cells, n), Whole(cells), SourceReplaced
    <2> QED BY ONLY <1>1, <1>2, <2>2, Zenon
<1>10. new = InsertAt(mid, i + 1, lower)
    BY <1>2, <1>3, <1>5, <1>7, <1>8 DEF splitCell, ReplaceAt, Sourced, Put
<1>11. IsCell(lower) /\ lower.id = n + 1 /\ IsSource(lower.source)
    BY <1>6, <1>7, CellIs
<1>12. i + 1 \in 1 .. Len(mid) + 1
    BY <1>9
<1>13. Book(new, n + 1) /\ Whole(new)
    BY <1>9, <1>10, <1>11, <1>12, BookInserted
<1>14. new[i] = upper /\ i \in 1 .. Len(new)
    <2>1. /\ Len(new) = k + 1
          /\ \A j \in 1 .. k + 1 :
                new[j] = IF j < i + 1 THEN mid[j] ELSE IF j = i + 1 THEN lower ELSE mid[j - 1]
        BY <1>9, <1>10, <1>12, InsertedIs DEF Book
    <2>2. i \in 1 .. k + 1 /\ i < i + 1
        OBVIOUS
    <2> QED BY ONLY <1>9, <2>1, <2>2
<1>15. Index(new, id) = i
    BY <1>9, <1>13, <1>14, IndexOf, BookIs
<1> QED
    BY <1>6, <1>9, <1>13, <1>14, <1>15

-----------------------------------------------------------------------------
(* What a buffer gives back to the cells.                                  *)

Markers(lines) == {i \in 1 .. Len(lines) : lines[i][1] = "marker"}
MarkedIds(lines) == {lines[i][2] : i \in Markers(lines)}

(* The user has left the markers of all code cells, or of none.            *)
Fits(lines, cells) == IsSeq(lines) /\ (MarkedIds(lines) = {} \/ MarkedIds(lines) = CodeIds(cells))

LEMMA OriginalIs ==
    ASSUME NEW source, IsSeq(source), NEW i \in 1 .. Len(source)
    PROVE  normalizeCell(source).provenance[i].kind = "magic" =>
              normalizeCell(source).provenance[i].original = source[i]
<1>1. DOMAIN source = 1 .. Len(source)
    BY SeqIs
<1>2. normalizeCell(source).provenance[i] =
         IF i \in Magic(source) THEN [kind |-> "magic", original |-> source[i]] ELSE Content
    BY <1>1 DEF normalizeCell
<1>3. Content.kind # "magic"
    BY DEF Content
<1> QED
    BY <1>2, <1>3

LEMMA MarkedOfText ==
    ASSUME NEW cells, IsBook(cells)
    PROVE  /\ MarkedIds(Lines(cells)) = CodeIds(cells) /\ IsSeq(Lines(cells))
           /\ Lines(cells) # <<>>
<1>1. PICK f, m : TextOf(cells, f, m)
    BY TextIs
<1>2. Lines(cells) = m.lines
    BY <1>1 DEF Lines, TextOf
<1>3. PICK lines : lines = m.lines /\ lines = f[Len(cells)].lines
    BY <1>1 DEF TextOf
<1>4. IsSeq(lines) /\ Len(lines) >= 2 /\ Len(lines) \in Nat
    <2>1. IsSeq(m.lines) /\ Len(m.lines) >= 2 /\ Len(m.lines) \in Nat
        BY ONLY <1>1, IsBook(cells), LinesOf
    <2> QED BY ONLY <1>3, <2>1, Zenon
<1>5. \A j \in 1 .. Len(lines) : lines[j][1] = "marker" <=>
         \E k \in 1 .. Len(cells) : IsCode(cells, k) /\ j = Place(f, k)
    <2>1. \A n \in 0 .. Len(cells) : Layout(f, cells, n)
        BY <1>1 DEF TextOf
    <2> QED BY ONLY <1>3, <2>1, IsBook(cells), MarkersOfText
<1>6. \A k \in 1 .. Len(cells) : IsCode(cells, k) =>
         Place(f, k) \in 1 .. Len(lines) /\ lines[Place(f, k)][2] = cells[k].id
    <2> SUFFICES ASSUME NEW k \in 1 .. Len(cells), IsCode(cells, k)
                 PROVE  Place(f, k) \in 1 .. Len(lines) /\ lines[Place(f, k)][2] = cells[k].id
        OBVIOUS
    <2>1. Place(f, k) \in 3 .. Len(lines) /\ lines[Place(f, k)] = Marker(cells[k].id)
        <3>1. Place(f, k) \in 3 .. Len(m.lines) /\ m.lines[Place(f, k)] = Marker(cells[k].id)
            BY <1>1, CellStands
        <3> QED BY ONLY <1>3, <3>1, Zenon
    <2>2. Place(f, k) \in 1 .. Len(lines)
        BY ONLY <1>4, <2>1
    <2> QED BY ONLY <2>1, <2>2, MarkerIs
<1>7. MarkedIds(lines) = CodeIds(cells)
    <2>1. ASSUME NEW id \in MarkedIds(lines) PROVE id \in CodeIds(cells)
        <3>1. PICK j \in 1 .. Len(lines) : lines[j][1] = "marker" /\ id = lines[j][2]
            BY DEF MarkedIds, Markers
        <3>2. PICK k \in 1 .. Len(cells) : IsCode(cells, k) /\ j = Place(f, k)
            BY <1>5, <3>1
        <3>3. id = cells[k].id
            BY <1>6, <3>1, <3>2
        <3> QED BY ONLY <3>2, <3>3 DEF CodeIds
    <2>2. ASSUME NEW id \in CodeIds(cells) PROVE id \in MarkedIds(lines)
        <3>1. PICK k \in 1 .. Len(cells) : IsCode(cells, k) /\ id = cells[k].id
            BY DEF CodeIds
        <3>2. PICK j \in 1 .. Len(lines) : j = Place(f, k) /\ lines[j][2] = id
            BY <1>6, <3>1
        <3>3. lines[j][1] = "marker"
            BY <1>5, <3>1, <3>2
        <3> QED BY ONLY <3>2, <3>3 DEF MarkedIds, Markers
    <2> QED BY ONLY <2>1, <2>2
<1>8. lines # <<>>
    BY <1>4, NoneIsSeq
<1> QED
    BY ONLY <1>2, <1>3, <1>4, <1>7, <1>8

(* Some lines of a text, none of them a marker.                            *)
LEMMA PickedPlain ==
    ASSUME NEW lines, IsSeq(lines), NEW places,
           \A p \in 1 .. Len(lines) : p \in places => lines[p][1] # "marker"
    PROVE  Plain(Picked(lines, places))
BY PickedIs DEF Plain

LEMMA BlockIsPlain ==
    ASSUME NEW lines, IsSeq(lines), NEW opening, opening = Markers(lines), NEW id
    PROVE  Plain(BlockOf(lines, opening, id))
<1>1. DOMAIN lines = 1 .. Len(lines) /\ Len(lines) \in Nat
    BY SeqIs
<1> DEFINE S == {i \in DOMAIN lines \ opening :
                    LET o == OpenedBy(opening, i) IN o # 0 /\ lines[o] = Marker(id)}
           T == {i \in DOMAIN lines : /\ OpenedBy(opening, i) = 0
                                      /\ lines[i] \notin Range(SUPPRESSION_HEADER)}
<1>2. \A i \in 1 .. Len(lines) : i \in S => lines[i][1] # "marker"
    BY DEF Markers
<1>3. \A i \in 1 .. Len(lines) : i \in T => lines[i][1] # "marker"
    <2> SUFFICES ASSUME NEW i \in 1 .. Len(lines), lines[i][1] = "marker"
                 PROVE  OpenedBy(opening, i) # 0
        OBVIOUS
    <2>1. PICK U : U = {0} \cup {j \in opening : j <= i}
        OBVIOUS
    <2>2. U \subseteq Nat /\ i \in U /\ \A j \in U : j <= i
        BY <1>1, <2>1 DEF Markers
    <2>3. Max(U) = i
        BY ONLY <2>2, GreatestIs
    <2> QED BY <2>1, <2>3 DEF OpenedBy
<1> HIDE DEF S, T
<1>4. Plain(Picked(lines, S)) /\ Plain(Picked(lines, T))
    BY <1>2, <1>3, PickedPlain
<1>5. \/ BlockOf(lines, opening, id) = Picked(lines, S)
      \/ BlockOf(lines, opening, id) = Picked(lines, T) \o Picked(lines, S)
    <2>1. Preamble(lines, opening) = Picked(lines, T)
        BY Zenon DEF Preamble, T
    <2> QED BY <2>1 DEF BlockOf, S
<1> QED
    BY <1>4, <1>5, PlainJoined

(* What goes back are sources, of the cells whose markers are there.       *)
LEMMA GivesSources ==
    ASSUME NEW cells, IsBook(cells), NEW lines, Fits(lines, cells),
           NEW sources, sources = distributeWriteBack(lines, BuildOf(cells))
    PROVE  /\ DOMAIN sources = MarkedIds(lines) /\ MarkedIds(lines) \subseteq CodeIds(cells)
           /\ sources = [id \in MarkedIds(lines) |-> sources[id]]
           /\ \A id \in MarkedIds(lines) : IsSource(sources[id])
<1>1. PICK build, opening :
         build = BuildOf(cells) /\ opening = Opening(lines, build)
    OBVIOUS
<1>2. IsSeq(lines) /\ MarkedIds(lines) \subseteq CodeIds(cells) /\ DOMAIN lines = 1 .. Len(lines)
    BY SeqIs DEF Fits
<1>3. KnownCells(build) = CodeIds(cells)
    BY <1>1, KnownIs
<1>4. opening = Markers(lines)
    <2>1. opening = {i \in 1 .. Len(lines) : lines[i][1] = "marker" /\ lines[i][2] \in CodeIds(cells)}
        BY <1>1, <1>2, <1>3 DEF Opening
    <2>2. \A i \in 1 .. Len(lines) : lines[i][1] = "marker" => lines[i][2] \in CodeIds(cells)
        BY <1>2 DEF MarkedIds, Markers
    <2> QED BY <2>1, <2>2 DEF Markers
<1> DEFINE Back(id) ==
              LET block == BlockOf(lines, opening, id)
                  prov == ProvenanceOf(build, id)
              IN Text(IF Len(block) # Len(prov) THEN block
                      ELSE [i \in DOMAIN block |-> denormalizeLine(block[i], prov[i])])
<1>5. sources = [id \in {lines[i][2] : i \in opening} |-> Back(id)]
    BY <1>1 DEF distributeWriteBack
<1>6. {lines[i][2] : i \in opening} = MarkedIds(lines)
    BY <1>4 DEF MarkedIds
<1>7. ASSUME NEW id \in MarkedIds(lines) PROVE IsSource(Back(id))
    <2>1. PICK k \in 1 .. Len(cells) : IsCode(cells, k) /\ cells[k].id = id
        BY <1>2 DEF CodeIds
    <2>2. PICK block, prov, source :
             /\ block = BlockOf(lines, opening, id) /\ prov = ProvenanceOf(build, id)
             /\ source = cells[k].source
        OBVIOUS
    <2>3. Plain(block)
        BY <1>2, <1>4, <2>2, BlockIsPlain
    <2>4. PICK f, m : TextOf(cells, f, m)
        BY TextIs
    <2>5. /\ Len(prov) = Len(source)
          /\ \A i \in 1 .. Len(source) : prov[i] = normalizeCell(source).provenance[i]
        BY <1>1, <2>1, <2>2, <2>4, ProvenanceIs
    <2>6. Plain(source)
        BY <2>2 DEF IsBook, IsSource
    <2>7. CASE Len(block) # Len(prov)
        <3>1. Back(id) = Text(block)
            BY <2>2, <2>7
        <3> QED BY ONLY <2>3, <3>1, TextIsSource
    <2>8. CASE Len(block) = Len(prov)
        <3>1. PICK w \in Nat : Len(source) = w
            BY <2>6, SeqIs DEF Plain
        <3>2. DOMAIN block = 1 .. w
            BY <2>3, <2>5, <2>8, <3>1, SeqIs DEF Plain
        <3>3. PICK text : text = [i \in 1 .. w |-> denormalizeLine(block[i], prov[i])]
            OBVIOUS
        <3>4. Back(id) = Text(text)
            BY <2>2, <2>8, <3>2, <3>3
        <3>5. text = [i \in 1 .. w |-> text[i]]
            BY <3>3
        <3>6. IsSeq(text) /\ Len(text) = w
            BY ONLY <3>5, w \in Nat, MadeSeq
        <3>7. ASSUME NEW i \in 1 .. w PROVE text[i][1] # "marker"
            <4>1. text[i] = denormalizeLine(block[i], prov[i])
                BY <3>3
            <4>2. block[i][1] # "marker" /\ source[i][1] # "marker"
                BY <2>3, <2>5, <2>6, <2>8, <3>1 DEF Plain
            <4>3. prov[i].kind = "magic" => prov[i].original = source[i]
                BY <2>5, <2>6, <3>1, OriginalIs DEF Plain
            <4>4. text[i] = block[i] \/ (prov[i].kind = "magic" /\ text[i] = prov[i].original)
                BY <4>1 DEF denormalizeLine
            <4> QED BY ONLY <4>2, <4>3, <4>4
        <3>8. Plain(text)
            BY ONLY <3>6, <3>7 DEF Plain
        <3> QED BY ONLY <3>4, <3>8, TextIsSource
    <2> QED BY ONLY <2>7, <2>8
<1> HIDE DEF Back
<1>8. sources = [id \in MarkedIds(lines) |-> Back(id)]
    BY ONLY <1>5, <1>6
<1> QED
    BY ONLY <1>2, <1>7, <1>8

(* If every code cell gets what it has, the buffer is the notebook.        *)
LEMMA GivesThemBack ==
    ASSUME NEW cells, IsBook(cells), NEW lines, Fits(lines, cells),
           NEW sources, sources = distributeWriteBack(lines, BuildOf(cells)),
           \A id \in DOMAIN sources : SourcesOf(cells)[id] = sources[id],
           DOMAIN sources # {} \/ CodeIds(cells) = {}
    PROVE  sources = CodeSources(cells)
<1>1. /\ DOMAIN sources = MarkedIds(lines) /\ MarkedIds(lines) \subseteq CodeIds(cells)
      /\ sources = [id \in MarkedIds(lines) |-> sources[id]]
    BY GivesSources
<1>2. MarkedIds(lines) = CodeIds(cells)
    BY <1>1 DEF Fits
<1>3. DOMAIN cells = 1 .. Len(cells)
    BY SeqIs DEF IsBook
<1>4. {c.id : c \in {cells[i] : i \in {j \in DOMAIN cells : cells[j].cell_type = "code"}}} =
         CodeIds(cells)
    BY <1>3 DEF CodeIds, IsCode
<1>5. CodeSources(cells) = [id \in CodeIds(cells) |-> cells[Index(cells, id)].source]
    BY <1>4 DEF CodeSources
<1>6. ASSUME NEW id \in CodeIds(cells) PROVE sources[id] = cells[Index(cells, id)].source
    <2>1. id \in Ids /\ id \in CellIds(cells)
        BY <1>3 DEF CodeIds, IsBook, CellIds
    <2>2. SourcesOf(cells)[id] = cells[Index(cells, id)].source
        BY <2>1 DEF SourcesOf
    <2>3. SourcesOf(cells)[id] = sources[id]
        BY <1>1, <1>2
    <2> QED BY ONLY <2>2, <2>3
<1> QED
    BY ONLY <1>1, <1>2, <1>5, <1>6

(* What the user writes is no marker, and no marker is written over.       *)
LEMMA SameMarks ==
    ASSUME NEW lines, NEW new, NEW cells, Fits(lines, cells), IsSeq(new),
           \A i \in Markers(lines) : \E j \in Markers(new) : new[j] = lines[i],
           \A j \in Markers(new) : \E i \in Markers(lines) : new[j] = lines[i]
    PROVE  Fits(new, cells)
<1>1. MarkedIds(new) = MarkedIds(lines)
    BY DEF MarkedIds
<1> QED
    BY <1>1 DEF Fits

LEMMA InCellIs ==
    ASSUME IsSeq(buf.lines), NEW i \in CellLines
    PROVE  i \in 1 .. Len(buf.lines) /\ buf.lines[i][1] # "marker"
<1>1. DOMAIN buf.lines = 1 .. Len(buf.lines) /\ Len(buf.lines) \in Nat
    BY SeqIs
<1>2. i \in 1 .. Len(buf.lines) /\ MarkerOf(i) # i
    BY <1>1 DEF CellLines
<1>3. ASSUME buf.lines[i][1] = "marker" PROVE FALSE
    <2>1. PICK U : U = {0} \cup {j \in 1 .. i : buf.lines[j][1] = "marker"}
        OBVIOUS
    <2>2. U \subseteq Nat /\ i \in U /\ \A j \in U : j <= i
        BY <1>1, <1>2, <1>3, <2>1
    <2>3. Max(U) = i
        BY ONLY <2>2, GreatestIs
    <2> QED BY <1>2, <2>1, <2>3 DEF MarkerOf
<1> QED
    BY <1>2, <1>3

LEMMA WrittenLine == ASSUME NEW l \in NewLines PROVE l[1] # "marker"
BY MirrorAssumption

LEMMA PutFits ==
    ASSUME NEW lines, NEW cells, Fits(lines, cells), NEW i \in 1 .. Len(lines),
           lines[i][1] # "marker", NEW l, l[1] # "marker",
           NEW new, new = Put(lines, i, l)
    PROVE  Fits(new, cells)
<1>1. PICK n \in Nat : Len(lines) = n
    BY SeqIs DEF Fits
<1>2. lines = [j \in 1 .. n |-> lines[j]]
    BY <1>1, SeqIs DEF Fits
<1>3. new = [j \in 1 .. n |-> new[j]] /\ \A j \in 1 .. n : new[j] = IF j = i THEN l ELSE lines[j]
    BY <1>1, <1>2 DEF Put
<1>4. IsSeq(new) /\ Len(new) = n
    BY ONLY <1>3, n \in Nat, MadeSeq
<1>5. Markers(new) = Markers(lines)
    BY <1>1, <1>3, <1>4 DEF Markers
<1>6. \A j \in Markers(lines) : new[j] = lines[j]
    BY <1>1, <1>3 DEF Markers
<1> QED
    BY ONLY <1>4, <1>5, <1>6, Fits(lines, cells), SameMarks

LEMMA InsertFits ==
    ASSUME NEW lines, NEW cells, Fits(lines, cells), NEW i \in 1 .. Len(lines),
           NEW l, l[1] # "marker", NEW new, new = InsertAt(lines, i, l)
    PROVE  Fits(new, cells)
<1>1. PICK n \in Nat : Len(lines) = n
    BY SeqIs DEF Fits
<1>2. i \in 1 .. n /\ i \in 1 .. n + 1
    BY <1>1
<1>3. /\ IsSeq(new) /\ Len(new) = n + 1
      /\ \A j \in 1 .. n + 1 :
            new[j] = IF j < i THEN lines[j] ELSE IF j = i THEN l ELSE lines[j - 1]
    BY <1>1, <1>2, InsertedIs DEF Fits
<1>4. ASSUME NEW j \in Markers(lines) PROVE \E h \in Markers(new) : new[h] = lines[j]
    <2>1. j \in 1 .. n /\ lines[j][1] = "marker"
        BY <1>1 DEF Markers
    <2>2. PICK h \in 1 .. n + 1 : new[h] = lines[j]
        <3>1. CASE j < i
            <4>1. j \in 1 .. n + 1
                BY <2>1
            <4> QED BY ONLY <1>3, <3>1, <4>1
        <3>2. CASE ~ (j < i)
            <4>0. PICK h \in 1 .. n + 1 : h = j + 1
                <5>1. j + 1 \in 1 .. n + 1
                    BY ONLY <2>1, n \in Nat
                <5> QED BY ONLY <5>1
            <4>1. ~ (h < i) /\ h # i /\ h - 1 = j
                BY ONLY <1>2, <2>1, <3>2, <4>0, n \in Nat
            <4>2. new[h] = lines[h - 1]
                BY ONLY <1>3, <4>1
            <4> QED BY ONLY <4>1, <4>2, Zenon
        <3> QED BY ONLY <3>1, <3>2
    <2> QED BY ONLY <1>3, <2>1, <2>2 DEF Markers
<1>5. ASSUME NEW h \in Markers(new) PROVE \E j \in Markers(lines) : new[h] = lines[j]
    <2>1. h \in 1 .. n + 1 /\ new[h][1] = "marker"
        BY <1>3 DEF Markers
    <2>2. h # i
        BY <1>3, <2>1
    <2>3. PICK j \in 1 .. n : new[h] = lines[j]
        <3>1. CASE h < i
            <4>1. h \in 1 .. n
                BY ONLY <1>2, <2>1, <3>1, n \in Nat
            <4> QED BY ONLY <1>3, <2>1, <3>1, <4>1
        <3>2. CASE ~ (h < i)
            <4>1. h - 1 \in 1 .. n
                BY ONLY <1>2, <2>1, <2>2, <3>2, n \in Nat
            <4> QED BY ONLY <1>3, <2>1, <2>2, <3>2, <4>1
        <3> QED BY ONLY <3>1, <3>2
    <2> QED BY ONLY <1>1, <2>1, <2>3 DEF Markers
<1> QED
    BY ONLY <1>3, <1>4, <1>5, Fits(lines, cells), SameMarks

LEMMA RemoveFits ==
    ASSUME NEW lines, NEW cells, Fits(lines, cells), NEW i \in 1 .. Len(lines),
           lines[i][1] # "marker", NEW new, new = RemoveAt(lines, i)
    PROVE  Fits(new, cells)
<1>1. PICK n \in Nat : Len(lines) = n
    BY SeqIs DEF Fits
<1>2. i \in 1 .. n
    BY <1>1
<1>3. /\ IsSeq(new) /\ Len(new) = n - 1
      /\ \A j \in 1 .. n - 1 : new[j] = IF j < i THEN lines[j] ELSE lines[j + 1]
    BY <1>1, <1>2, RemovedIs DEF Fits
<1>4. ASSUME NEW j \in Markers(lines) PROVE \E h \in Markers(new) : new[h] = lines[j]
    <2>1. j \in 1 .. n /\ lines[j][1] = "marker" /\ j # i
        BY <1>1 DEF Markers
    <2>2. PICK h \in 1 .. n - 1 : new[h] = lines[j]
        <3>1. CASE j < i
            <4>1. j \in 1 .. n - 1
                BY ONLY <1>2, <2>1, <3>1, n \in Nat
            <4> QED BY ONLY <1>3, <3>1, <4>1
        <3>2. CASE ~ (j < i)
            <4>1. PICK h \in 1 .. n - 1 : ~ (h < i) /\ h + 1 = j
                <5>1. j - 1 \in 1 .. n - 1 /\ ~ (j - 1 < i) /\ j - 1 + 1 = j
                    BY ONLY <1>2, <2>1, <3>2, n \in Nat
                <5> QED BY ONLY <5>1
            <4>2. new[h] = lines[h + 1]
                BY ONLY <1>3, <4>1
            <4> QED BY ONLY <4>1, <4>2, Zenon
        <3> QED BY ONLY <3>1, <3>2
    <2> QED BY ONLY <1>3, <2>1, <2>2 DEF Markers
<1>5. ASSUME NEW h \in Markers(new) PROVE \E j \in Markers(lines) : new[h] = lines[j]
    <2>1. h \in 1 .. n - 1 /\ new[h][1] = "marker"
        BY <1>3 DEF Markers
    <2>2. PICK j \in 1 .. n : new[h] = lines[j]
        <3>1. h \in 1 .. n /\ h + 1 \in 1 .. n
            BY ONLY <2>1, n \in Nat
        <3> QED BY ONLY <1>3, <2>1, <3>1
    <2> QED BY ONLY <1>1, <2>1, <2>2 DEF Markers
<1> QED
    BY ONLY <1>3, <1>4, <1>5, Fits(lines, cells), SameMarks

(* A line above, or a block of a cell below.                               *)
LEMMA AroundFits ==
    ASSUME NEW lines, NEW cells, Fits(lines, cells), NEW l, l[1] # "marker", NEW new,
           \/ new = <<l>> \o lines
           \/ \E i \in Markers(lines) : new = lines \o <<lines[i], l>>
    PROVE  Fits(new, cells)
<1>1. PICK n \in Nat : Len(lines) = n
    BY SeqIs DEF Fits
<1>2. CASE new = <<l>> \o lines
    <2>1. /\ IsSeq(new) /\ Len(new) = 1 + n /\ new[1] = l
          /\ \A j \in 1 .. n : new[1 + j] = lines[j]
        <3>1. IsSeq(<<l>>) /\ IsSeq(lines) /\ Len(<<l>>) = 1 /\ <<l>>[1] = l
            BY OneIsSeq DEF Fits
        <3>2. /\ IsSeq(<<l>> \o lines) /\ Len(<<l>> \o lines) = Len(<<l>>) + Len(lines)
              /\ \A j \in 1 .. Len(<<l>>) : (<<l>> \o lines)[j] = <<l>>[j]
              /\ \A j \in 1 .. Len(lines) : (<<l>> \o lines)[Len(<<l>>) + j] = lines[j]
            BY <3>1, Joined
        <3>3. /\ IsSeq(new) /\ Len(new) = 1 + n
              /\ \A j \in 1 .. 1 : new[j] = <<l>>[j]
              /\ \A j \in 1 .. n : new[1 + j] = lines[j]
            BY ONLY <1>1, <1>2, <3>1, <3>2, Zenon
        <3>4. 1 \in 1 .. 1
            OBVIOUS
        <3> QED BY ONLY <3>1, <3>3, <3>4, Zenon
    <2>2. ASSUME NEW j \in Markers(lines) PROVE \E h \in Markers(new) : new[h] = lines[j]
        <3>1. j \in 1 .. n /\ lines[j][1] = "marker"
            BY <1>1 DEF Markers
        <3>2. 1 + j \in 1 .. 1 + n
            BY ONLY <3>1, n \in Nat
        <3> QED BY ONLY <2>1, <3>1, <3>2 DEF Markers
    <2>3. ASSUME NEW h \in Markers(new) PROVE \E j \in Markers(lines) : new[h] = lines[j]
        <3>1. h \in 1 .. 1 + n /\ new[h][1] = "marker"
            BY <2>1 DEF Markers
        <3>2. h # 1
            BY <2>1, <3>1
        <3>3. PICK j \in 1 .. n : h = 1 + j
            <4>1. h - 1 \in 1 .. n /\ h = 1 + (h - 1)
                BY ONLY <3>1, <3>2, n \in Nat
            <4> QED BY ONLY <4>1
        <3> QED BY ONLY <1>1, <2>1, <3>1, <3>3 DEF Markers
    <2> QED BY ONLY <2>1, <2>2, <2>3, Fits(lines, cells), SameMarks
<1>3. ASSUME NEW i \in Markers(lines), new = lines \o <<lines[i], l>>
      PROVE  Fits(new, cells)
    <2>1. PICK mark : mark = lines[i]
        OBVIOUS
    <2>2. <<mark, l>> = [j \in 1 .. 2 |-> <<mark, l>>[j]] /\ <<mark, l>>[1] = mark /\ <<mark, l>>[2] = l
        OBVIOUS
    <2>3. IsSeq(<<mark, l>>) /\ Len(<<mark, l>>) = 2
        BY ONLY <2>2, MadeSeq
    <2>4. /\ IsSeq(new) /\ Len(new) = n + 2
          /\ \A j \in 1 .. n : new[j] = lines[j]
          /\ \A j \in 1 .. 2 : new[n + j] = <<mark, l>>[j]
        <3>1. IsSeq(lines)
            BY DEF Fits
        <3>2. PICK tail : tail = <<mark, l>>
            OBVIOUS
        <3>3. /\ IsSeq(lines \o tail) /\ Len(lines \o tail) = Len(lines) + Len(tail)
              /\ \A j \in 1 .. Len(lines) : (lines \o tail)[j] = lines[j]
              /\ \A j \in 1 .. Len(tail) : (lines \o tail)[Len(lines) + j] = tail[j]
            BY <2>3, <3>1, <3>2, Joined
        <3> QED BY ONLY <1>1, <1>3, <2>1, <2>3, <3>2, <3>3, Zenon
    <2>5. ASSUME NEW j \in Markers(lines) PROVE \E h \in Markers(new) : new[h] = lines[j]
        <3>1. j \in 1 .. n /\ lines[j][1] = "marker"
            BY <1>1 DEF Markers
        <3>2. j \in 1 .. n + 2
            BY ONLY <3>1, n \in Nat
        <3> QED BY ONLY <2>4, <3>1, <3>2 DEF Markers
    <2>6. ASSUME NEW h \in Markers(new) PROVE \E j \in Markers(lines) : new[h] = lines[j]
        <3>1. h \in 1 .. n + 2 /\ new[h][1] = "marker"
            BY <2>4 DEF Markers
        <3>2. CASE h \in 1 .. n
            <4>1. new[h] = lines[h]
                BY ONLY <2>4, <3>2
            <4> QED BY ONLY <1>1, <3>1, <3>2, <4>1 DEF Markers
        <3>3. CASE h \notin 1 .. n
            <4>1. h = n + 1 \/ h = n + 2
                BY ONLY <3>1, <3>3, n \in Nat
            <4>2. 1 \in 1 .. 2 /\ 2 \in 1 .. 2
                OBVIOUS
            <4>3. new[n + 1] = mark /\ new[n + 2] = l
                BY ONLY <2>2, <2>4, <4>2, Zenon
            <4>4. h # n + 2
                BY ONLY <3>1, <4>3, l[1] # "marker"
            <4> QED BY ONLY <2>1, <4>1, <4>3, <4>4, i \in Markers(lines)
        <3> QED BY ONLY <3>2, <3>3
    <2> QED BY ONLY <2>4, <2>5, <2>6, Fits(lines, cells), SameMarks
<1> QED
    BY <1>2, <1>3

LEMMA TypingFits ==
    ASSUME NEW cells, Typing, IsBuffer(buf), Fits(buf.lines, cells)
    PROVE  Fits(buf'.lines, cells)
<1>1. PICK lines : Edited(lines) /\ Fits(lines, cells)
    <2>1. CASE ChangeLine
        <3>1. PICK i \in CellLines, l \in NewLines : Edited(Put(buf.lines, i, l))
            BY <2>1 DEF ChangeLine, Put
        <3> QED BY <3>1, InCellIs, WrittenLine, PutFits, ZenonT(30) DEF Fits
    <2>2. CASE AddLine
        <3>1. PICK i \in CellLines, l \in NewLines : Edited(InsertAt(buf.lines, i, l))
            BY <2>2 DEF AddLine
        <3> QED BY <3>1, InCellIs, WrittenLine, InsertFits DEF Fits
    <2>3. CASE RemoveLine
        <3>1. PICK i \in CellLines : Edited(RemoveAt(buf.lines, i))
            BY <2>3 DEF RemoveLine
        <3> QED BY <3>1, InCellIs, RemoveFits DEF Fits
    <2>4. CASE AddPreamble
        <3>1. PICK l \in NewLines : Edited(<<l>> \o buf.lines)
            BY <2>4 DEF AddPreamble
        <3> QED BY <3>1, WrittenLine, AroundFits
    <2>5. CASE PasteBlock
        <3>1. PICK i \in DOMAIN buf.lines, l \in NewLines :
                 buf.lines[i][1] = "marker" /\ Edited(buf.lines \o <<buf.lines[i], l>>)
            BY <2>5 DEF PasteBlock
        <3>2. i \in Markers(buf.lines)
            BY <3>1, SeqIs DEF Markers, Fits
        <3> QED BY <3>1, <3>2, WrittenLine, AroundFits
    <2>6. CASE LoseMarkers
        <3>1. PICK new : /\ new = Picked(buf.lines, {i \in DOMAIN buf.lines : buf.lines[i][1] # "marker"})
                         /\ Edited(new)
            BY <2>6 DEF LoseMarkers
        <3>2. Plain(new)
            BY <3>1, PickedPlain DEF Fits
        <3>3. Markers(new) = {}
            BY <3>2 DEF Plain, Markers
        <3>4. MarkedIds(new) = {}
            BY <3>3 DEF MarkedIds
        <3> QED BY <3>1, <3>2, <3>4 DEF Fits, Plain
    <2> QED BY <2>1, <2>2, <2>3, <2>4, <2>5, <2>6 DEF Typing
<1>2. buf' = [buf EXCEPT !.lines = lines, !.modified = TRUE]
    BY <1>1 DEF Edited
<1>3. PICK state, text, modified :
         buf = [state |-> state, lines |-> text, modified |-> modified]
    BY DEF IsBuffer
<1>4. buf' = [state |-> state, lines |-> lines, modified |-> TRUE]
    BY ONLY <1>2, <1>3
<1> QED
    BY <1>1, <1>4

-----------------------------------------------------------------------------
(* What is stored: the notebook, the entries of the undo history, and what *)
(* the scratch buffers hold, are notebooks and sources that a file could   *)
(* hold, with ids given so far.                                            *)

Sources(m) == \A id \in DOMAIN m : IsSource(m[id])

Entries(s, n) ==
    /\ IsSeq(s)
    /\ \A i \in 1 .. Len(s) : Book(s[i].snapshot, n) /\ Sources(s[i].sync)

Cells ==
    /\ used.ids \in Nat
    /\ Book(nb, used.ids) /\ Whole(nb)
    /\ Entries(undo, used.ids) /\ Entries(redo, used.ids)
    /\ Sources(call.show)

Holds(b) == Plain(b.lines) /\ (b.state = "open" => b.lines # <<>>)

Held == \A id \in Ids : Holds(scratch[id])

LEMMA NoEntries == ASSUME NEW n PROVE Entries(<<>>, n)
<1>1. IsSeq(<<>>) /\ Len(<<>>) = 0 /\ \A i \in 1 .. 0 : FALSE
    BY NoneIsSeq
<1> QED
    BY ONLY <1>1 DEF Entries

LEMMA NoSources == Sources(<<>>)
<1>1. DOMAIN <<>> = {}
    OBVIOUS
<1> QED
    BY <1>1 DEF Sources

LEMMA OneSource ==
    ASSUME NEW id, NEW s, IsSource(s)
    PROVE  Sources([c \in {id} |-> s])
BY DEF Sources

LEMMA LaterEntries ==
    ASSUME NEW s, NEW n \in Nat, Entries(s, n), NEW m \in Nat, n <= m
    PROVE  Entries(s, m)
BY LaterIs DEF Entries

LEMMA EntryAdded ==
    ASSUME NEW s, NEW n, Entries(s, n), NEW e, Book(e.snapshot, n), Sources(e.sync),
           NEW t, t = Append(s, e)
    PROVE  Entries(t, n)
<1>1. PICK k \in Nat : Len(s) = k
    BY SeqIs DEF Entries
<1>2. /\ IsSeq(t) /\ Len(t) = k + 1
      /\ \A i \in 1 .. k + 1 : t[i] = IF i <= k THEN s[i] ELSE e
    <2>1. PICK S : s \in Seq(S)
        BY DEF Entries, IsSeq
    <2>2. s \in Seq(S \cup {e})
        BY <2>1
    <2>3. t \in Seq(S \cup {e}) /\ Len(t) = k + 1
        BY <1>1, <2>2
    <2>4. \A i \in 1 .. k + 1 : t[i] = IF i <= k THEN s[i] ELSE e
        BY <1>1, <2>2
    <2> QED BY ONLY <2>3, <2>4 DEF IsSeq
<1>3. ASSUME NEW i \in 1 .. k + 1 PROVE Book(t[i].snapshot, n) /\ Sources(t[i].sync)
    <2>1. CASE i <= k
        <3>1. i \in 1 .. k
            BY <2>1
        <3> QED BY ONLY <1>1, <1>2, <2>1, <3>1, Entries(s, n) DEF Entries
    <2>2. CASE ~ (i <= k)
        BY <1>2, <2>2
    <2> QED BY <2>1, <2>2
<1> QED
    BY ONLY <1>2, <1>3 DEF Entries

LEMMA EntryTaken ==
    ASSUME NEW s, NEW n, Entries(s, n), s # <<>>
    PROVE  Entries(Front(s), n) /\ Book(Last(s).snapshot, n) /\ Sources(Last(s).sync)
<1>1. PICK k \in Nat : Len(s) = k
    BY SeqIs DEF Entries
<1>2. k # 0
    BY <1>1, EmptyIs DEF Entries
<1>3. PICK h \in Nat : h = k - 1 /\ h \in 1 - 1 .. k
    BY <1>2
<1>4. Front(s) = SubSeq(s, 1, h) /\ Last(s) = s[k]
    BY <1>1, <1>3 DEF Front, Last
<1>5. /\ IsSeq(SubSeq(s, 1, h)) /\ Len(SubSeq(s, 1, h)) = h - 1 + 1
      /\ \A i \in 1 .. h - 1 + 1 : SubSeq(s, 1, h)[i] = s[1 + i - 1]
    <2>1. 1 \in 1 .. Len(s) + 1 /\ h \in 1 - 1 .. Len(s) /\ IsSeq(s)
        BY <1>1, <1>3 DEF Entries
    <2> QED BY ONLY <2>1, Cut
<1>6. Len(SubSeq(s, 1, h)) = h /\ \A i \in 1 .. h : SubSeq(s, 1, h)[i] = s[i]
    <2>1. h - 1 + 1 = h /\ \A i \in 1 .. h : 1 + i - 1 = i
        OBVIOUS
    <2> QED BY ONLY <1>5, <2>1
<1>7. \A i \in 1 .. h : i \in 1 .. k
    BY <1>3
<1>8. Entries(SubSeq(s, 1, h), n)
    BY ONLY <1>1, <1>5, <1>6, <1>7, Entries(s, n) DEF Entries
<1>9. k \in 1 .. k
    BY <1>2
<1> QED
    BY ONLY <1>1, <1>4, <1>8, <1>9, Entries(s, n) DEF Entries

(* A notebook of a file, and the greatest of its ids.                      *)
LEMMA FileIs ==
    ASSUME NEW cells \in Notebooks, NEW k \in Nat, NEW n, n = Max({k} \cup CellIds(cells))
    PROVE  n \in Nat /\ Book(cells, n) /\ Whole(cells)
<1>1. IsNotebook(cells) /\ CellIds(cells) \subseteq Ids
    BY MirrorAssumption
<1>2. IsSeq(cells)
    BY <1>1 DEF IsNotebook, IsSeq
<1>3. PICK N \in Nat : Len(cells) = N /\ DOMAIN cells = 1 .. N
    BY <1>2, SeqIs
<1>4. \A i \in 1 .. N : cells[i].id \in Ids /\ cells[i].id \in Nat
    BY <1>1, <1>3, MirrorAssumption DEF CellIds
<1> DEFINE Of(i) == {k} \cup {cells[j].id : j \in 1 .. i}
           T == {i \in 0 .. N : \E m \in Of(i) : \A j \in Of(i) : j <= m}
<1>5. \A i \in 0 .. N : Of(i) \subseteq Nat
    BY <1>4
<1>6. 0 \in T
    <2>1. Of(0) = {k}
        OBVIOUS
    <2> QED BY <2>1
<1>7. ASSUME NEW i \in 0 .. N - 1, i \in T PROVE i + 1 \in T
    <2>1. PICK m \in Of(i) : \A j \in Of(i) : j <= m
        BY <1>7
    <2>2. i \in 0 .. N /\ i + 1 \in 0 .. N /\ i + 1 \in 1 .. N
        OBVIOUS
    <2>3. PICK c \in Nat : c = cells[i + 1].id
        BY <1>4, <2>2
    <2>4. Of(i + 1) = Of(i) \cup {c}
        <3>1. 1 .. i + 1 = (1 .. i) \cup {i + 1}
            BY <2>2
        <3> QED BY <2>3, <3>1
    <2>5. m \in Nat /\ Of(i) \subseteq Nat
        BY <1>5, <2>1, <2>2
    <2> HIDE DEF Of
    <2>6. PICK g \in Of(i + 1) : \A j \in Of(i + 1) : j <= g
        <3>1. CASE c <= m
            BY <2>1, <2>4, <3>1
        <3>2. CASE ~ (c <= m)
            <4>1. \A j \in Of(i) : j <= c
                BY <2>1, <2>3, <2>5, <3>2
            <4>2. c <= c /\ c \in Of(i + 1)
                BY <2>3, <2>4
            <4> QED BY ONLY <2>4, <4>1, <4>2
        <3> QED BY <3>1, <3>2
    <2> QED BY <2>2, <2>6
<1>8. N \in T
    <2> HIDE DEF T
    <2> QED BY <1>6, <1>7, Induction
<1>9. Of(N) = {k} \cup CellIds(cells)
    BY <1>3 DEF CellIds
<1>10. PICK m \in Of(N) : \A j \in Of(N) : j <= m
    BY <1>8
<1>11. n = m /\ m \in Nat
    <2>1. Of(N) \subseteq Nat
        BY <1>5
    <2> HIDE DEF Of
    <2> QED BY <1>9, <1>10, <2>1, GreatestIs
<1>12. ASSUME NEW i \in 1 .. N PROVE Good(cells[i], n) /\ IsCell(cells[i])
    <2>1. cells[i].id <= n
        BY <1>10, <1>11
    <2>2. PICK source : source = cells[i].source
        OBVIOUS
    <2>3. source \in Seq(Range(source)) \ {<<>>} /\ \A l \in Range(source) : l[1] # "marker"
        BY <1>1, <1>3, <2>2 DEF IsNotebook
    <2>4. IsSeq(source)
        BY <2>3 DEF IsSeq
    <2>5. \A j \in 1 .. Len(source) : source[j] \in Range(source)
        BY <2>3
    <2>6. IsSource(source)
        BY <2>3, <2>4, <2>5 DEF IsSource, Plain
    <2>7. IsCell(cells[i])
        BY <1>1, <1>3 DEF IsNotebook, IsCell
    <2> QED BY <1>4, <2>1, <2>2, <2>6, <2>7 DEF Good
<1>13. \A i, j \in 1 .. N : cells[i].id = cells[j].id => i = j
    BY <1>1, <1>3 DEF IsNotebook
<1> QED
    BY <1>2, <1>3, <1>11, <1>12, <1>13 DEF Book, Whole

LEMMA EntryIs ==
    ASSUME NEW n, Book(nb, n), NEW before, NEW after, NEW sync, NEW e,
           e = Entry(before, after, sync)
    PROVE  Book(e.snapshot, n) /\ e.sync = sync
<1>1. e.snapshot = takeStructuralSnapshot(nb) /\ e.sync = sync
    BY DEF Entry
<1> QED
    BY <1>1, SnapshotIs

(* Cells of the notebook are given sources.                                *)
LEMMA WrittenBackIs ==
    ASSUME NEW n, Book(nb, n), Whole(nb), NEW sources, Sources(sources),
           NEW new, new = WrittenBack(sources)
    PROVE  Book(new, n) /\ Whole(new)
<1>1. PICK k \in Nat : Len(nb) = k /\ DOMAIN nb = 1 .. k
    BY SeqIs DEF Book
<1>2. new = [i \in 1 .. k |->
                IF nb[i].id \in DOMAIN sources THEN Sourced(nb[i], sources[nb[i].id])
                ELSE nb[i]]
    BY <1>1 DEF WrittenBack, Sourced
<1>3. new = [i \in 1 .. k |-> new[i]]
    BY <1>2
<1>4. IsSeq(new) /\ Len(new) = k
    BY ONLY <1>3, k \in Nat, MadeSeq
<1>5. ASSUME NEW i \in 1 .. k
      PROVE  IsCell(new[i]) /\ new[i].id = nb[i].id /\ IsSource(new[i].source)
    <2>1. IsCell(nb[i]) /\ IsSource(nb[i].source)
        BY <1>1 DEF Whole, Book, Good
    <2>2. CASE nb[i].id \in DOMAIN sources
        <3>1. PICK source : source = sources[nb[i].id] /\ IsSource(source)
            BY <2>2 DEF Sources
        <3>2. new[i] = Sourced(nb[i], source)
            BY <1>2, <2>2, <3>1
        <3>3. IsCell(new[i]) /\ new[i].id = nb[i].id /\ new[i].source = source
            BY ONLY <2>1, <3>2, WithSource
        <3> QED BY ONLY <3>1, <3>3
    <2>3. CASE nb[i].id \notin DOMAIN sources
        BY <1>2, <2>1, <2>3
    <2> QED BY ONLY <2>2, <2>3
<1>6. \A i \in 1 .. k : Good(new[i], n)
    BY <1>1, <1>5 DEF Book, Good
<1>7. \A i, j \in 1 .. k : new[i].id = new[j].id => i = j
    BY <1>1, <1>5 DEF Book
<1> QED
    BY ONLY <1>4, <1>5, <1>6, <1>7 DEF Book, Whole

-----------------------------------------------------------------------------
(* The notebook and its entries in the steps.                              *)

LEMMA CellsKept ==
    ASSUME Cells, UNCHANGED notebook, used'.ids = used.ids, Sources(call'.show)
    PROVE  Cells'
BY DEF Cells, notebook

LEMMA OperateCells ==
    ASSUME IInv, Cells, NEW ids \in {0, 1}, NEW new, NEW before, NEW after, NEW sync,
           NEW show, NEW drop,
           Operate(new, Entry(before, after, sync), ids, show, drop),
           Sources(sync), Sources(show), Book(new, used.ids + ids), Whole(new)
    PROVE  Cells'
<1>1. PICK n, o, t : n \in Nat /\ used = [ids |-> n, ops |-> o, typed |-> t]
    BY DEF Cells, IInv, Shapes
<1>2. used' = [used EXCEPT !.ops = @ + 1, !.ids = @ + ids]
    BY DEF Operate
<1>3. used' = [ids |-> n + ids, ops |-> o + 1, typed |-> t]
    BY ONLY <1>1, <1>2
<1>4. PICK m \in Nat : m = n + ids
    BY <1>1
<1>14. n <= m /\ n \in Nat /\ m \in Nat
    BY <1>1, <1>4
<1>5. used.ids = n /\ used'.ids = m
    BY ONLY <1>1, <1>3, <1>4
<1>6. PICK e : e = Entry(before, after, sync)
    OBVIOUS
<1>7. nb' = new /\ undo' = Append(undo, e) /\ redo' = <<>>
    BY <1>6 DEF Operate
<1>8. Book(nb, n) /\ Entries(undo, n) /\ Book(new, m)
    BY <1>1, <1>4 DEF Cells
<1>9. Book(e.snapshot, n) /\ e.sync = sync
    BY <1>6, <1>8, EntryIs
<1>10. Entries(undo', n)
    BY ONLY <1>7, <1>8, <1>9, Sources(sync), EntryAdded
<1>11. Entries(undo', m)
    BY ONLY <1>10, <1>14, LaterEntries
<1>12. call'.show = show
    BY DEF Operate, NoCall
<1>13. Entries(redo', m)
    BY <1>7, NoEntries
<1> QED
    BY ONLY <1>5, <1>7, <1>8, <1>11, <1>12, <1>13, Whole(new), Sources(show) DEF Cells

LEMMA OperationCells ==
    ASSUME IInv, Cells,
           InsertCell \/ MoveCell \/ ChangeCellType \/ DeleteCell \/ SplitCell \/ JoinCell
    PROVE  Cells'
<1>1. PICK n \in Nat : used.ids = n
    BY DEF Cells
<1>2. Book(nb, n) /\ Whole(nb) /\ Sources(<<>>) /\ n + 0 = n
    BY <1>1, NoSources DEF Cells
<1>3. CASE InsertCell
    <2>1. PICK anchor, position :
             /\ anchor \in CellIds(nb) \cup {0}
             /\ anchor = 0 <=> nb = <<>>
             /\ n + 1 \in Ids
             /\ Operate(insertCell(nb, position, "code", anchor, n + 1),
                        Entry(anchor, n + 1, <<>>), 1, <<>>, {})
        BY <1>1, <1>3 DEF InsertCell
    <2>2. anchor \in CellIds(nb) \/ nb = <<>>
        BY <2>1
    <2>3. PICK new : new = insertCell(nb, position, "code", anchor, n + 1)
        OBVIOUS
    <2>4. Book(new, n + 1) /\ Whole(new)
        BY ONLY <1>2, <2>1, <2>2, <2>3, n \in Nat, InsertCellIs
    <2> QED BY <1>1, <1>2, <2>1, <2>3, <2>4, OperateCells
<1>4. CASE MoveCell
    <2>1. PICK id, direction :
             /\ id \in CellIds(nb)
             /\ Operate(moveCell(nb, id, direction), Entry(id, id, <<>>), 0, <<>>, {})
        BY <1>4 DEF MoveCell
    <2>2. PICK new : new = moveCell(nb, id, direction)
        OBVIOUS
    <2>3. Book(new, n) /\ Whole(new)
        BY <1>2, <2>1, <2>2, MoveCellIs
    <2> QED BY <1>1, <1>2, <2>1, <2>2, <2>3, OperateCells
<1>5. CASE ChangeCellType
    <2>1. PICK id, type :
             /\ id \in CellIds(nb)
             /\ Operate(changeCellType(nb, id, type), Entry(id, id, <<>>), 0, <<>>, {})
        BY <1>5 DEF ChangeCellType
    <2>2. PICK new : new = changeCellType(nb, id, type)
        OBVIOUS
    <2>3. Book(new, n) /\ Whole(new)
        BY <1>2, <2>1, <2>2, ChangeCellTypeIs
    <2> QED BY <1>1, <1>2, <2>1, <2>2, <2>3, OperateCells
<1>6. CASE DeleteCell
    <2>1. PICK id, cursor :
             /\ id \in CellIds(nb)
             /\ Operate(deleteCell(nb, id), Entry(id, cursor, <<>>), 0, <<>>, {})
        BY <1>6 DEF DeleteCell
    <2>2. PICK new : new = deleteCell(nb, id)
        OBVIOUS
    <2>3. Book(new, n) /\ Whole(new)
        BY <1>2, <2>1, <2>2, DeleteCellIs
    <2> QED BY <1>1, <1>2, <2>1, <2>2, <2>3, OperateCells
<1>7. CASE SplitCell
    <2>1. PICK id \in CellIds(nb) : \E at \in 0 .. Len(nb[Index(nb, id)].source) :
             LET new == splitCell(nb, id, at, n + 1)
             IN /\ n + 1 \in Ids
                /\ Operate(new, Entry(id, id, <<>>), 1,
                           [c \in {id} |-> new[Index(new, id)].source], {})
        BY <1>1, <1>7 DEF SplitCell
    <2>2. PICK at, new, show :
             /\ at \in 0 .. Len(nb[Index(nb, id)].source)
             /\ n + 1 \in Ids /\ new = splitCell(nb, id, at, n + 1)
             /\ show = [c \in {id} |-> new[Index(new, id)].source]
             /\ Operate(new, Entry(id, id, <<>>), 1, show, {})
        BY <2>1
    <2>3. Book(new, n + 1) /\ Whole(new) /\ IsSource(new[Index(new, id)].source)
        BY ONLY <1>2, <2>2, n \in Nat, id \in CellIds(nb), SplitCellIs
    <2>4. Sources(show)
        BY ONLY <2>2, <2>3, OneSource
    <2> QED BY <1>1, <1>2, <2>2, <2>3, <2>4, OperateCells
<1>8. CASE JoinCell
    <2>1. PICK i, new, show :
             /\ i \in 2 .. Len(nb)
             /\ new = joinCell(nb, nb[i].id)
             /\ show = [c \in {nb[i - 1].id} |-> new[i - 1].source]
             /\ Operate(new, Entry(nb[i - 1].id, nb[i - 1].id, <<>>), 0, show, {nb[i].id})
        BY <1>8 DEF JoinCell
    <2>2. Book(new, n) /\ Whole(new) /\ IsSource(new[i - 1].source)
        BY <1>2, <2>1, JoinCellIs
    <2>3. Sources(show)
        BY ONLY <2>1, <2>2, OneSource
    <2> QED BY <1>1, <1>2, <2>1, <2>2, <2>3, OperateCells
<1> QED
    BY <1>3, <1>4, <1>5, <1>6, <1>7, <1>8

LEMMA TimelineCells == ASSUME IInv, Cells, Undo \/ Redo PROVE Cells'
<1>1. PICK n, o, t : n \in Nat /\ used = [ids |-> n, ops |-> o, typed |-> t]
    BY DEF Cells, IInv, Shapes
<1>2. Book(nb, n) /\ Whole(nb) /\ Entries(undo, n) /\ Entries(redo, n)
    BY <1>1 DEF Cells
<1>3. PICK from, to, kind :
         /\ ProcessOne(from, to, kind) /\ Entries(from, n) /\ Entries(to, n)
         /\ kind = "undo" => from = undo /\ to = redo
         /\ kind # "undo" => from = redo /\ to = undo
    BY <1>2 DEF Undo, Redo
<1>4. PICK entry, sync, back :
         /\ entry = Last(from) /\ sync = DOMAIN entry.sync
         /\ back = [snapshot |-> takeStructuralSnapshot(nb), before |-> entry.before,
                    after |-> entry.after,
                    sync |-> [id \in sync |-> IF id \in CellIds(nb)
                                              THEN nb[Index(nb, id)].source
                                              ELSE entry.sync[id]]]
         /\ from # <<>> /\ nb' = restoreStructural(nb, entry.snapshot)
         /\ IF kind = "undo" THEN undo' = Front(undo) /\ redo' = Append(redo, back)
            ELSE redo' = Front(redo) /\ undo' = Append(undo, back)
         /\ call' = [NoCall EXCEPT !.pc = "refresh", !.show = entry.sync, !.trims = TRUE]
         /\ used' = [used EXCEPT !.ops = @ + 1]
    BY <1>3 DEF ProcessOne
<1>5. Entries(Front(from), n) /\ Book(entry.snapshot, n) /\ Sources(entry.sync)
    BY ONLY <1>3, <1>4, EntryTaken
<1>6. Book(nb', n) /\ Whole(nb')
    BY ONLY <1>4, <1>5, RestoredIs
<1>7. Book(back.snapshot, n)
    <2>1. back.snapshot = takeStructuralSnapshot(nb)
        BY ONLY <1>4
    <2> QED BY ONLY <1>2, <2>1, SnapshotIs
<1>8. Sources(back.sync)
    <2>1. back.sync = [id \in sync |-> IF id \in CellIds(nb) THEN nb[Index(nb, id)].source
                                       ELSE entry.sync[id]]
        BY ONLY <1>4
    <2>2. ASSUME NEW id \in sync PROVE IsSource(back.sync[id])
        <3>1. CASE id \in CellIds(nb)
            <4>1. Index(nb, id) \in 1 .. Len(nb)
                BY <1>2, <3>1, FoundIs DEF Book
            <4>2. IsSource(nb[Index(nb, id)].source)
                BY <1>2, <4>1 DEF Book, Good
            <4> QED BY ONLY <2>1, <3>1, <4>2, id \in sync
        <3>2. CASE id \notin CellIds(nb)
            <4>1. IsSource(entry.sync[id])
                BY <1>4, <1>5 DEF Sources
            <4> QED BY ONLY <2>1, <3>2, <4>1, id \in sync
        <3> QED BY <3>1, <3>2
    <2> QED BY ONLY <2>1, <2>2 DEF Sources
<1>9. Entries(Append(to, back), n)
    BY ONLY <1>3, <1>7, <1>8, EntryAdded
<1>10. Entries(undo', n) /\ Entries(redo', n)
    BY ONLY <1>3, <1>4, <1>5, <1>9
<1>11. used' = [ids |-> n, ops |-> o + 1, typed |-> t]
    BY ONLY <1>1, <1>4
<1>12. used'.ids = n
    BY ONLY <1>11
<1>13. call'.show = entry.sync
    BY ONLY <1>4 DEF NoCall
<1> QED
    BY ONLY <1>1, <1>5, <1>6, <1>10, <1>12, <1>13 DEF Cells

LEMMA SaveMirrorCells ==
    ASSUME IInv, Cells, SaveMirror, Fits(buf.lines, nb), mirror.build = BuildOf(nb)
    PROVE  Cells' /\ Refreshed(nb', TRUE)
<1>1. PICK n \in Nat : used.ids = n
    BY DEF Cells
<1>2. Book(nb, n) /\ Whole(nb) /\ Entries(undo, n)
    BY <1>1 DEF Cells
<1>3. PICK sources : sources = distributeWriteBack(buf.lines, BuildOf(nb))
    OBVIOUS
<1>4. PICK e, hint :
         /\ e = Entry(hint, hint, <<>>) /\ undo' = Append(undo, e)
         /\ nb' = WrittenBack(sources) /\ Refreshed(WrittenBack(sources), TRUE)
         /\ redo' = <<>> /\ UNCHANGED <<call, used>>
    BY <1>3 DEF SaveMirror, Distributed
<1>5. Sources(sources)
    <2>1. IsBook(nb)
        BY <1>2, BookIs
    <2>2. /\ DOMAIN sources = MarkedIds(buf.lines)
          /\ \A id \in MarkedIds(buf.lines) : IsSource(sources[id])
        BY ONLY <1>3, <2>1, Fits(buf.lines, nb), GivesSources
    <2> QED BY ONLY <2>2 DEF Sources
<1>6. Book(nb', n) /\ Whole(nb')
    BY ONLY <1>2, <1>4, <1>5, WrittenBackIs
<1>7. Book(e.snapshot, n) /\ e.sync = <<>>
    BY ONLY <1>2, <1>4, EntryIs
<1>8. Entries(undo', n)
    BY ONLY <1>2, <1>4, <1>7, NoSources, EntryAdded
<1>9. Entries(redo', n)
    BY <1>4, NoEntries
<1> QED
    BY ONLY Cells, <1>1, <1>4, <1>6, <1>8, <1>9 DEF Cells

LEMMA SaveScratchCells ==
    ASSUME IInv, Cells, Held, NEW cell \in Ids, SaveScratch(cell)
    PROVE  Cells' /\ Refreshed(nb', FALSE)
<1>1. PICK n, o, t : n \in Nat /\ used = [ids |-> n, ops |-> o, typed |-> t]
    BY DEF Cells, IInv, Shapes
<1>2. Book(nb, n) /\ Whole(nb) /\ Entries(undo, n)
    BY <1>1 DEF Cells
<1>3. PICK e, sync, source :
         /\ source = scratch[cell].lines /\ sync = [c \in {cell} |-> nb[Index(nb, cell)].source]
         /\ e = Entry(cell, cell, sync) /\ undo' = Append(undo, e)
         /\ nb' = updateCellSource(nb, cell, source)
         /\ Refreshed(updateCellSource(nb, cell, source), FALSE)
         /\ redo' = <<>> /\ UNCHANGED call /\ used' = [used EXCEPT !.ops = @ + 1]
         /\ scratch[cell].state = "open" /\ cell \in CellIds(nb)
    BY DEF SaveScratch
<1>4. IsSource(source)
    BY <1>3 DEF Held, Holds, IsSource
<1>5. Book(nb', n) /\ Whole(nb')
    BY ONLY <1>2, <1>3, <1>4, UpdatedIs
<1>6. Book(e.snapshot, n) /\ e.sync = sync
    BY ONLY <1>2, <1>3, EntryIs
<1>7. Sources(sync)
    <2>1. Index(nb, cell) \in 1 .. Len(nb)
        BY <1>2, <1>3, FoundIs DEF Book
    <2>2. IsSource(nb[Index(nb, cell)].source)
        BY <1>2, <2>1 DEF Book, Good
    <2> QED BY ONLY <1>3, <2>2, OneSource
<1>8. Entries(undo', n)
    BY ONLY <1>2, <1>3, <1>6, <1>7, EntryAdded
<1>9. Entries(redo', n)
    BY <1>3, NoEntries
<1>10. used' = [ids |-> n, ops |-> o + 1, typed |-> t]
    BY ONLY <1>1, <1>3
<1>11. used'.ids = n /\ used.ids = n /\ n \in Nat
    BY ONLY <1>1, <1>10
<1> QED
    BY ONLY Cells, <1>3, <1>5, <1>8, <1>9, <1>11 DEF Cells

LEMMA ReopenCells ==
    ASSUME IInv, Cells, Reopen
    PROVE  Cells'
<1>1. PICK n, o, t : n \in Nat /\ used = [ids |-> n, ops |-> o, typed |-> t]
    BY DEF Cells, IInv, Shapes
<1>2. PICK m : m = Max({n} \cup CellIds(nb'))
    OBVIOUS
<1>3. used' = [used EXCEPT !.ops = @ + 1, !.ids = Max({@} \cup CellIds(nb'))]
    BY DEF Reopen
<1>4. used' = [ids |-> m, ops |-> o + 1, typed |-> t]
    BY ONLY <1>1, <1>2, <1>3
<1>5. used'.ids = m
    BY ONLY <1>4
<1>6. nb' \in Notebooks /\ undo' = <<>> /\ redo' = <<>> /\ call' = call
    BY DEF Reopen
<1>7. m \in Nat /\ Book(nb', m) /\ Whole(nb')
    BY ONLY <1>1, <1>2, <1>6, FileIs
<1>8. Entries(<<>>, m)
    BY NoEntries
<1> QED
    BY ONLY Cells, <1>5, <1>6, <1>7, <1>8 DEF Cells

LEMMA InitCells == Init => Cells /\ Held
<1> SUFFICES ASSUME Init PROVE Cells /\ Held
    OBVIOUS
<1>1. used.ids = Max({0} \cup CellIds(nb)) /\ nb \in Notebooks
    BY DEF Init
<1>2. used.ids \in Nat /\ Book(nb, used.ids) /\ Whole(nb)
    BY <1>1, FileIs
<1>3. call.show = <<>> /\ undo = <<>> /\ redo = <<>>
    BY DEF Init, NoCall
<1>4. Cells
    BY ONLY <1>2, <1>3, NoEntries, NoSources DEF Cells
<1>5. \A id \in Ids : scratch[id] = NoBuffer
    BY DEF Init
<1>6. Holds(NoBuffer)
    <2>1. Plain(<<>>)
        <3>1. \A i \in 1 .. 0 : FALSE
            OBVIOUS
        <3> QED BY ONLY <3>1, NoneIsSeq DEF Plain
    <2> QED BY <2>1 DEF Holds, NoBuffer
<1> QED
    BY <1>4, <1>5, <1>6 DEF Held

-----------------------------------------------------------------------------
(* Scratch buffers hold sources.                                           *)

LEMMA PlainAppended ==
    ASSUME NEW s, Plain(s), NEW l, l[1] # "marker"
    PROVE  Plain(Append(s, l))
<1>1. PICK k \in Nat : Len(s) = k
    BY SeqIs DEF Plain
<1>2. PICK S : s \in Seq(S)
    BY DEF Plain, IsSeq
<1>3. s \in Seq(S \cup {l})
    BY <1>2
<1>4. /\ Append(s, l) \in Seq(S \cup {l}) /\ Len(Append(s, l)) = k + 1
      /\ \A i \in 1 .. k + 1 : Append(s, l)[i] = IF i <= k THEN s[i] ELSE l
    BY <1>1, <1>3
<1>5. ASSUME NEW i \in 1 .. k + 1 PROVE Append(s, l)[i][1] # "marker"
    <2>1. CASE i <= k
        <3>1. i \in 1 .. k
            BY <2>1
        <3> QED BY <1>1, <1>4, <2>1, <3>1 DEF Plain
    <2>2. CASE ~ (i <= k)
        BY <1>4, <2>2
    <2> QED BY <2>1, <2>2
<1> QED
    BY ONLY <1>4, <1>5 DEF Plain, IsSeq

LEMMA FreezeHolds ==
    ASSUME NEW b, IsBuffer(b), Holds(b), NEW c, c = Freeze(b)
    PROVE  Holds(c)
<1>1. PICK state, text, modified :
         b = [state |-> state, lines |-> text, modified |-> modified]
    BY DEF IsBuffer
<1>2. c = [b EXCEPT !.state = "frozen", !.lines = Append(@, FrozenLine), !.modified = FALSE]
    BY DEF Freeze
<1>3. c = [state |-> "frozen", lines |-> Append(text, FrozenLine), modified |-> FALSE]
    BY <1>1, <1>2
<1>4. Plain(text)
    BY ONLY <1>1, Holds(b) DEF Holds
<1>5. FrozenLine[1] # "marker"
    BY MirrorAssumption
<1>6. Plain(Append(text, FrozenLine))
    BY ONLY <1>4, <1>5, PlainAppended
<1> QED
    BY ONLY <1>3, <1>6 DEF Holds

LEMMA FrozenHeld ==
    ASSUME IInv, Held, NEW ids, NEW id \in Ids
    PROVE  Holds(Frozen(ids)[id])
<1>1. Frozen(ids)[id] = scratch[id] \/ Frozen(ids)[id] = Freeze(scratch[id])
    BY DEF Frozen
<1> QED
    BY <1>1, FreezeHolds DEF IInv, Shapes, Held

LEMMA FinishHeld ==
    ASSUME IInv, Cells, Held, Finish
    PROVE  Held'
<1>1. ASSUME NEW id \in Ids PROVE Holds(scratch'[id])
    <2>1. CASE id \in DOMAIN call.show /\ reg[id] = "scratch" /\ scratch[id].state = "open"
        <3>1. PICK source, m :
                 /\ source = call.show[id]
                 /\ scratch'[id] = [Showing(source) EXCEPT !.modified = m]
            BY <2>1 DEF Finish
        <3>2. scratch'[id] = [state |-> "open", lines |-> source, modified |-> m]
            BY ONLY <3>1 DEF Showing
        <3>3. IsSource(source)
            BY <2>1, <3>1 DEF Cells, Sources
        <3> QED BY ONLY <3>2, <3>3 DEF Holds, IsSource
    <2>2. CASE ~ (id \in DOMAIN call.show /\ reg[id] = "scratch" /\ scratch[id].state = "open")
        <3>1. scratch'[id] = Frozen(call.drop)[id]
            BY <2>2 DEF Finish
        <3> QED BY <3>1, FrozenHeld
    <2> QED BY <2>1, <2>2
<1> QED
    BY <1>1 DEF Held

(* What is set into a buffer that is there leaves the lines below.         *)
LEMMA EditInScratchHeld ==
    ASSUME IInv, Cells, Held, NEW cell \in CellIds(nb), EditInScratch(cell)
    PROVE  Held'
<1>1. PICK n : Book(nb, n)
    BY DEF Cells
<1>2. PICK source, rest :
         /\ source = nb[Index(nb, cell)].source
         /\ rest = SubSeq(scratch[cell].lines, Len(source) + 1, Len(scratch[cell].lines))
         /\ scratch' = [scratch EXCEPT ![cell] = Showing(source \o rest)]
    BY DEF EditInScratch, Loaded
<1>3. IsSource(source)
    <2>1. Index(nb, cell) \in 1 .. Len(nb)
        BY <1>1, FoundIs DEF Book
    <2> QED BY <1>1, <1>2, <2>1 DEF Book, Good
<1>4. cell \in Ids
    BY <1>1, SeqIs DEF CellIds, Book, Good
<1>5. Plain(rest)
    <2>1. Len(source) + 1 \in Nat \ {0}
        BY <1>3, SeqIs DEF IsSource, Plain
    <2>2. PICK text : text = scratch[cell].lines /\ Plain(text)
        BY <1>4 DEF Held, Holds
    <2> QED BY ONLY <1>2, <2>1, <2>2, PlainTail
<1>6. Plain(source \o rest) /\ source \o rest # <<>>
    BY ONLY <1>3, <1>5, PlainJoined DEF IsSource
<1>7. Holds(Showing(source \o rest))
    BY ONLY <1>6 DEF Holds, Showing
<1>8. ASSUME NEW id \in Ids PROVE Holds(scratch'[id])
    BY <1>2, <1>7 DEF Held, IInv, Shapes
<1> QED
    BY <1>8 DEF Held

LEMMA MarkedHolds ==
    ASSUME NEW b, IsBuffer(b), Holds(b), NEW m, NEW c, c = [b EXCEPT !.modified = m]
    PROVE  Holds(c)
<1>1. PICK state, text, modified :
         b = [state |-> state, lines |-> text, modified |-> modified]
    BY DEF IsBuffer
<1>2. c = [state |-> state, lines |-> text, modified |-> m]
    BY <1>1
<1> QED
    BY ONLY <1>1, <1>2, Holds(b) DEF Holds

LEMMA TypeInScratchHeld ==
    ASSUME IInv, Held, NEW cell \in Ids, TypeInScratch(cell)
    PROVE  Held'
<1>1. PICK l \in NewLines :
         scratch' = [scratch EXCEPT ![cell].lines = [@ EXCEPT ![1] = l], ![cell].modified = TRUE]
    BY DEF TypeInScratch
<1>2. scratch[cell].state = "open"
    BY DEF TypeInScratch
<1>3. PICK b, c : b = scratch[cell] /\ c = scratch'[cell]
    OBVIOUS
<1>4. PICK state, text, modified :
         b = [state |-> state, lines |-> text, modified |-> modified]
    BY <1>3 DEF IInv, Shapes, IsBuffer
<1>5. c = [b EXCEPT !.lines = [@ EXCEPT ![1] = l], !.modified = TRUE]
    BY <1>1, <1>3 DEF IInv, Shapes
<1>6. PICK new : new = Put(text, 1, l)
    OBVIOUS
<1>7. c = [state |-> state, lines |-> new, modified |-> TRUE]
    BY ONLY <1>4, <1>5, <1>6 DEF Put
<1>8. Plain(text) /\ text # <<>>
    <2>1. Plain(b.lines) /\ b.lines # <<>>
        BY <1>2, <1>3 DEF Held, Holds
    <2> QED BY ONLY <1>4, <2>1
<1>9. PICK k \in Nat : Len(text) = k
    BY <1>8, SeqIs DEF Plain
<1>10. 1 \in 1 .. k
    BY <1>8, <1>9, EmptyIs DEF Plain
<1>11. text = [i \in 1 .. k |-> text[i]]
    BY <1>8, <1>9, SeqIs DEF Plain
<1>12. new = [i \in 1 .. k |-> new[i]] /\ \A i \in 1 .. k : new[i] = IF i = 1 THEN l ELSE text[i]
    BY ONLY <1>6, <1>10, <1>11 DEF Put
<1>13. IsSeq(new) /\ Len(new) = k
    BY ONLY <1>12, k \in Nat, MadeSeq
<1>14. \A i \in 1 .. k : new[i][1] # "marker"
    <2>1. l[1] # "marker"
        BY WrittenLine
    <2> QED BY ONLY <1>8, <1>9, <1>12, <2>1 DEF Plain
<1>15. Plain(new) /\ new # <<>>
    <2>1. Len(new) # Len(<<>>)
        BY <1>10, <1>13, NoneIsSeq
    <2> QED BY ONLY <1>13, <1>14, <2>1 DEF Plain
<1>16. Holds(c)
    BY ONLY <1>7, <1>15 DEF Holds
<1>17. ASSUME NEW id \in Ids PROVE Holds(scratch'[id])
    <2>1. CASE id = cell
        BY ONLY <1>3, <1>16, <2>1
    <2>2. CASE id # cell
        <3>1. scratch'[id] = scratch[id]
            BY <1>1, <2>2 DEF IInv, Shapes
        <3> QED BY <3>1 DEF Held
    <2> QED BY <2>1, <2>2
<1> QED
    BY <1>17 DEF Held

LEMMA HeldStep ==
    ASSUME IInv, Cells, Held, [Next]_vars
    PROVE  Held'
<1>1. CASE UNCHANGED scratch
    BY <1>1 DEF Held
<1>2. CASE Finish
    BY <1>2, FinishHeld
<1>3. CASE DeleteCell
    <2>1. PICK id : scratch' = Frozen({id})
        BY <1>3 DEF DeleteCell
    <2>2. ASSUME NEW c \in Ids PROVE Holds(scratch'[c])
        BY <2>1, FrozenHeld
    <2> QED BY <2>2 DEF Held
<1>4. ASSUME NEW id \in CellIds(nb), EditInScratch(id) PROVE Held'
    BY <1>4, EditInScratchHeld
<1>5. ASSUME NEW id \in Ids, SaveScratch(id) PROVE Held'
    <2>1. scratch' = [scratch EXCEPT ![id].modified = FALSE]
        BY <1>5 DEF SaveScratch
    <2>2. ASSUME NEW c \in Ids PROVE Holds(scratch'[c])
        <3>1. scratch'[c] = scratch[c] \/ scratch'[c] = [scratch[c] EXCEPT !.modified = FALSE]
            BY <2>1 DEF IInv, Shapes
        <3>2. IsBuffer(scratch[c]) /\ Holds(scratch[c])
            BY DEF IInv, Shapes, Held
        <3> QED BY ONLY <3>1, <3>2, MarkedHolds
    <2> QED BY <2>2 DEF Held
<1>6. CASE (\E id \in Ids : CloseScratch(id)) \/ Reopen
    <2>1. Holds(NoBuffer)
        <3>1. Plain(<<>>)
            <4>1. \A i \in 1 .. 0 : FALSE
                OBVIOUS
            <4> QED BY ONLY <4>1, NoneIsSeq DEF Plain
        <3> QED BY <3>1 DEF Holds, NoBuffer
    <2>2. ASSUME NEW c \in Ids PROVE scratch'[c] = NoBuffer \/ scratch'[c] = scratch[c]
        BY <1>6 DEF CloseScratch, Reopen, IInv, Shapes
    <2> QED BY <2>1, <2>2 DEF Held
<1>7. ASSUME NEW id \in Ids, TypeInScratch(id) PROVE Held'
    BY <1>7, TypeInScratchHeld
<1>8. CASE Undo \/ Redo
    <2>1. UNCHANGED scratch
        BY <1>8 DEF Undo, Redo, ProcessOne
    <2> QED BY <1>1, <2>1
<1>9. CASE Typing
    <2>1. UNCHANGED scratch
        BY <1>9 DEF Typing, ChangeLine, AddLine, RemoveLine, AddPreamble, PasteBlock,
                    LoseMarkers, Types
    <2> QED BY <1>1, <2>1
<1>10. CASE SaveMirror \/ SaveUnchanged \/ CloseMirror \/ Reload
    <2>1. UNCHANGED scratch
        BY <1>10 DEF SaveMirror, SaveUnchanged, CloseMirror, Reload
    <2> QED BY <1>1, <2>1
<1>11. CASE InsertCell \/ MoveCell \/ ChangeCellType \/ SplitCell \/ JoinCell
    <2>1. UNCHANGED scratch
        BY <1>11 DEF InsertCell, MoveCell, ChangeCellType, SplitCell, JoinCell
    <2> QED BY <1>1, <2>1
<1>12. CASE Refresh \/ Replace \/ UpdateRegions \/ UNCHANGED vars
    <2>1. UNCHANGED scratch
        BY <1>12 DEF Refresh, Replace, UpdateRegions, vars
    <2> QED BY <1>1, <2>1
<1>13. ASSUME NEW id \in CellIds(nb), EditInMirror(id) PROVE Held'
    <2>1. UNCHANGED scratch
        BY <1>13 DEF EditInMirror
    <2> QED BY <1>1, <2>1
<1> QED
    BY <1>2, <1>3, <1>4, <1>5, <1>6, <1>7, <1>8, <1>9, <1>10, <1>11, <1>12, <1>13
       DEF Next, CallSteps, Typing

Operations ==
    InsertCell \/ MoveCell \/ ChangeCellType \/ DeleteCell \/ SplitCell \/ JoinCell

(* What is shown at the end of a call is set when it begins.               *)
LEMMA CallShows ==
    ASSUME IInv, Refresh \/ Replace \/ UpdateRegions
    PROVE  call'.show = call.show
<1>1. PICK p, s, m, show, drop, trims :
         call = [pc |-> p, synced |-> s, mirror |-> m, show |-> show, drop |-> drop,
                 trims |-> trims]
    BY DEF IInv, Shapes, IsCall
<1>2. PICK pc, synced, n :
         \/ call' = [call EXCEPT !.pc = pc]
         \/ call' = [call EXCEPT !.pc = pc, !.synced = synced, !.mirror = n]
    <2>1. CASE Refresh /\ mirror.there
        <3>1. PICK q, there :
                 /\ q = IF BufferThere /\ ~Skipped THEN "replace" ELSE "regions"
                 /\ there = (~BufferThere \/ ~Skipped)
            OBVIOUS
        <3>2. call' = [call EXCEPT !.pc = q, !.synced = there, !.mirror = mirror]
            BY <2>1, <3>1 DEF Refresh
        <3> QED BY ONLY <3>2
    <2>2. CASE ~ (Refresh /\ mirror.there)
        <3>1. \/ call' = [call EXCEPT !.pc = "finish"]
              \/ call' = [call EXCEPT !.pc = "regions"]
            BY <2>2 DEF Refresh, Replace, UpdateRegions
        <3> QED BY ONLY <3>1
    <2> QED BY <2>1, <2>2
<1>3. \/ call' = [pc |-> pc, synced |-> s, mirror |-> m, show |-> show, drop |-> drop,
                  trims |-> trims]
      \/ call' = [pc |-> pc, synced |-> synced, mirror |-> n, show |-> show, drop |-> drop,
                  trims |-> trims]
    BY ONLY <1>1, <1>2
<1> QED
    BY ONLY <1>1, <1>3

LEMMA TypedIds ==
    ASSUME IInv, used' = [used EXCEPT !.typed = @ + 1]
    PROVE  used'.ids = used.ids
<1>1. PICK n, o, t : used = [ids |-> n, ops |-> o, typed |-> t]
    BY DEF IInv, Shapes
<1>2. used' = [ids |-> n, ops |-> o, typed |-> t + 1]
    BY ONLY <1>1, used' = [used EXCEPT !.typed = @ + 1]
<1> QED
    BY ONLY <1>1, <1>2

LEMMA CellsStep ==
    ASSUME IInv, Cells, Held, [Next]_vars,
           SaveMirror => Fits(buf.lines, nb) /\ mirror.build = BuildOf(nb)
    PROVE  Cells'
<1>1. CASE Refresh \/ Replace \/ UpdateRegions
    <2>1. UNCHANGED <<notebook, used>>
        BY <1>1 DEF Refresh, Replace, UpdateRegions
    <2> QED BY <1>1, <2>1, CallShows, CellsKept DEF Cells
<1>2. CASE Finish
    <2>1. UNCHANGED <<notebook, used>> /\ call'.show = <<>>
        BY <1>2 DEF Finish, NoCall
    <2> QED BY <2>1, NoSources, CellsKept
<1>3. CASE Operations
    BY <1>3, OperationCells DEF Operations
<1>4. CASE Undo \/ Redo
    BY <1>4, TimelineCells
<1>5. CASE \E id \in CellIds(nb) : EditInMirror(id) \/ EditInScratch(id)
    <2>1. UNCHANGED <<notebook, used, call>>
        BY <1>5 DEF EditInMirror, EditInScratch
    <2> QED BY <2>1, CellsKept DEF Cells
<1>6. CASE SaveMirror
    BY <1>6, SaveMirrorCells
<1>7. CASE SaveUnchanged \/ CloseMirror \/ Reload
    <2>1. UNCHANGED <<notebook, used, call>>
        BY <1>7 DEF SaveUnchanged, CloseMirror, Reload
    <2> QED BY <2>1, CellsKept DEF Cells
<1>8. CASE Reopen
    BY <1>8, ReopenCells
<1>9. CASE \E id \in Ids : SaveScratch(id)
    BY <1>9, SaveScratchCells
<1>10. CASE \E id \in Ids : CloseScratch(id)
    <2>1. UNCHANGED <<notebook, used, call>>
        BY <1>10 DEF CloseScratch
    <2> QED BY <2>1, CellsKept DEF Cells
<1>11. CASE (\E id \in Ids : TypeInScratch(id)) \/ Typing
    <2>1. UNCHANGED <<notebook, call>> /\ used' = [used EXCEPT !.typed = @ + 1]
        BY <1>11 DEF TypeInScratch, Typing, ChangeLine, AddLine, RemoveLine, AddPreamble,
                     PasteBlock, LoseMarkers, Types
    <2> QED BY <2>1, TypedIds, CellsKept DEF Cells
<1>12. CASE UNCHANGED vars
    <2>1. UNCHANGED <<notebook, used, call>>
        BY <1>12 DEF vars
    <2> QED BY <2>1, CellsKept DEF Cells
<1> QED
    BY <1>1, <1>2, <1>3, <1>4, <1>5, <1>6, <1>7, <1>8, <1>9, <1>10, <1>11, <1>12
       DEF Next, CallSteps, Operations, Typing

-----------------------------------------------------------------------------
(* The mirror and its buffer are of the notebook.                          *)

Goes ==
    /\ mirror.there <=> file # <<>>
    /\ buf.state = "open" => mirror.there

(* A buffer that is about to be replaced, and one that may have been.      *)
InReplace ==
    call.pc = "replace" =>
        /\ mirror.there /\ call.mirror = mirror /\ file = Lines(nb)
        /\ buf.state = "open" /\ call.synced

InRegions ==
    call.pc = "regions" =>
        /\ mirror.there /\ call.mirror = mirror /\ file = Lines(nb)
        /\ buf.state # "open" => call.synced
        /\ buf.state = "open" /\ ~buf.modified => call.synced /\ buf.lines = Lines(nb)
        /\ buf.state = "open" /\ call.synced => Fits(buf.lines, nb)

(* The file f, the state m and the buffer b of the mirror of a notebook.   *)
Agrees(f, m, b, cells) ==
    /\ f = Lines(cells) /\ m.build = BuildOf(cells)
    /\ b.state # "open" /\ m.stale => CodeIds(cells) = {}
    /\ b.state = "open" /\ ~m.stale => Fits(b.lines, cells)
    /\ b.state = "open" /\ ~b.modified =>
          /\ ~m.stale \/ CodeIds(cells) = {}
          /\ distributeWriteBack(b.lines, BuildOf(cells)) = CodeSources(cells)

Settled == call.pc \in {"off", "finish"} /\ mirror.there => Agrees(file, mirror, buf, nb)

Link == Goes /\ InReplace /\ InRegions /\ Settled

LEMMA RegionsNone ==
    ASSUME NEW cells, IsBook(cells)
    PROVE  CodeIds(cells) = {} <=> BuildOf(cells).cellRegions = <<>>
<1>1. PICK f : /\ \A n \in 0 .. Len(cells) : Layout(f, cells, n)
               /\ buildMirror(cells) = f[Len(cells)]
    BY BookHasSources, LayoutIs
<1>2. PICK regions : regions = BuildOf(cells).cellRegions /\ regions = f[Len(cells)].cellRegions
    BY <1>1 DEF BuildOf
<1>3. Layout(f, cells, Len(cells))
    BY <1>1, SeqIs DEF IsBook
<1>4. IsSeq(regions)
    BY <1>2, <1>3 DEF Layout
<1>5. KnownCells(BuildOf(cells)) = CodeIds(cells)
    BY KnownIs
<1>6. KnownCells(BuildOf(cells)) = {regions[r].cellId : r \in DOMAIN regions}
    BY <1>2, Zenon DEF KnownCells
<1>7. ASSUME regions = <<>> PROVE CodeIds(cells) = {}
    <2>1. DOMAIN regions = {}
        BY <1>7
    <2> QED BY ONLY <1>5, <1>6, <2>1
<1>8. ASSUME CodeIds(cells) = {} PROVE regions = <<>>
    <2>1. DOMAIN regions = {}
        BY ONLY <1>5, <1>6, <1>8
    <2>2. Len(regions) \in Nat /\ DOMAIN regions = 1 .. Len(regions)
        BY <1>4, SeqIs
    <2>3. Len(regions) = 0
        <3>1. PICK k \in Nat : k = Len(regions)
            BY <2>2
        <3>2. 1 .. k = {}
            BY ONLY <2>1, <2>2, <3>1
        <3>3. k = 0
            BY ONLY <3>2, k \in Nat
        <3> QED BY ONLY <3>1, <3>3
    <2> QED BY ONLY <1>4, <2>3, EmptyIs
<1> QED
    BY ONLY <1>2, <1>7, <1>8

(* The mirror of a notebook with a code cell finds its cell.               *)
LEMMA OriginFound ==
    ASSUME IInv, IsBook(nb), mirror.there, buf.state = "open", mirror.build = BuildOf(nb),
           Origins = {}
    PROVE  CodeIds(nb) = {}
<1>1. mirror.bufnr
    BY DEF IInv, Known
<1>2. mirror.build.cellRegions = <<>>
    BY <1>1 DEF Origins
<1> QED
    BY <1>2, RegionsNone

LEMMA HasItsBuild ==
    ASSUME NEW old, IsMirror(old), NEW cells, NEW synced, NEW m,
           m = Rebuilt(old, cells, synced)
    PROVE  /\ m.there = old.there /\ m.bufnr = old.bufnr /\ m.build = BuildOf(cells)
           /\ m.stale <=> ~synced
<1>1. PICK there, bufnr, stale, build :
         old = [there |-> there, bufnr |-> bufnr, stale |-> stale, build |-> build]
    BY DEF IsMirror
<1>2. PICK b, x : b = BuildOf(cells) /\ x = (~synced)
    OBVIOUS
<1>3. m = [old EXCEPT !.build = b, !.stale = x]
    BY <1>2 DEF Rebuilt, BuildOf
<1>4. m = [there |-> there, bufnr |-> bufnr, stale |-> x, build |-> b]
    BY <1>1, <1>3
<1>5. m.stale <=> ~synced
    <2>1. m.stale = x
        BY ONLY <1>4
    <2>2. x <=> ~synced
        BY ONLY <1>2, Zenon
    <2> QED BY ONLY <2>1, <2>2, Zenon
<1> QED
    BY ONLY <1>1, <1>2, <1>4, <1>5

(* A buffer that shows the text of the notebook.                           *)
LEMMA ShownAgrees ==
    ASSUME NEW cells, IsBook(cells), NEW f, f = Lines(cells),
           NEW m, m.build = BuildOf(cells), m.stale => CodeIds(cells) = {},
           NEW b, b = Showing(f)
    PROVE  Agrees(f, m, b, cells)
<1>1. b.lines = f /\ b.state = "open" /\ ~b.modified
    BY DEF Showing
<1>2. Fits(f, cells)
    BY MarkedOfText DEF Fits
<1>3. distributeWriteBack(f, BuildOf(cells)) = CodeSources(cells)
    BY RoundTrip
<1> QED
    BY ONLY <1>1, <1>2, <1>3, f = Lines(cells), m.build = BuildOf(cells),
            m.stale => CodeIds(cells) = {} DEF Agrees

LEMMA RefreshMoves ==
    ASSUME IInv, Refresh
    PROVE  /\ ~mirror.there => call'.pc = "finish"
           /\ mirror.there =>
                 /\ call'.mirror = mirror
                 /\ BufferThere /\ ~buf.modified => call'.pc = "replace" /\ call'.synced
                 /\ BufferThere /\ buf.modified => call'.pc = "regions" /\ ~call'.synced
                 /\ ~BufferThere => call'.pc = "regions" /\ call'.synced
<1>1. PICK p, s, n, show, drop, trims :
         call = [pc |-> p, synced |-> s, mirror |-> n, show |-> show, drop |-> drop,
                 trims |-> trims]
    BY DEF IInv, Shapes, IsCall
<1>2. CASE ~mirror.there
    <2>1. call' = [call EXCEPT !.pc = "finish"]
        BY <1>2 DEF Refresh
    <2>2. call'.pc = "finish"
        BY ONLY <1>1, <2>1
    <2> QED BY ONLY <1>2, <2>2
<1>3. CASE mirror.there
    <2>1. PICK m : m = mirror
        OBVIOUS
    <2>2. /\ BufferThere /\ ~buf.modified =>
                call' = [call EXCEPT !.pc = "replace", !.synced = TRUE, !.mirror = m]
          /\ BufferThere /\ buf.modified =>
                call' = [call EXCEPT !.pc = "regions", !.synced = FALSE, !.mirror = m]
          /\ ~BufferThere =>
                call' = [call EXCEPT !.pc = "regions", !.synced = TRUE, !.mirror = m]
        <3>1. call' = [call EXCEPT
                          !.pc = IF BufferThere /\ ~buf.modified THEN "replace" ELSE "regions",
                          !.synced = ~BufferThere \/ ~buf.modified, !.mirror = m]
            BY <1>3, <2>1 DEF Refresh, Skipped
        <3>2. CASE BufferThere /\ ~buf.modified
            <4>1. (~BufferThere \/ ~buf.modified) = TRUE
                BY <3>2
            <4> QED BY <3>1, <3>2, <4>1
        <3>3. CASE BufferThere /\ buf.modified
            <4>1. (~BufferThere \/ ~buf.modified) = FALSE
                BY <3>3
            <4> QED BY <3>1, <3>3, <4>1
        <3>4. CASE ~BufferThere
            <4>1. (~BufferThere \/ ~buf.modified) = TRUE
                BY <3>4
            <4> QED BY <3>1, <3>4, <4>1
        <3> QED BY <3>2, <3>3, <3>4
    <2>3. /\ BufferThere /\ ~buf.modified =>
                call' = [pc |-> "replace", synced |-> TRUE, mirror |-> m, show |-> show,
                         drop |-> drop, trims |-> trims]
          /\ BufferThere /\ buf.modified =>
                call' = [pc |-> "regions", synced |-> FALSE, mirror |-> m, show |-> show,
                         drop |-> drop, trims |-> trims]
          /\ ~BufferThere =>
                call' = [pc |-> "regions", synced |-> TRUE, mirror |-> m, show |-> show,
                         drop |-> drop, trims |-> trims]
        BY ONLY <1>1, <2>2
    <2> QED BY ONLY <1>3, <2>1, <2>3
<1> QED
    BY <1>2, <1>3

LEMMA LinkKept ==
    ASSUME Link, UNCHANGED <<nb, mirror, file, buf, call>>
    PROVE  Link'
BY DEF Link, Goes, InReplace, InRegions, Settled

LEMMA LinkBegins ==
    ASSUME Link, UNCHANGED mirrors, call'.pc = "refresh"
    PROVE  Link'
BY DEF Link, Goes, InReplace, InRegions, Settled, mirrors

LEMMA LinkAtRest ==
    ASSUME AtRest, call' = call, Goes', mirror'.there => Agrees(file', mirror', buf', nb')
    PROVE  Link'
BY DEF Link, InReplace, InRegions, Settled, AtRest

LEMMA CallLink ==
    ASSUME IInv, Link, IsBook(nb), Refresh \/ Replace \/ UpdateRegions \/ Finish
    PROVE  Link'
<1>1. IsCall(call) /\ IsMirror(mirror) /\ nb' = nb
    BY DEF IInv, Shapes, Refresh, Replace, UpdateRegions, Finish, notebook
<1>2. Lines(nb) # <<>>
    BY MarkedOfText
<1>3. buf.state = "open" /\ mirror.there => BufferThere
    BY DEF BufferThere, IInv, Known
<1>4. CASE Refresh
    <2>1. UNCHANGED <<mirror, buf>> /\ (mirror.there => file' = Lines(nb))
          /\ (~mirror.there => file' = file)
        BY <1>4 DEF Refresh
    <2>2. Goes'
        BY <1>2, <2>1 DEF Link, Goes
    <2>3. CASE ~mirror.there
        BY <1>4, <2>1, <2>2, <2>3, RefreshMoves DEF Link, InReplace, InRegions, Settled
    <2>4. CASE mirror.there
        <3>1. BufferThere => buf.state = "open"
            BY DEF BufferThere
        <3> QED BY <1>1, <1>3, <1>4, <2>1, <2>2, <2>4, <3>1, RefreshMoves
                DEF Link, InReplace, InRegions, Settled
    <2> QED BY <2>3, <2>4
<1>5. CASE Replace
    <2>1. /\ mirror.there /\ call.mirror = mirror /\ file = Lines(nb)
          /\ buf.state = "open" /\ call.synced
        BY <1>5 DEF Replace, Link, InReplace
    <2>2. UNCHANGED <<mirror, file>> /\ buf' = Showing(Lines(nb))
        BY <1>5, <2>1 DEF Replace, Replaced
    <2>3. call'.pc = "regions" /\ call'.mirror = call.mirror /\ call'.synced = call.synced
        <3>1. call' = [call EXCEPT !.pc = "regions"]
            BY <1>5 DEF Replace
        <3> QED BY ONLY <1>1, <3>1, CallTurns
    <2>4. buf'.lines = Lines(nb) /\ buf'.state = "open"
        BY ONLY <2>2 DEF Showing
    <2>5. Fits(Lines(nb), nb)
        BY MarkedOfText DEF Fits
    <2>6. Goes'
        BY <2>1, <2>2 DEF Link, Goes
    <2> QED BY <1>1, <2>1, <2>2, <2>3, <2>4, <2>5, <2>6
            DEF Link, InReplace, InRegions, Settled
<1>6. CASE UpdateRegions
    <2>1. /\ mirror.there /\ call.mirror = mirror /\ file = Lines(nb)
          /\ buf.state # "open" => call.synced
          /\ buf.state = "open" /\ ~buf.modified => call.synced /\ buf.lines = Lines(nb)
          /\ buf.state = "open" /\ call.synced => Fits(buf.lines, nb)
        BY <1>6 DEF UpdateRegions, Link, InRegions
    <2>2. UNCHANGED <<file, buf>> /\ mirror' = Rebuilt(mirror, nb, call.synced)
        BY <1>6, <2>1 DEF UpdateRegions
    <2>3. call'.pc = "finish"
        <3>1. call' = [call EXCEPT !.pc = "finish"]
            BY <1>6 DEF UpdateRegions
        <3> QED BY ONLY <1>1, <3>1, CallTurns
    <2>4. mirror'.there = mirror.there /\ mirror'.build = BuildOf(nb)
          /\ (mirror'.stale <=> ~call.synced)
        BY ONLY <1>1, <2>2, HasItsBuild
    <2>5. distributeWriteBack(Lines(nb), BuildOf(nb)) = CodeSources(nb)
        BY RoundTrip
    <2>6. Agrees(file', mirror', buf', nb')
        BY ONLY <1>1, <2>1, <2>2, <2>4, <2>5 DEF Agrees
    <2>7. Goes'
        BY <2>1, <2>2, <2>4 DEF Link, Goes
    <2> QED BY ONLY <2>3, <2>6, <2>7 DEF Link, InReplace, InRegions, Settled
<1>7. CASE Finish
    <2>1. UNCHANGED mirrors /\ call.pc = "finish" /\ call'.pc = "off"
        BY <1>7 DEF Finish, NoCall
    <2> QED BY <1>1, <2>1 DEF Link, Goes, InReplace, InRegions, Settled, mirrors
<1> QED
    BY <1>4, <1>5, <1>6, <1>7

LEMMA RefreshedLink ==
    ASSUME IInv, Goes, NEW cells, IsBook(cells), NEW force \in BOOLEAN,
           Refreshed(cells, force)
    PROVE  Goes' /\ (mirror'.there => Agrees(file', mirror', buf', cells))
<1>1. CASE ~mirror.there
    <2>1. UNCHANGED <<mirror, file, buf>>
        BY <1>1 DEF Refreshed, mirrors
    <2> QED BY <1>1, <2>1 DEF Goes
<1>2. CASE mirror.there
    <2>1. PICK synced :
             /\ synced = (~BufferThere \/ force \/ ~buf.modified)
             /\ file' = Lines(cells) /\ mirror' = Rebuilt(mirror, cells, synced)
             /\ IF BufferThere /\ (force \/ ~buf.modified) THEN Replaced(cells)
                ELSE UNCHANGED <<buf, edits>>
        BY <1>2 DEF Refreshed, Skipped
    <2>2. synced <=> ~BufferThere \/ force \/ ~buf.modified
        BY ONLY <2>1, Zenon
    <2>3. IsMirror(mirror)
        BY DEF IInv, Shapes
    <2>4. /\ mirror'.there = mirror.there /\ mirror'.build = BuildOf(cells)
          /\ mirror'.stale <=> ~synced
        BY ONLY <2>1, <2>3, HasItsBuild
    <2>5. BufferThere <=> buf.state = "open"
        BY DEF BufferThere, IInv, Known
    <2>6. file' = Lines(cells) /\ Lines(cells) # <<>>
        BY <2>1, MarkedOfText
    <2>7. CASE BufferThere /\ (force \/ ~buf.modified)
        <3>1. buf' = Showing(Lines(cells))
            BY <2>1, <2>7 DEF Replaced
        <3>2. ~mirror'.stale
            BY ONLY <2>2, <2>4, <2>7
        <3>3. Agrees(file', mirror', buf', cells)
            <4>1. PICK f, m, b : f = file' /\ m = mirror' /\ b = buf'
                OBVIOUS
            <4>2. Agrees(f, m, b, cells)
                <5>1. f = Lines(cells) /\ b = Showing(f) /\ m.build = BuildOf(cells)
                      /\ (m.stale => CodeIds(cells) = {})
                    BY ONLY <2>4, <2>6, <3>1, <3>2, <4>1, Zenon
                <5> QED BY ONLY <5>1, IsBook(cells), ShownAgrees
            <4> QED BY ONLY <4>1, <4>2
        <3> QED BY <1>2, <2>4, <2>6, <3>3 DEF Goes
    <2>8. CASE ~ (BufferThere /\ (force \/ ~buf.modified))
        <3>1. buf' = buf
            BY <2>1, <2>8
        <3>2. buf.state = "open" => buf.modified /\ mirror'.stale
            BY ONLY <2>2, <2>4, <2>5, <2>8
        <3>3. buf.state # "open" => ~mirror'.stale
            BY ONLY <2>2, <2>4, <2>5
        <3>4. Agrees(file', mirror', buf', cells)
            BY ONLY <2>4, <2>6, <3>1, <3>2, <3>3 DEF Agrees
        <3> QED BY <1>2, <2>4, <2>6, <3>1, <3>4 DEF Goes
    <2> QED BY <2>7, <2>8
<1> QED
    BY <1>1, <1>2

LEMMA EditInMirrorLink ==
    ASSUME IInv, Link, IsBook(nb), NEW cell \in CellIds(nb), EditInMirror(cell)
    PROVE  Link'
<1>1. AtRest /\ call' = call /\ nb' = nb /\ nb[Index(nb, cell)].cell_type = "code"
    BY DEF EditInMirror, notebook
<1>2. CodeIds(nb) # {}
    <2>1. Index(nb, cell) \in 1 .. Len(nb)
        BY FoundIs DEF IsBook
    <2>2. IsCode(nb, Index(nb, cell))
        BY <1>1 DEF IsCode
    <2> QED BY <2>1, <2>2 DEF CodeIds
<1>3. buf.state = "open" <=> BufferThere
    BY DEF BufferThere, IInv, Known
<1>4. IF BufferThere THEN buf' = buf ELSE buf' = Showing(file')
    BY DEF EditInMirror, openCellRegion
<1>5. IsMirror(mirror) /\ Lines(nb) # <<>>
    BY MarkedOfText DEF IInv, Shapes
<1>6. CASE mirror.there
    <2>1. Agrees(file, mirror, buf, nb)
        BY <1>1, <1>6 DEF AtRest, Link, Settled
    <2>2. file' = file /\ mirror' = [mirror EXCEPT !.there = TRUE, !.bufnr = TRUE]
        BY <1>6 DEF EditInMirror
    <2>3. mirror'.there /\ mirror'.build = mirror.build /\ mirror'.stale = mirror.stale
        <3>1. PICK there, bufnr, stale, build :
                 mirror = [there |-> there, bufnr |-> bufnr, stale |-> stale, build |-> build]
            BY ONLY <1>5 DEF IsMirror
        <3>2. mirror' = [there |-> TRUE, bufnr |-> TRUE, stale |-> stale, build |-> build]
            BY ONLY <2>2, <3>1
        <3> QED BY ONLY <3>1, <3>2
    <2>4. CASE BufferThere
        <3>1. buf' = buf
            BY <1>4, <2>4
        <3>2. Agrees(file', mirror', buf', nb')
            BY ONLY <1>1, <2>1, <2>2, <2>3, <3>1 DEF Agrees
        <3>3. Goes'
            BY <1>6, <2>2, <2>3 DEF Goes, Link
        <3> QED BY ONLY <1>1, <3>2, <3>3, LinkAtRest
    <2>5. CASE ~BufferThere
        <3>1. ~mirror'.stale
            BY <1>2, <1>3, <2>1, <2>3, <2>5 DEF Agrees
        <3>2. PICK f, m, b : f = file' /\ m = mirror' /\ b = buf'
            OBVIOUS
        <3>3. f = Lines(nb) /\ m.build = BuildOf(nb) /\ b = Showing(f)
            BY <1>4, <2>1, <2>2, <2>3, <2>5, <3>2 DEF Agrees
        <3>4. Agrees(f, m, b, nb)
            BY ONLY <3>1, <3>2, <3>3, IsBook(nb), ShownAgrees
        <3>5. Goes'
            BY <1>6, <2>2, <2>3 DEF Goes, Link
        <3> QED BY ONLY <1>1, <3>2, <3>4, <3>5, LinkAtRest
    <2> QED BY <2>4, <2>5
<1>7. CASE ~mirror.there
    <2>1. ~BufferThere
        BY <1>3, <1>7 DEF Link, Goes
    <2>2. PICK m : m = Rebuilt(mirror, nb, TRUE)
        OBVIOUS
    <2>3. file' = Lines(nb) /\ mirror' = [m EXCEPT !.there = TRUE, !.bufnr = TRUE]
          /\ buf' = Showing(file')
        BY <1>4, <1>7, <2>1, <2>2 DEF EditInMirror
    <2>4. IsMirror(m) /\ m.build = BuildOf(nb) /\ ~m.stale
        BY ONLY <1>5, <2>2, HasItsBuild, RebuiltIs
    <2>5. mirror'.there /\ mirror'.build = BuildOf(nb) /\ ~mirror'.stale
        <3>1. PICK there, bufnr, stale, build :
                 m = [there |-> there, bufnr |-> bufnr, stale |-> stale, build |-> build]
            BY ONLY <2>4 DEF IsMirror
        <3>2. mirror' = [there |-> TRUE, bufnr |-> TRUE, stale |-> stale, build |-> build]
            BY ONLY <2>3, <3>1
        <3> QED BY ONLY <2>4, <3>1, <3>2
    <2>6. PICK f, k, b : f = file' /\ k = mirror' /\ b = buf'
        OBVIOUS
    <2>7. Agrees(f, k, b, nb)
        <3>1. f = Lines(nb) /\ k.build = BuildOf(nb) /\ ~k.stale /\ b = Showing(f)
            BY ONLY <2>3, <2>5, <2>6, Zenon
        <3> QED BY ONLY <3>1, IsBook(nb), ShownAgrees
    <2>8. Goes'
        BY <1>5, <2>3, <2>5 DEF Goes
    <2> QED BY ONLY <1>1, <2>6, <2>7, <2>8, LinkAtRest
<1> QED
    BY <1>6, <1>7

(* What a save may rely on.                                                *)
LEMMA SaveFinds ==
    ASSUME Link, SaveMirror
    PROVE  Fits(buf.lines, nb) /\ mirror.build = BuildOf(nb)
BY DEF SaveMirror, Saves, AtRest, Link, Goes, Settled, Agrees

LEMMA SaveLink ==
    ASSUME IInv, Link, IsBook(nb'), call' = call, NEW force \in BOOLEAN, AtRest,
           Refreshed(nb', force)
    PROVE  Link'
<1>1. PICK cells : cells = nb'
    OBVIOUS
<1>2. Goes' /\ (mirror'.there => Agrees(file', mirror', buf', cells))
    BY <1>1, RefreshedLink DEF Link
<1> QED
    BY ONLY <1>1, <1>2, AtRest, call' = call, LinkAtRest

LEMMA SaveUnchangedLink ==
    ASSUME IInv, Link, IsBook(nb), SaveUnchanged
    PROVE  Link'
<1>1. /\ AtRest /\ buf.state = "open" /\ ~mirror.stale /\ UNCHANGED <<nb, mirror, file, call>>
      /\ \A id \in DOMAIN Distributed : SourcesOf(nb)[id] = Distributed[id]
      /\ DOMAIN Distributed # {} \/ mirror.build.cellRegions = <<>>
      /\ buf' = [buf EXCEPT !.modified = FALSE]
    BY DEF SaveUnchanged, Saves, notebook
<1>2. mirror.there /\ Agrees(file, mirror, buf, nb)
    BY <1>1 DEF AtRest, Link, Goes, Settled
<1>3. mirror.build = BuildOf(nb) /\ Fits(buf.lines, nb)
    BY <1>1, <1>2 DEF Agrees
<1>4. PICK sources : sources = Distributed
    OBVIOUS
<1>5. sources = distributeWriteBack(buf.lines, BuildOf(nb))
    BY <1>3, <1>4 DEF Distributed
<1>6. DOMAIN sources # {} \/ CodeIds(nb) = {}
    BY <1>1, <1>3, <1>4, RegionsNone
<1>7. sources = CodeSources(nb)
    <2>1. \A id \in DOMAIN sources : SourcesOf(nb)[id] = sources[id]
        BY ONLY <1>1, <1>4, Zenon
    <2> QED BY ONLY <1>3, <1>5, <1>6, <2>1, IsBook(nb), GivesThemBack
<1>8. buf'.state = buf.state /\ buf'.lines = buf.lines
    <2>1. PICK state, text, modified :
             buf = [state |-> state, lines |-> text, modified |-> modified]
        BY DEF IInv, Shapes, IsBuffer
    <2>2. buf' = [state |-> state, lines |-> text, modified |-> FALSE]
        BY ONLY <1>1, <2>1
    <2> QED BY ONLY <2>1, <2>2
<1>9. Agrees(file', mirror', buf', nb')
    BY ONLY <1>1, <1>2, <1>3, <1>5, <1>7, <1>8 DEF Agrees
<1>10. Goes'
    BY <1>1, <1>8 DEF Goes, Link
<1> QED
    BY ONLY <1>1, <1>9, <1>10, LinkAtRest

LEMMA CloseMirrorLink ==
    ASSUME ~Meanwhile, IInv, Link, IsBook(nb), CloseMirror
    PROVE  /\ Link'
           /\ CodeIds(nb) # {} => ~mirror'.there
<1>1. /\ AtRest /\ buf.state = "open" /\ buf' = NoBuffer /\ UNCHANGED <<nb, call>>
      /\ IF Origins # {} THEN file' = <<>> /\ mirror' = NoMirror
         ELSE mirror' = mirror /\ file' = file
    BY DEF CloseMirror, ByUser, cleanupMirrorOnExit, notebook
<1>2. mirror.there /\ Agrees(file, mirror, buf, nb)
    BY <1>1 DEF AtRest, Link, Goes, Settled
<1>3. buf'.state # "open"
    BY <1>1, NoBufferIs
<1>4. CASE Origins # {}
    <2>1. ~mirror'.there /\ file' = <<>>
        BY <1>1, <1>4, NoMirrorIs
    <2>2. Goes'
        BY <1>3, <2>1 DEF Goes
    <2> QED BY <1>1, <2>1, <2>2, LinkAtRest
<1>5. CASE Origins = {}
    <2>1. CodeIds(nb) = {}
        BY <1>1, <1>2, <1>5, OriginFound DEF Agrees
    <2>2. Agrees(file', mirror', buf', nb')
        BY <1>1, <1>2, <1>3, <1>5, <2>1 DEF Agrees
    <2>3. Goes'
        BY <1>1, <1>3, <1>5 DEF Goes, Link
    <2> QED BY <1>1, <2>1, <2>2, <2>3, LinkAtRest
<1> QED
    BY <1>4, <1>5

LEMMA ReloadLink ==
    ASSUME ~Meanwhile, IInv, Link, IsBook(nb), Reload
    PROVE  Link'
<1>1. /\ AtRest /\ buf.state = "open" /\ buf' = Showing(file) /\ UNCHANGED <<nb, file, call>>
      /\ mirror' = IF Origins # {} THEN [mirror EXCEPT !.stale = FALSE] ELSE mirror
    BY DEF Reload, ByUser, notebook
<1>2. mirror.there /\ Agrees(file, mirror, buf, nb)
    BY <1>1 DEF AtRest, Link, Goes, Settled
<1>3. mirror'.there = mirror.there /\ mirror'.build = mirror.build
      /\ (mirror'.stale => CodeIds(nb) = {})
    <2>1. CASE Origins # {}
        <3>1. PICK there, bufnr, stale, build :
                 mirror = [there |-> there, bufnr |-> bufnr, stale |-> stale, build |-> build]
            BY DEF IInv, Shapes, IsMirror
        <3>2. mirror' = [mirror EXCEPT !.stale = FALSE]
            BY <1>1, <2>1
        <3>3. mirror' = [there |-> there, bufnr |-> bufnr, stale |-> FALSE, build |-> build]
            BY ONLY <3>1, <3>2
        <3> QED BY ONLY <3>1, <3>3
    <2>2. CASE Origins = {}
        <3>1. CodeIds(nb) = {}
            BY <1>1, <1>2, <2>2, OriginFound DEF Agrees
        <3> QED BY <1>1, <2>2, <3>1
    <2> QED BY <2>1, <2>2
<1>4. PICK f, m, b : f = file' /\ m = mirror' /\ b = buf'
    OBVIOUS
<1>5. Agrees(f, m, b, nb)
    <2>1. f = Lines(nb) /\ m.build = BuildOf(nb) /\ b = Showing(f)
          /\ (m.stale => CodeIds(nb) = {})
        BY ONLY <1>1, <1>2, <1>3, <1>4 DEF Agrees
    <2> QED BY ONLY <2>1, IsBook(nb), ShownAgrees
<1>6. Goes'
    BY <1>1, <1>2, <1>3 DEF Goes, Link
<1> QED
    BY ONLY <1>1, <1>4, <1>5, <1>6, LinkAtRest

LEMMA ReopenLink ==
    ASSUME IInv, Reopen
    PROVE  Link' /\ ~mirror'.there
<1>1. /\ AtRest /\ call' = call /\ mirror' = NoMirror /\ file' = <<>>
      /\ buf' = IF mirror.bufnr THEN NoBuffer ELSE buf
    BY DEF Reopen, WipesMirror, cleanupMirrorOnExit
<1>2. ~mirror'.there /\ buf'.state # "open"
    BY <1>1, NoMirrorIs, NoBufferIs DEF IInv, Known
<1>3. Goes'
    BY <1>1, <1>2 DEF Goes
<1> QED
    BY <1>1, <1>2, <1>3, LinkAtRest

LEMMA TypingLink ==
    ASSUME ~Meanwhile, IInv, Link, IsBook(nb), Typing
    PROVE  Link' /\ buf'.state = "open"
<1>1. /\ UNCHANGED <<nb, mirror, file, call>> /\ buf.state = "open" /\ call.pc # "replace"
      /\ \E lines : buf' = [buf EXCEPT !.lines = lines, !.modified = TRUE]
    BY DEF Typing, ChangeLine, AddLine, RemoveLine, AddPreamble, PasteBlock, LoseMarkers,
           Types, Edited, notebook
<1>2. buf'.state = "open" /\ buf'.modified
    <2>1. PICK state, text, modified :
             buf = [state |-> state, lines |-> text, modified |-> modified]
        BY DEF IInv, Shapes, IsBuffer
    <2>2. PICK lines : buf' = [buf EXCEPT !.lines = lines, !.modified = TRUE]
        BY <1>1
    <2>3. buf' = [state |-> state, lines |-> lines, modified |-> TRUE]
        BY ONLY <2>1, <2>2
    <2> QED BY ONLY <1>1, <2>1, <2>3
<1>3. IsBuffer(buf)
    BY DEF IInv, Shapes
<1>4. Fits(buf.lines, nb) => Fits(buf'.lines, nb)
    BY <1>3, TypingFits
<1>5. Goes'
    BY <1>1, <1>2 DEF Goes, Link
<1>6. InReplace'
    BY <1>1 DEF InReplace
<1>7. InRegions'
    BY <1>1, <1>2, <1>4 DEF InRegions, Link
<1>8. Settled'
    BY <1>1, <1>2, <1>4 DEF Settled, Link, Agrees
<1> QED
    BY <1>2, <1>5, <1>6, <1>7, <1>8 DEF Link

-----------------------------------------------------------------------------
(* The invariant of the text.                                              *)

Linked == Cells /\ Held /\ Link

LEMMA InitLinked == Init => Linked
<1> SUFFICES ASSUME Init PROVE Linked
    OBVIOUS
<1>1. Cells /\ Held
    BY InitCells
<1>2. mirror = NoMirror /\ file = <<>> /\ buf = NoBuffer /\ call.pc = "off"
    BY DEF Init, NoCall
<1>3. ~mirror.there /\ buf.state # "open"
    BY <1>2, NoMirrorIs, NoBufferIs
<1>4. Link
    BY <1>2, <1>3 DEF Link, Goes, InReplace, InRegions, Settled
<1> QED
    BY <1>1, <1>4 DEF Linked

LEMMA LinkedStep ==
    ASSUME ~Meanwhile, IInv, Linked, [Next]_vars
    PROVE  /\ Linked'
           /\ AtRest /\ HasCode /\ buf.state = "open" /\ buf'.state = "none" => ~mirror'.there
<1>1. Cells /\ Held /\ Link
    BY DEF Linked
<1>2. Cells'
    BY <1>1, CellsStep, SaveFinds
<1>3. Held'
    BY <1>1, HeldStep
<1>4. IsBook(nb) /\ IsBook(nb')
    <2>1. Book(nb, used.ids) /\ Book(nb', used'.ids)
        BY <1>1, <1>2 DEF Cells
    <2> QED BY ONLY <2>1, BookIs
<1> DEFINE Goal == /\ Link'
                   /\ AtRest /\ HasCode /\ buf.state = "open" /\ buf'.state = "none"
                         => ~mirror'.there
<1>0. SUFFICES Goal
    BY <1>2, <1>3 DEF Linked
<1>5. ASSUME Link', buf' = buf PROVE Goal
    BY <1>5
<1>6. CASE Refresh \/ Replace \/ UpdateRegions \/ Finish
    <2>1. ~AtRest
        BY <1>6 DEF Refresh, Replace, UpdateRegions, Finish, AtRest
    <2> QED BY <1>1, <1>4, <1>6, <2>1, CallLink
<1>7. CASE Operations
    <2>1. UNCHANGED mirrors /\ call'.pc = "refresh"
        BY <1>7, OperateIs DEF Operations, InsertCell, MoveCell, ChangeCellType, DeleteCell,
                              SplitCell, JoinCell
    <2> QED BY <1>1, <1>5, <2>1, LinkBegins DEF mirrors
<1>8. CASE Undo \/ Redo
    <2>1. UNCHANGED mirrors /\ call'.pc = "refresh"
        BY <1>8 DEF Undo, Redo, ProcessOne, NoCall
    <2> QED BY <1>1, <1>5, <2>1, LinkBegins DEF mirrors
<1>9. ASSUME NEW id \in CellIds(nb), EditInMirror(id) PROVE Goal
    <2>1. Link'
        BY <1>1, <1>4, <1>9, EditInMirrorLink
    <2>2. buf'.state = "open" \/ buf' = buf
        BY <1>9 DEF EditInMirror, openCellRegion, Showing
    <2> QED BY <2>1, <2>2
<1>10. ASSUME NEW id \in CellIds(nb), EditInScratch(id) PROVE Goal
    <2>1. UNCHANGED <<nb, mirror, file, buf, call>>
        BY <1>10 DEF EditInScratch, notebook, mirrors
    <2> QED BY <1>1, <1>5, <2>1, LinkKept
<1>11. CASE SaveMirror
    <2>1. Refreshed(nb', TRUE) /\ AtRest /\ call' = call
        BY <1>1, <1>11, SaveMirrorCells, SaveMirrorInv, SaveFinds
    <2>2. Link'
        BY <1>1, <1>4, <2>1, SaveLink
    <2>3. buf.state = "open" <=> buf'.state = "open"
        BY <2>1, RefreshedIs
    <2> QED BY <2>2, <2>3
<1>12. ASSUME NEW id \in Ids, SaveScratch(id) PROVE Goal
    <2>1. Refreshed(nb', FALSE) /\ AtRest /\ call' = call
        BY <1>1, <1>12, SaveScratchCells, SaveScratchInv
    <2>2. Link'
        BY <1>1, <1>4, <2>1, SaveLink
    <2>3. buf.state = "open" <=> buf'.state = "open"
        BY <2>1, RefreshedIs
    <2> QED BY <2>2, <2>3
<1>13. CASE SaveUnchanged
    <2>1. buf' = [buf EXCEPT !.modified = FALSE] /\ IsBuffer(buf)
        BY <1>13 DEF SaveUnchanged, IInv, Shapes
    <2>2. buf'.state = buf.state
        BY ONLY <2>1, Marked
    <2> QED BY <1>1, <1>4, <1>13, <2>2, SaveUnchangedLink
<1>14. CASE CloseMirror
    <2>1. HasCode => CodeIds(nb) # {}
        <3>1. DOMAIN nb = 1 .. Len(nb)
            BY <1>4, SeqIs DEF IsBook
        <3> QED BY <3>1 DEF HasCode, CodeIds, IsCode
    <2> QED BY <1>1, <1>4, <1>14, <2>1, CloseMirrorLink
<1>15. CASE Reload
    <2>1. buf'.state = "open"
        BY <1>15 DEF Reload, Showing
    <2> QED BY <1>1, <1>4, <1>15, <2>1, ReloadLink
<1>16. CASE Reopen
    BY <1>16, ReopenLink
<1>17. CASE \E id \in Ids : CloseScratch(id) \/ TypeInScratch(id)
    <2>1. UNCHANGED <<nb, mirror, file, buf, call>>
        BY <1>17 DEF CloseScratch, TypeInScratch, notebook, mirrors
    <2> QED BY <1>1, <1>5, <2>1, LinkKept
<1>18. CASE Typing
    BY <1>1, <1>4, <1>18, TypingLink
<1>19. CASE UNCHANGED vars
    <2>1. UNCHANGED <<nb, mirror, file, buf, call>>
        BY <1>19 DEF vars, notebook, mirrors
    <2> QED BY <1>1, <1>5, <2>1, LinkKept
<1> HIDE DEF Goal
<1> QED
    BY <1>6, <1>7, <1>8, <1>9, <1>10, <1>11, <1>12, <1>13, <1>14, <1>15, <1>16, <1>17, <1>18,
       <1>19 DEF Next, CallSteps, Operations, Typing

-----------------------------------------------------------------------------
(* The theorems.                                                           *)

LEMMA NextInv == IInv /\ [Next]_vars => IInv'
<1> SUFFICES ASSUME IInv, [Next]_vars PROVE IInv'
    OBVIOUS
<1>1. CASE Refresh \/ Replace \/ UpdateRegions
    BY <1>1, CallInv
<1>2. CASE Finish
    BY <1>2, FinishInv
<1>3. CASE Operations
    BY <1>3, OperationInv DEF Operations
<1>4. CASE Undo \/ Redo
    BY <1>4, TimelineInv
<1>5. CASE \E id \in CellIds(nb) : EditInMirror(id) \/ EditInScratch(id)
    BY <1>5, EditInMirrorInv, EditInScratchInv
<1>6. CASE SaveMirror \/ SaveUnchanged
    BY <1>6, SaveMirrorInv, SaveUnchangedInv
<1>7. CASE CloseMirror \/ Reload \/ Reopen
    BY <1>7, CloseMirrorInv, ReloadInv, ReopenInv
<1>8. CASE \E id \in Ids : SaveScratch(id) \/ CloseScratch(id) \/ TypeInScratch(id)
    BY <1>8, SaveScratchInv, CloseScratchInv, TypeInScratchInv
<1>9. CASE Typing
    BY <1>9, TypingInv
<1>10. CASE UNCHANGED vars
    BY <1>10 DEF vars, mirrors, IInv, Shapes, Registered, BufferThere, Known
<1> QED
    BY <1>1, <1>2, <1>3, <1>4, <1>5, <1>6, <1>7, <1>8, <1>9, <1>10
       DEF Next, CallSteps, Operations, Typing

LEMMA SpecInv == Spec => []IInv
<1>1. Init => IInv
    BY InitInv
<1> QED
    BY <1>1, NextInv, PTL DEF Spec

(* No save, undo or closing goes by a registration whose buffer is wiped or *)
(* frozen, during a call too, and whatever the user does in the meantime    *)
(* (edit.ts, closeCellEdit; delete.ts and join.ts).                         *)
THEOREM RegistrationsLive == Spec => []NoDeadRegistration
<1>1. IInv => NoDeadRegistration
    BY DEF IInv, Registered, NoDeadRegistration
<1> QED
    BY <1>1, SpecInv, PTL

(* A step that replaces the buffer of the mirror is one of the user, or     *)
(* finds no edits in it.                                                    *)
LEMMA CleanStep ==
    ASSUME ~Meanwhile, IInv, Clean, [Next]_vars
    PROVE  /\ Clean'
           /\ buf.modified /\ buf' # buf =>
                 \/ used'.typed # used.typed
                 \/ SaveMirror \/ SaveUnchanged \/ CloseMirror \/ Reload \/ Reopen
<1>1. CASE Refresh \/ UpdateRegions
    <2>1. buf' = buf
        BY <1>1 DEF Refresh, UpdateRegions
    <2> QED BY <1>1, <2>1, CallInv
<1>2. CASE Replace
    <2>1. call.pc = "replace"
        BY <1>2 DEF Replace
    <2> QED BY <1>2, <2>1, CallInv DEF Clean
<1>3. CASE Finish
    <2>1. buf' = buf
        BY <1>3 DEF Finish, mirrors
    <2> QED BY <1>3, <2>1, FinishInv
<1>4. CASE Operations
    <2>1. buf' = buf
        BY <1>4, OperateIs DEF Operations, InsertCell, MoveCell, ChangeCellType, DeleteCell,
                              SplitCell, JoinCell, mirrors
    <2> QED BY <1>4, <2>1, OperationInv DEF Operations
<1>5. CASE Undo \/ Redo
    <2>1. buf' = buf
        BY <1>5 DEF Undo, Redo, ProcessOne, mirrors
    <2> QED BY <1>5, <2>1, TimelineInv
<1>6. CASE \E id \in CellIds(nb) : EditInMirror(id) \/ EditInScratch(id)
    <2>1. AtRest /\ call' = call
        BY <1>6, EditInMirrorInv, EditInScratchInv DEF EditInMirror, EditInScratch
    <2>2. buf' = buf \/ ~BufferThere
        BY <1>6 DEF EditInMirror, EditInScratch, openCellRegion, mirrors
    <2> QED BY <2>1, <2>2 DEF Clean, AtRest, IInv, Known, BufferThere
<1>7. CASE SaveMirror \/ SaveUnchanged \/ Reopen
    <2>1. AtRest /\ call' = call
        BY <1>7, SaveMirrorInv, SaveUnchangedInv, ReopenInv
    <2> QED BY <1>7, <2>1 DEF Clean, AtRest
<1>8. CASE CloseMirror \/ Reload
    BY <1>8, CloseMirrorInv, ReloadInv DEF Clean
<1>9. CASE \E id \in Ids : SaveScratch(id)
    <2>1. AtRest /\ call' = call
        BY <1>9, SaveScratchInv
    <2>2. buf' = buf \/ ~buf.modified
        BY <1>9, RefreshedIs DEF SaveScratch
    <2> QED BY <2>1, <2>2 DEF Clean, AtRest
<1>10. CASE \E id \in Ids : CloseScratch(id) \/ TypeInScratch(id)
    <2>1. UNCHANGED <<buf, call>>
        BY <1>10 DEF CloseScratch, TypeInScratch, mirrors
    <2> QED BY <2>1 DEF Clean
<1>11. CASE Typing
    BY <1>11, TypingInv DEF Clean
<1>12. CASE UNCHANGED vars
    BY <1>12 DEF vars, mirrors, Clean
<1> QED
    BY <1>1, <1>2, <1>3, <1>4, <1>5, <1>6, <1>7, <1>8, <1>9, <1>10, <1>11, <1>12
       DEF Next, CallSteps, Operations, Typing

(* No operation, undo, redo or save of a scratch replaces unsaved edits of  *)
(* the mirror, provided that the user does not type between the look at     *)
(* &modified and the replacement (viewer.ts, syncMirrorBuffer).             *)
THEOREM UnsavedEditsStay ==
    ASSUME ~Meanwhile
    PROVE  Spec => EditsKept
<1>1. Init => Clean
    BY InitInv
<1>2. IInv /\ Clean /\ [Next]_vars => Clean'
    BY CleanStep
<1>3. IInv /\ Clean /\ [Next]_vars =>
         [buf.modified /\ buf' # buf =>
             \/ used'.typed # used.typed
             \/ SaveMirror \/ SaveUnchanged \/ CloseMirror \/ Reload \/ Reopen]_vars
    BY CleanStep
<1> QED
    BY <1>1, <1>2, <1>3, SpecInv, PTL DEF Spec, EditsKept

LEMMA SpecLinked == ASSUME ~Meanwhile PROVE Spec => []Linked
<1>1. Init => Linked
    BY InitLinked
<1>2. IInv /\ Linked /\ [Next]_vars => Linked'
    BY LinkedStep
<1> QED
    BY <1>1, <1>2, SpecInv, PTL DEF Spec

(* When no call is under way, the file of the mirror is the notebook's, and *)
(* a buffer without unsaved edits gives each code cell the source it has:   *)
(* magics commented out and restored, whatever operations, saves, undos and *)
(* sessions there were, provided that the user neither reloads nor wipes a  *)
(* buffer during a call, nor types while it is replaced (_mirror.ts,        *)
(* refreshMirror; lsp/mirror.ts, lsp/writeback.ts).                         *)
THEOREM MirrorInStep ==
    ASSUME ~Meanwhile
    PROVE  Spec => []InStep
<1>1. Linked => InStep
    <2> SUFFICES ASSUME Linked, AtRest, mirror.there PROVE
              /\ file = Lines(nb)
              /\ BufferThere /\ ~buf.modified =>
                    /\ ~mirror.stale \/ mirror.build.cellRegions = <<>>
                    /\ Distributed = CodeSources(nb)
        BY DEF InStep
    <2>1. Agrees(file, mirror, buf, nb)
        BY DEF Linked, Link, Settled, AtRest
    <2>2. IsBook(nb)
        <3>1. Book(nb, used.ids)
            BY DEF Linked, Cells
        <3> QED BY ONLY <3>1, BookIs
    <2>3. CodeIds(nb) = {} <=> BuildOf(nb).cellRegions = <<>>
        BY ONLY <2>2, RegionsNone
    <2>4. BufferThere => buf.state = "open"
        BY DEF BufferThere
    <2> QED BY ONLY <2>1, <2>3, <2>4 DEF Agrees, Distributed
<1> QED
    BY <1>1, SpecLinked, PTL

(* The state of the mirror and its file come and go together, and go with   *)
(* the buffer when it is wiped, whichever cells are still registered for it,*)
(* unless the notebook has no code cell to find the mirror by (edit.ts,     *)
(* resolveEditTarget, closeCellEdit; notebook.ts, teardownSession).         *)
THEOREM MirrorFileGoes ==
    ASSUME ~Meanwhile
    PROVE  Spec => FileGoesWithBuffer
<1>1. Linked => (mirror.there <=> file # <<>>) /\ (buf.state = "open" => mirror.there)
    BY DEF Linked, Link, Goes
<1>2. IInv /\ Linked /\ [Next]_vars =>
         [AtRest /\ HasCode /\ buf.state = "open" /\ buf'.state = "none" => ~mirror'.there]_vars
    BY LinkedStep
<1> QED
    BY <1>1, <1>2, SpecInv, SpecLinked, PTL DEF Spec, FileGoesWithBuffer

=============================================================================

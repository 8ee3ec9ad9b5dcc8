------------------------------ MODULE CommProofs ------------------------------
(***************************************************************************)
(* Proofs about Comm, for any comms, any number of messages, restarts and  *)
(* lost connections.                                                       *)
(***************************************************************************)
EXTENDS Comm, SequenceTheorems, TLAPS

-----------------------------------------------------------------------------
(* Sequences of messages.                                                  *)

IsSeq(s) == \E S : s \in Seq(S)

LEMMA Appended ==
    ASSUME NEW s, IsSeq(s), NEW e
    PROVE  /\ IsSeq(Append(s, e)) /\ Len(s) \in Nat
           /\ Len(Append(s, e)) = Len(s) + 1
           /\ \A i \in 1 .. Len(s) : Append(s, e)[i] = s[i]
           /\ Append(s, e)[Len(s) + 1] = e
<1>1. PICK S : s \in Seq(S)
    BY DEF IsSeq
<1>2. s \in Seq(S \cup {e}) /\ e \in S \cup {e}
    BY <1>1
<1>3. /\ Append(s, e) \in Seq(S \cup {e}) /\ Len(Append(s, e)) = Len(s) + 1
      /\ \A i \in 1 .. Len(s) : Append(s, e)[i] = s[i]
      /\ Append(s, e)[Len(s) + 1] = e
    BY <1>2, AppendProperties
<1> QED
    BY <1>1, <1>3 DEF IsSeq

LEMMA Removed ==
    ASSUME NEW s, IsSeq(s), NEW i \in 1 .. Len(s)
    PROVE  /\ IsSeq(RemoveAt(s, i)) /\ Len(s) \in Nat
           /\ Len(RemoveAt(s, i)) = Len(s) - 1
           /\ \A k \in 1 .. Len(s) - 1 :
                 RemoveAt(s, i)[k] = IF k < i THEN s[k] ELSE s[k + 1]
<1>1. PICK S : s \in Seq(S)
    BY DEF IsSeq
<1> DEFINE n == Len(s)
           front == SubSeq(s, 1, i - 1)
           back == SubSeq(s, i + 1, n)
<1>2. n \in Nat /\ i \in 1 .. n /\ \A k \in 1 .. n : s[k] \in S
    BY <1>1
<1>3. /\ front \in Seq(S) /\ Len(front) = i - 1
      /\ \A k \in 1 .. i - 1 : front[k] = s[k]
    <2>1. \A k \in 1 .. i - 1 : s[k] \in S
        BY <1>2
    <2>2. /\ front \in Seq(S)
          /\ Len(front) = IF 1 <= i - 1 THEN i - 1 - 1 + 1 ELSE 0
          /\ \A k \in 1 .. i - 1 - 1 + 1 : front[k] = s[1 + k - 1]
        BY <1>2, <2>1, SubSeqProperties
    <2> QED BY <1>2, <2>2
<1>4. /\ back \in Seq(S) /\ Len(back) = n - i
      /\ \A k \in 1 .. n - i : back[k] = s[i + k]
    <2>1. \A k \in i + 1 .. n : s[k] \in S
        BY <1>2
    <2>2. /\ back \in Seq(S)
          /\ Len(back) = IF i + 1 <= n THEN n - (i + 1) + 1 ELSE 0
          /\ \A k \in 1 .. n - (i + 1) + 1 : back[k] = s[i + 1 + k - 1]
        BY <1>2, <2>1, SubSeqProperties
    <2> QED BY <1>2, <2>2
<1> HIDE DEF n, front, back
<1>5. /\ front \o back \in Seq(S) /\ Len(front \o back) = Len(front) + Len(back)
      /\ \A k \in 1 .. Len(front) + Len(back) : (front \o back)[k] =
            IF k <= Len(front) THEN front[k] ELSE back[k - Len(front)]
    BY <1>3, <1>4, ConcatProperties
<1>6. \A k \in 1 .. n - 1 : (front \o back)[k] = IF k < i THEN s[k] ELSE s[k + 1]
    <2> SUFFICES ASSUME NEW k \in 1 .. n - 1
                 PROVE  (front \o back)[k] = IF k < i THEN s[k] ELSE s[k + 1]
        OBVIOUS
    <2>1. CASE k < i
        BY <2>1, <1>2, <1>3, <1>4, <1>5
    <2>2. CASE ~(k < i)
        <3>1. (front \o back)[k] = back[k - (i - 1)]
            BY <2>2, <1>2, <1>3, <1>4, <1>5
        <3>2. k - (i - 1) \in 1 .. n - i /\ i + (k - (i - 1)) = k + 1
            BY <2>2, <1>2
        <3> QED BY <2>2, <3>1, <3>2, <1>4
    <2> QED BY <2>1, <2>2
<1>7. RemoveAt(s, i) = front \o back
    BY DEF RemoveAt, front, back, n
<1>8. IsSeq(front \o back)
    BY <1>5 DEF IsSeq
<1>9. Len(front \o back) = n - 1
    BY <1>2, <1>3, <1>4, <1>5
<1> QED
    BY <1>2, <1>6, <1>7, <1>8, <1>9 DEF n

-----------------------------------------------------------------------------
(* The invariant.                                                          *)

IsHandle(h) ==
    /\ h = [state |-> h.state, got |-> h.got, closes |-> h.closes]
    /\ h.state \in {"none", "open", "closing", "closed"}
    /\ h.closes \in Nat

Conns == {"up", "reconnecting", "cut", "lost", "dead"}
Froms == Conns \ {"reconnecting"}

Shapes ==
    /\ handle = [id \in Ids |-> handle[id]] /\ \A id \in Ids : IsHandle(handle[id])
    /\ used \subseteq Ids /\ registry \subseteq Ids /\ kernel \subseteq Ids
    /\ restart \in [pc : {"off", "asked", "info"}, before : SUBSET Ids, from : Froms]
    /\ conn \in Conns /\ over \in BOOLEAN
    /\ IsSeq(inbound) /\ IsSeq(outbound)
    /\ \A i \in 1 .. Len(inbound) :
          inbound[i].id \in Ids /\ inbound[i].type \in {"open", "msg", "close"}
    /\ \A i \in 1 .. Len(outbound) : outbound[i].id \in Ids
    /\ \/ tasks = <<>>
       \/ \E t : tasks = <<t>> /\ t.id \in Ids

(* A comm that was not opened has no handle, and no restart knows it.      *)
Fresh ==
    /\ \A id \in Ids : id \notin used => handle[id].state = "none"
    /\ restart.before \subseteq used

(* A comm_open that is under way is the only one of its comm, and comes    *)
(* before there is a handle.                                               *)
OpensOnce ==
    /\ \A i \in 1 .. Len(inbound) :
          inbound[i].type = "open" =>
              /\ inbound[i].id \in used \ restart.before
              /\ handle[inbound[i].id].state = "none"
    /\ \A i, j \in 1 .. Len(inbound) :
          /\ inbound[i].type = "open" /\ inbound[j].type = "open"
          /\ inbound[i].id = inbound[j].id
          => i = j

(* A comm whose comm_open was refused: openComm is about to take it back.  *)
Refused(id) ==
    \E i \in 1 .. Len(tasks) :
        tasks[i].call = "open" /\ ~tasks[i].ok /\ tasks[i].id = id

(* With no socket to lose any more, the registry has only comms that a     *)
(* window has let by.                                                      *)
Ended ==
    conn = "dead" \/ over \/ (restart.pc = "asked" /\ restart.from = "dead")

Drained ==
    /\ Ended => \A id \in registry : id \in late \/ Refused(id)
    /\ restart.pc # "off" => conn = "cut" /\ ~over

IInv == Shapes /\ ClosedOnce /\ Fresh /\ OpensOnce /\ Drained

(* _fireOnClose.                                                           *)
LEMMA Fires ==
    ASSUME NEW h, IsHandle(h)
    PROVE  /\ IsHandle(FireOnClose(h)) /\ FireOnClose(h).state = "closed"
           /\ FireOnClose(h).closes = IF h.state = "closed" THEN h.closes
                                      ELSE h.closes + 1
<1>1. PICK state, got, closes :
         /\ h = [state |-> state, got |-> got, closes |-> closes]
         /\ state \in {"none", "open", "closing", "closed"} /\ closes \in Nat
    BY DEF IsHandle
<1>2. CASE state = "closed"
    BY <1>1, <1>2 DEF IsHandle, FireOnClose
<1>3. CASE state # "closed"
    <2>1. FireOnClose(h) = [state |-> "closed", got |-> got, closes |-> closes + 1]
        BY <1>1, <1>3 DEF FireOnClose
    <2> QED BY <1>1, <1>3, <2>1 DEF IsHandle
<1> QED
    BY <1>2, <1>3

LEMMA FiredHandles ==
    ASSUME Shapes, NEW ids
    PROVE  /\ Fired(ids) = [id \in Ids |-> Fired(ids)[id]]
           /\ \A id \in Ids :
                 /\ IsHandle(Fired(ids)[id])
                 /\ id \notin ids => Fired(ids)[id] = handle[id]
                 /\ id \in ids => /\ Fired(ids)[id].state = "closed"
                                  /\ Fired(ids)[id].closes =
                                        IF handle[id].state = "closed"
                                        THEN handle[id].closes ELSE handle[id].closes + 1
BY Fires DEF Fired, Shapes

LEMMA InitInv == Init => IInv
<1> SUFFICES ASSUME Init PROVE IInv
    OBVIOUS
<1>1. IsSeq(<<>>) /\ Len(<<>>) = 0 /\ 1 .. 0 = {}
    BY DEF IsSeq
<1>2. \A id \in Ids : handle[id] = NoHandle /\ IsHandle(handle[id])
    BY DEF Init, NoHandle, IsHandle
<1>3. Shapes
    BY <1>1, <1>2 DEF Init, Shapes, NoRestart, Conns, Froms
<1>4. ClosedOnce
    BY <1>2 DEF Init, ClosedOnce, NoHandle
<1>5. Fresh /\ OpensOnce /\ Drained
    BY <1>1, <1>2 DEF Init, Fresh, OpensOnce, Drained, Ended, NoHandle, NoRestart
<1> QED
    BY <1>3, <1>4, <1>5 DEF IInv

-----------------------------------------------------------------------------
(* Messages that are sent and taken.                                       *)

Inbounds ==
    /\ IsSeq(inbound)
    /\ \A i \in 1 .. Len(inbound) :
          inbound[i].id \in Ids /\ inbound[i].type \in {"open", "msg", "close"}

Outbounds == IsSeq(outbound) /\ \A i \in 1 .. Len(outbound) : outbound[i].id \in Ids

LEMMA Says ==
    ASSUME IInv, NEW m, m.id \in Ids, m.type \in {"open", "msg", "close"},
           m.type = "open" => m.id \notin used /\ m.id \in used',
           KernelSays(m), used \subseteq used', UNCHANGED <<handle, restart>>
    PROVE  Inbounds' /\ OpensOnce'
<1>0. CASE ~Heard
    <2>1. inbound' = inbound
        BY <1>0 DEF KernelSays
    <2> QED BY <2>1 DEF IInv, Shapes, OpensOnce, Inbounds
<1> SUFFICES ASSUME Heard PROVE Inbounds' /\ OpensOnce'
    BY <1>0
<1>1. /\ IsSeq(inbound') /\ Len(inbound) \in Nat /\ Len(inbound') = Len(inbound) + 1
      /\ \A i \in 1 .. Len(inbound) : inbound'[i] = inbound[i]
      /\ inbound'[Len(inbound) + 1] = m
    <2>1. inbound' = Append(inbound, m)
        BY DEF KernelSays
    <2>2. IsSeq(inbound)
        BY DEF IInv, Shapes
    <2> QED BY <2>1, <2>2, Appended
<1>2. \A i \in 1 .. Len(inbound') : i \in 1 .. Len(inbound) \/ inbound'[i] = m
    BY <1>1
<1>3. Inbounds'
    BY <1>1, <1>2 DEF IInv, Shapes, Inbounds
<1>4. ASSUME NEW i \in 1 .. Len(inbound'), inbound'[i].type = "open"
      PROVE  inbound'[i].id \in used' \ restart'.before /\ handle'[inbound'[i].id].state = "none"
    <2>1. CASE i \in 1 .. Len(inbound)
        BY <2>1, <1>1, <1>4 DEF IInv, OpensOnce
    <2>2. CASE inbound'[i] = m
        BY <2>2, <1>4 DEF IInv, Fresh
    <2> QED BY <2>1, <2>2, <1>2
<1>5. ASSUME NEW i \in 1 .. Len(inbound'), NEW j \in 1 .. Len(inbound'),
             inbound'[i].type = "open", inbound'[j].type = "open",
             inbound'[i].id = inbound'[j].id
      PROVE  i = j
    <2>1. ASSUME NEW k \in 1 .. Len(inbound), inbound[k].type = "open"
          PROVE  inbound[k].id \in used
        BY <2>1 DEF IInv, OpensOnce
    <2>2. CASE i \in 1 .. Len(inbound) /\ j \in 1 .. Len(inbound)
        BY <2>2, <1>1, <1>5 DEF IInv, OpensOnce
    <2>3. CASE i \in 1 .. Len(inbound) /\ j \notin 1 .. Len(inbound)
        BY <2>1, <2>3, <1>1, <1>2, <1>5
    <2>4. CASE i \notin 1 .. Len(inbound) /\ j \in 1 .. Len(inbound)
        BY <2>1, <2>4, <1>1, <1>2, <1>5
    <2>5. CASE i \notin 1 .. Len(inbound) /\ j \notin 1 .. Len(inbound)
        BY <2>5, <1>1
    <2> QED BY <2>2, <2>3, <2>4, <2>5
<1> QED
    BY <1>3, <1>4, <1>5 DEF OpensOnce

(* A message is taken; a handle may go from "none" if the message opens it.*)
LEMMA Takes ==
    ASSUME IInv, NEW i \in 1 .. Len(inbound), inbound' = RemoveAt(inbound, i),
           UNCHANGED <<used, restart>>,
           \A id \in Ids :
              \/ handle'[id].state = handle[id].state
              \/ handle[id].state # "none"
              \/ id = inbound[i].id /\ inbound[i].type = "open"
    PROVE  Inbounds' /\ OpensOnce'
<1> DEFINE At(k) == IF k < i THEN k ELSE k + 1
<1>1. /\ IsSeq(inbound') /\ Len(inbound) \in Nat /\ Len(inbound') = Len(inbound) - 1
      /\ \A k \in 1 .. Len(inbound) - 1 : inbound'[k] = inbound[At(k)]
    <2>1. /\ IsSeq(RemoveAt(inbound, i)) /\ Len(inbound) \in Nat
          /\ Len(RemoveAt(inbound, i)) = Len(inbound) - 1
          /\ \A k \in 1 .. Len(inbound) - 1 : RemoveAt(inbound, i)[k] =
                IF k < i THEN inbound[k] ELSE inbound[k + 1]
        BY Removed DEF IInv, Shapes
    <2> QED BY <2>1
<1>2. \A k \in 1 .. Len(inbound') :
         At(k) \in 1 .. Len(inbound) /\ At(k) # i /\ inbound'[k] = inbound[At(k)]
    BY <1>1
<1>3. Inbounds'
    BY <1>1, <1>2 DEF IInv, Shapes, Inbounds
<1>4. ASSUME NEW k \in 1 .. Len(inbound'), inbound'[k].type = "open"
      PROVE  inbound'[k].id \in used' \ restart'.before /\ handle'[inbound'[k].id].state = "none"
    <2>1. PICK n \in 1 .. Len(inbound) : n # i /\ inbound'[k] = inbound[n]
        BY <1>2
    <2>2. /\ inbound[n].id \in used \ restart.before /\ inbound[n].id \in Ids
          /\ handle[inbound[n].id].state = "none"
        BY <2>1, <1>4 DEF IInv, OpensOnce, Shapes
    <2>3. ~(inbound[n].id = inbound[i].id /\ inbound[i].type = "open")
        BY <2>1, <1>4 DEF IInv, OpensOnce
    <2> QED BY <2>1, <2>2, <2>3
<1>5. ASSUME NEW k \in 1 .. Len(inbound'), NEW l \in 1 .. Len(inbound'),
             inbound'[k].type = "open", inbound'[l].type = "open",
             inbound'[k].id = inbound'[l].id
      PROVE  k = l
    <2>1. At(k) = At(l)
        <3> HIDE DEF At
        <3> QED BY <1>2, <1>5 DEF IInv, OpensOnce
    <2> QED BY <2>1, <1>1
<1> QED
    BY <1>3, <1>4, <1>5 DEF OpensOnce

LEMMA NoInbound ==
    ASSUME inbound' = <<>> PROVE Inbounds' /\ OpensOnce'
<1>1. IsSeq(<<>>) /\ Len(<<>>) = 0 /\ 1 .. 0 = {}
    BY DEF IsSeq
<1> QED BY <1>1 DEF Inbounds, OpensOnce

LEMMA Outgoing ==
    ASSUME IInv,
           \/ \E m : m.id \in Ids /\ outbound' = Append(outbound, m)
           \/ outbound # <<>> /\ outbound' = Tail(outbound)
           \/ outbound' = <<>>
           \/ outbound' = outbound
    PROVE  Outbounds'
<1>1. IsSeq(outbound) /\ \A i \in 1 .. Len(outbound) : outbound[i].id \in Ids
    BY DEF IInv, Shapes
<1>2. CASE \E m : m.id \in Ids /\ outbound' = Append(outbound, m)
    <2>1. PICK m : m.id \in Ids /\ outbound' = Append(outbound, m)
        BY <1>2
    <2>2. /\ IsSeq(outbound') /\ Len(outbound) \in Nat
          /\ Len(outbound') = Len(outbound) + 1
          /\ \A i \in 1 .. Len(outbound) : outbound'[i] = outbound[i]
          /\ outbound'[Len(outbound) + 1] = m
        BY <1>1, <2>1, Appended
    <2>3. \A i \in 1 .. Len(outbound') : i \in 1 .. Len(outbound) \/ outbound'[i] = m
        BY <2>2
    <2> QED BY <1>1, <2>1, <2>2, <2>3 DEF Outbounds
<1>3. CASE outbound # <<>> /\ outbound' = Tail(outbound)
    <2>1. PICK S : outbound \in Seq(S)
        BY <1>1 DEF IsSeq
    <2>2. /\ outbound' \in Seq(S) /\ Len(outbound') = Len(outbound) - 1
          /\ \A i \in 1 .. Len(outbound') : outbound'[i] = outbound[i + 1]
        BY <1>3, <2>1
    <2>3. \A i \in 1 .. Len(outbound') : i + 1 \in 1 .. Len(outbound)
        BY <2>1, <2>2
    <2>4. IsSeq(outbound')
        BY <2>2 DEF IsSeq
    <2> QED BY <1>1, <2>2, <2>3, <2>4 DEF Outbounds
<1>4. CASE outbound' = <<>>
    <2>1. IsSeq(<<>>) /\ Len(<<>>) = 0 /\ 1 .. 0 = {}
        BY DEF IsSeq
    <2> QED BY <1>4, <2>1 DEF Outbounds
<1>5. CASE outbound' = outbound
    BY <1>1, <1>5 DEF Outbounds
<1> QED
    BY <1>2, <1>3, <1>4, <1>5

LEMMA MsgIs ==
    ASSUME NEW type, NEW id, NEW n, NEW buffers
    PROVE  Msg(type, id, n, buffers).type = type /\ Msg(type, id, n, buffers).id = id
BY DEF Msg

LEMMA NthIs ==
    ASSUME NEW id, NEW n
    PROVE  Nth(id, n).type = "msg" /\ Nth(id, n).id = id
BY MsgIs DEF Nth

-----------------------------------------------------------------------------
(* The kernel.                                                             *)

LEMMA KernelInv ==
    ASSUME IInv,
           \/ \E id \in KernelIds : KernelOpens(id)
           \/ \E id \in Ids : KernelSends(id) \/ KernelCloses(id)
           \/ KernelReads
    PROVE  IInv'
<1>1. /\ UNCHANGED <<conn, registry, handle, tasks, restart, over, late>>
      /\ used \subseteq used' /\ used' \subseteq Ids /\ kernel' \subseteq Ids
      /\ OpensOnce' /\ Inbounds' /\ Outbounds'
    <2>1. ASSUME NEW id \in KernelIds, KernelOpens(id) PROVE <1>1!:
        <3>1. KernelSays(Msg("open", id, 0, <<>>)) /\ id \notin used /\ id \in Ids
            BY <2>1 DEF KernelOpens, Ids
        <3>2. UNCHANGED <<conn, registry, handle, tasks, restart, over, late, outbound>>
            BY <2>1 DEF KernelOpens, comms, flow
        <3>3. used \subseteq used' /\ used' \subseteq Ids /\ kernel' \subseteq Ids /\ id \in used'
            BY <2>1, <3>1 DEF KernelOpens, IInv, Shapes
        <3>4. OpensOnce' /\ Inbounds'
            BY <3>1, <3>2, <3>3, MsgIs, Says
        <3> QED BY <3>2, <3>3, <3>4, Outgoing
    <2>2. ASSUME NEW id \in Ids, KernelSends(id) PROVE <1>1!:
        <3>1. KernelSays(Nth(id, said[id] + 1))
            BY <2>2 DEF KernelSends
        <3>2. UNCHANGED <<conn, registry, handle, tasks, restart, over, late, outbound, used, kernel>>
            BY <2>2 DEF KernelSends, comms, flow
        <3> HIDE DEF Nth
        <3>3. OpensOnce' /\ Inbounds'
            <4> DEFINE m == Nth(id, said[id] + 1)
            <4>1. m.type = "msg" /\ m.id = id
                BY NthIs
            <4> HIDE DEF m
            <4>2. KernelSays(m)
                BY <3>1 DEF m
            <4> QED BY <4>1, <4>2, <3>2, Says
        <3> QED BY <3>2, <3>3, Outgoing DEF IInv, Shapes
    <2>3. ASSUME NEW id \in Ids, KernelCloses(id) PROVE <1>1!:
        <3>1. KernelSays(Msg("close", id, 0, <<>>)) /\ kernel' \subseteq Ids
            BY <2>3 DEF KernelCloses, IInv, Shapes
        <3>2. UNCHANGED <<conn, registry, handle, tasks, restart, over, late, outbound, used>>
            BY <2>3 DEF KernelCloses, comms, flow
        <3>3. OpensOnce' /\ Inbounds'
            BY <3>1, <3>2, MsgIs, Says
        <3> QED BY <3>1, <3>2, <3>3, Outgoing DEF IInv, Shapes
    <2>4. ASSUME KernelReads PROVE <1>1!:
        <3>1. outbound # <<>> /\ outbound' = Tail(outbound)
            BY <2>4 DEF KernelReads
        <3>2. UNCHANGED <<conn, registry, handle, tasks, restart, over, late, used>>
            BY <2>4 DEF KernelReads, comms, flow
        <3>3. Head(outbound).id \in Ids
            <4>1. PICK S : outbound \in Seq(S)
                BY DEF IInv, Shapes, IsSeq
            <4>2. Head(outbound) = outbound[1] /\ 1 \in 1 .. Len(outbound)
                BY <3>1, <4>1
            <4> QED BY <4>2 DEF IInv, Shapes
        <3>4. /\ kernel' \subseteq Ids
              /\ \/ inbound' = inbound
                 \/ KernelSays(Msg("close", Head(outbound).id, 0, <<>>))
            BY <2>4, <3>3 DEF KernelReads, IInv, Shapes
        <3>5. OpensOnce' /\ Inbounds'
            <4>1. CASE inbound' = inbound
                BY <4>1, <3>2 DEF IInv, Shapes, OpensOnce, Inbounds
            <4>2. CASE KernelSays(Msg("close", Head(outbound).id, 0, <<>>))
                BY <4>2, <3>2, <3>3, MsgIs, Says
            <4> QED BY <3>4, <4>1, <4>2
        <3> QED BY <3>1, <3>2, <3>4, <3>5, Outgoing DEF IInv, Shapes
    <2> QED BY <2>1, <2>2, <2>3, <2>4
<1>2. Shapes'
    BY <1>1 DEF IInv, Shapes, Inbounds, Outbounds
<1>3. ClosedOnce' /\ Fresh' /\ Drained'
    BY <1>1 DEF IInv, ClosedOnce, Fresh, Drained, Ended, Refused
<1> QED
    BY <1>1, <1>2, <1>3 DEF IInv

-----------------------------------------------------------------------------
(* The frontend.                                                           *)

(* Only messages to the kernel, the grace queue, the target or the         *)
(* connection change.                                                      *)
LEMMA QuietInv ==
    ASSUME IInv,
           \/ \E id \in Ids : Send(id) \/ GraceEnds(id)
           \/ Register \/ Disconnect \/ Reconnect \/ GivesUp
    PROVE  IInv'
<1>1. /\ UNCHANGED <<kernel, used, registry, handle, tasks, restart, over, late>>
      /\ inbound' = inbound \/ inbound' = <<>>
      /\ \/ conn' = conn
         \/ conn \in {"up", "cut"} /\ conn' = "reconnecting" /\ restart.pc = "off"
         \/ conn = "reconnecting" /\ conn' \in {"up", "lost"}
    BY DEF Send, GraceEnds, Register, Disconnect, Reconnect, GivesUp, Discard,
           kernelSide, wires, comms, flow, aux
<1>2. Outbounds'
    <2>1. ASSUME NEW id \in Ids, Send(id) PROVE Outbounds'
        <3>1. PICK buffers : outbound' = IF Sendable(buffers)
                                         THEN Append(outbound, Msg("msg", id, 0, <<>>))
                                         ELSE outbound
            BY <2>1 DEF Send
        <3> HIDE DEF Sendable, Msg
        <3> QED BY <3>1, MsgIs, Outgoing
    <2>2. CASE outbound' = <<>> \/ outbound' = outbound
        BY <2>2, Outgoing
    <2> QED BY <2>1, <2>2 DEF GraceEnds, Register, Disconnect, Reconnect,
                                     GivesUp, Discard, wires
<1>3. Inbounds' /\ OpensOnce'
    <2>1. CASE inbound' = <<>>
        BY <2>1, NoInbound
    <2>2. CASE inbound' = inbound
        BY <2>2, <1>1 DEF IInv, Shapes, OpensOnce, Inbounds
    <2> QED BY <2>1, <2>2, <1>1
<1>4. Shapes'
    BY <1>1, <1>2, <1>3 DEF IInv, Shapes, Inbounds, Outbounds, Conns
<1>5. ClosedOnce' /\ Fresh' /\ Drained'
    BY <1>1 DEF IInv, ClosedOnce, Fresh, Drained, Ended, Refused
<1> QED
    BY <1>3, <1>4, <1>5 DEF IInv

LEMMA OpenCommInv ==
    ASSUME IInv, NEW id \in FrontIds, OpenComm(id)
    PROVE  IInv'
<1> DEFINE t == [call |-> "open", id |-> id, ok |-> Sendable(<<>>)]
<1>1. /\ id \in Ids /\ id \notin used /\ tasks = <<>> /\ tasks' = <<t>>
      /\ used' = used \cup {id} /\ registry' = registry \cup {id}
      /\ handle' = [handle EXCEPT ![id].state = "open"]
      /\ late' = IF over THEN late \cup {id} ELSE late
      /\ UNCHANGED <<kernel, inbound, conn, restart, over>>
    BY DEF OpenComm, Ids, Idle
<1>2. handle[id].state = "none" /\ IsHandle(handle[id])
    BY <1>1 DEF IInv, Fresh, Shapes
<1>3. /\ handle' = [i \in Ids |-> handle'[i]]
      /\ \A i \in Ids \ {id} : handle'[i] = handle[i]
      /\ IsHandle(handle'[id]) /\ handle'[id].state = "open"
      /\ handle'[id].closes = handle[id].closes
    <2>1. handle'[id] = [handle[id] EXCEPT !.state = "open"]
        BY <1>1 DEF IInv, Shapes
    <2>2. PICK g, c : handle[id] = [state |-> "none", got |-> g, closes |-> c] /\ c \in Nat
        BY <1>2 DEF IsHandle
    <2>3. handle'[id] = [state |-> "open", got |-> g, closes |-> c]
        BY <2>1, <2>2
    <2>4. IsHandle(handle'[id]) /\ handle'[id].state = "open"
          /\ handle'[id].closes = handle[id].closes
        BY <2>2, <2>3 DEF IsHandle
    <2> QED BY <1>1, <2>4 DEF IInv, Shapes
<1>4. Outbounds'
    <2>1. \/ outbound' = outbound
          \/ outbound' = Append(outbound, Msg("open", id, 0, <<>>))
        BY DEF OpenComm
    <2> HIDE DEF Msg
    <2> QED BY <2>1, <1>1, MsgIs, Outgoing
<1>5. Shapes'
    <2>1. tasks' = <<t>> /\ t.id \in Ids
        BY <1>1
    <2> HIDE DEF t
    <2> QED BY <1>1, <1>3, <1>4, <2>1 DEF IInv, Shapes, Outbounds
<1>6. ClosedOnce'
    BY <1>1, <1>2, <1>3 DEF IInv, ClosedOnce
<1>7. Fresh'
    BY <1>1, <1>3 DEF IInv, Fresh
<1>8. OpensOnce'
    <2>1. \A i \in 1 .. Len(inbound) : inbound[i].type = "open" =>
             inbound[i].id # id /\ inbound[i].id \in Ids
        BY <1>1 DEF IInv, OpensOnce, Shapes
    <2> QED BY <1>1, <1>3, <2>1 DEF IInv, OpensOnce
<1>9. Drained'
    <2>1. ASSUME Ended', NEW i \in registry' PROVE i \in late' \/ Refused(i)'
        <3>1. CASE over
            <4>1. \A k : ~Refused(k)
                BY <1>1 DEF Refused
            <4> QED BY <3>1, <1>1, <4>1 DEF IInv, Drained, Ended
        <3>2. CASE ~over
            <4>1. Ended /\ ~Sendable(<<>>)
                BY <2>1, <1>1, <3>2 DEF Ended, Sendable, IInv, Drained
            <4>2. Refused(id)'
                <5>1. Len(tasks') = 1 /\ tasks'[1] = t
                    BY <1>1
                <5>2. t.call = "open" /\ ~t.ok /\ t.id = id
                    BY <4>1
                <5> HIDE DEF t
                <5> QED BY <5>1, <5>2 DEF Refused
            <4>3. \A k : ~Refused(k)
                BY <1>1 DEF Refused
            <4> QED BY <1>1, <3>2, <4>1, <4>2, <4>3 DEF IInv, Drained
        <3> QED BY <3>1, <3>2
    <2> QED BY <1>1, <2>1 DEF IInv, Drained
<1> QED
    BY <1>5, <1>6, <1>7, <1>8, <1>9 DEF IInv

LEMMA CloseInv ==
    ASSUME IInv, NEW id \in Ids, Close(id)
    PROVE  IInv'
<1> DEFINE t == [call |-> "close", id |-> id, ok |-> Sendable(<<>>)]
<1>1. /\ tasks = <<>> /\ tasks' = <<t>> /\ handle[id].state = "open"
      /\ handle' = [handle EXCEPT ![id].state = "closing"]
      /\ UNCHANGED <<kernel, used, inbound, conn, registry, restart, over, late>>
    BY DEF Close, Idle, kernelSide, aux
<1>2. IsHandle(handle[id])
    BY DEF IInv, Shapes
<1>3. /\ handle' = [i \in Ids |-> handle'[i]]
      /\ \A i \in Ids \ {id} : handle'[i] = handle[i]
      /\ IsHandle(handle'[id]) /\ handle'[id].state = "closing"
      /\ handle'[id].closes = handle[id].closes
    <2>1. handle'[id] = [handle[id] EXCEPT !.state = "closing"]
        BY <1>1 DEF IInv, Shapes
    <2>2. PICK g, c : handle[id] = [state |-> "open", got |-> g, closes |-> c] /\ c \in Nat
        BY <1>1, <1>2 DEF IsHandle
    <2>3. handle'[id] = [state |-> "closing", got |-> g, closes |-> c]
        BY <2>1, <2>2
    <2>4. IsHandle(handle'[id]) /\ handle'[id].state = "closing"
          /\ handle'[id].closes = handle[id].closes
        BY <2>2, <2>3 DEF IsHandle
    <2> QED BY <1>1, <2>4 DEF IInv, Shapes
<1>4. Outbounds'
    <2>1. \/ outbound' = outbound
          \/ outbound' = Append(outbound, Msg("close", id, 0, <<>>))
        BY DEF Close
    <2> HIDE DEF Msg
    <2> QED BY <2>1, MsgIs, Outgoing
<1>5. Shapes'
    <2>1. tasks' = <<t>> /\ t.id \in Ids
        BY <1>1
    <2> HIDE DEF t
    <2> QED BY <1>1, <1>3, <1>4, <2>1 DEF IInv, Shapes, Outbounds
<1>6. ClosedOnce'
    BY <1>1, <1>3 DEF IInv, ClosedOnce
<1>7. Fresh'
    BY <1>1, <1>3 DEF IInv, Fresh
<1>8. OpensOnce'
    <2>1. \A i \in 1 .. Len(inbound) : inbound[i].type = "open" =>
             inbound[i].id # id /\ inbound[i].id \in Ids
        BY <1>1 DEF IInv, OpensOnce, Shapes
    <2> QED BY <1>1, <1>3, <2>1 DEF IInv, OpensOnce
<1>9. Drained'
    <2>1. \A k : ~Refused(k)
        BY <1>1 DEF Refused
    <2> QED BY <1>1, <2>1 DEF IInv, Drained, Ended
<1> QED
    BY <1>5, <1>6, <1>7, <1>8, <1>9 DEF IInv

(* What follows the await of openComm and close.                           *)
LEMMA ReturnInv ==
    ASSUME IInv, OpenReturns \/ CloseReturns
    PROVE  IInv'
<1>1. PICK t : tasks = <<t>> /\ t.id \in Ids
    BY DEF IInv, Shapes, OpenReturns, CloseReturns, Idle
<1>2. Head(tasks) = t /\ Tail(tasks) = <<>> /\ Len(tasks) = 1 /\ tasks[1] = t
    BY <1>1
<1>3. /\ tasks' = <<>>
      /\ UNCHANGED <<kernel, used, inbound, outbound, conn, restart, over, late>>
    BY <1>2 DEF OpenReturns, CloseReturns, kernelSide, wires, aux
<1>4. \/ handle' = handle /\ registry' = registry
      \/ /\ OpenReturns /\ ~t.ok
         /\ handle' = [handle EXCEPT ![t.id] = NoHandle] /\ registry' = registry \ {t.id}
      \/ /\ handle[t.id].state = "closing" /\ registry' = registry
         /\ handle' = [handle EXCEPT ![t.id].state = "open"]
      \/ /\ handle[t.id].state = "closing" /\ registry' = registry \ {t.id}
         /\ handle' = [handle EXCEPT ![t.id] = FireOnClose(@)]
    <2>1. CASE OpenReturns
        BY <2>1, <1>2 DEF OpenReturns
    <2>2. CASE CloseReturns
        <3>1. CASE handle[t.id].state # "closing"
            BY <2>2, <3>1, <1>2 DEF CloseReturns
        <3>2. CASE handle[t.id].state = "closing" /\ ~t.ok
            BY <2>2, <3>2, <1>2 DEF CloseReturns
        <3>3. CASE handle[t.id].state = "closing" /\ t.ok
            BY <2>2, <3>3, <1>2 DEF CloseReturns
        <3> QED BY <3>1, <3>2, <3>3
    <2> QED BY <2>1, <2>2
<1>5. IsHandle(handle[t.id])
    BY <1>1 DEF IInv, Shapes
<1>6. /\ handle' = [i \in Ids |-> handle'[i]]
      /\ \A i \in Ids \ {t.id} : handle'[i] = handle[i]
      /\ IsHandle(handle'[t.id])
      /\ handle[t.id].state = "none" => handle'[t.id].state = "none"
      /\ handle'[t.id].closes = (IF handle'[t.id].state = "closed" THEN 1 ELSE 0)
      /\ t.id \in registry' <=> handle'[t.id].state \in {"open", "closing"}
    <2>1. handle' = [i \in Ids |-> handle'[i]] /\ \A i \in Ids \ {t.id} : handle'[i] = handle[i]
        BY <1>1, <1>4 DEF IInv, Shapes
    <2>2. CASE handle' = handle /\ registry' = registry
        BY <2>1, <2>2, <1>1, <1>5 DEF IInv, ClosedOnce
    <2>3. CASE /\ handle' = [handle EXCEPT ![t.id] = NoHandle]
               /\ registry' = registry \ {t.id}
        <3>1. handle'[t.id] = NoHandle
            BY <2>3, <1>1 DEF IInv, Shapes
        <3> QED BY <2>1, <2>3, <3>1 DEF NoHandle, IsHandle
    <2>4. CASE /\ handle[t.id].state = "closing" /\ registry' = registry
               /\ handle' = [handle EXCEPT ![t.id].state = "open"]
        <3>1. handle'[t.id] = [handle[t.id] EXCEPT !.state = "open"]
            BY <2>4, <1>1 DEF IInv, Shapes
        <3>2. PICK g, c : /\ handle[t.id] = [state |-> "closing", got |-> g, closes |-> c]
                          /\ c \in Nat
            BY <2>4, <1>5 DEF IsHandle
        <3>3. handle'[t.id] = [state |-> "open", got |-> g, closes |-> c]
            BY <3>1, <3>2
        <3>4. c = 0 /\ t.id \in registry
            BY <3>2, <1>1 DEF IInv, ClosedOnce
        <3> QED BY <2>1, <2>4, <3>3, <3>4 DEF IsHandle
    <2>5. CASE /\ handle[t.id].state = "closing" /\ registry' = registry \ {t.id}
               /\ handle' = [handle EXCEPT ![t.id] = FireOnClose(@)]
        <3>1. handle'[t.id] = FireOnClose(handle[t.id])
            BY <2>5, <1>1 DEF IInv, Shapes
        <3>2. handle[t.id].closes = 0
            BY <2>5, <1>1 DEF IInv, ClosedOnce
        <3>3. /\ IsHandle(handle'[t.id]) /\ handle'[t.id].state = "closed"
              /\ handle'[t.id].closes = 1
            BY <2>5, <1>5, <3>1, <3>2, Fires
        <3> QED BY <2>1, <2>5, <3>3
    <2> QED BY <1>4, <2>2, <2>3, <2>4, <2>5
<1>7. Shapes'
    BY <1>3, <1>4, <1>6 DEF IInv, Shapes
<1>8. ClosedOnce'
    BY <1>4, <1>6 DEF IInv, ClosedOnce
<1>9. Fresh' /\ OpensOnce'
    <2>1. \A i \in Ids : handle[i].state = "none" => handle'[i].state = "none"
        BY <1>6
    <2> QED BY <1>3, <2>1 DEF IInv, Fresh, OpensOnce, Shapes
<1>10. Drained'
    <2>1. ASSUME NEW id \in registry', Refused(id) PROVE FALSE
        <3>1. t.call = "open" /\ ~t.ok /\ t.id = id
            BY <2>1, <1>2 DEF Refused
        <3>2. OpenReturns
            BY <3>1, <1>2 DEF CloseReturns
        <3>3. registry' = registry \ {id}
            BY <3>1, <3>2, <1>2 DEF OpenReturns
        <3> QED BY <2>1, <3>3
    <2>2. registry' \subseteq registry
        BY <1>4
    <2> QED BY <1>3, <2>1, <2>2 DEF IInv, Drained, Ended
<1> QED
    BY <1>7, <1>8, <1>9, <1>10 DEF IInv

-----------------------------------------------------------------------------
(* The dispatcher.                                                         *)

LEMMA InboundInv ==
    ASSUME IInv, Inbound
    PROVE  IInv'
<1>1. PICK i \in 1 .. Len(inbound) :
         /\ inbound' = RemoveAt(inbound, i)
         /\ \E msg \in Decoded(inbound[i]) :
               CASE inbound[i].type = "open"  -> handleOpen(inbound[i].id)
                 [] inbound[i].type = "msg"   -> handleMsg(inbound[i].id, msg)
                 [] inbound[i].type = "close" -> handleClose(inbound[i].id)
    <2>1. DOMAIN inbound = 1 .. Len(inbound)
        BY DEF IInv, Shapes, IsSeq
    <2> QED BY <2>1 DEF Inbound
<1> DEFINE id == inbound[i].id
<1>2. id \in Ids /\ inbound[i].type \in {"open", "msg", "close"} /\ IsHandle(handle[id])
    BY DEF IInv, Shapes
<1>3. /\ UNCHANGED <<kernel, used, conn, tasks, restart, over>> /\ tasks = <<>>
      /\ conn = "up" \/ (conn = "cut" /\ (restart.pc = "asked" => restart.from # "dead"))
    BY DEF Inbound, kernelSide, Idle, Heard, flow
<1>4. \/ Refuse(id)
      \/ /\ inbound[i].type = "open" /\ id \notin registry /\ Accept(id)
         /\ late' = IF over THEN late \cup {id} ELSE late
         /\ UNCHANGED outbound
      \/ \E msg : handleMsg(id, msg)
      \/ handleClose(id)
    <2> HIDE DEF id
    <2>1. CASE inbound[i].type = "open"
        <3>1. handleOpen(id)
            BY <1>1, <2>1 DEF id
        <3> QED BY <2>1, <3>1 DEF handleOpen
    <2>2. CASE inbound[i].type = "msg"
        BY <1>1, <2>2 DEF id
    <2>3. CASE inbound[i].type = "close"
        BY <1>1, <2>3 DEF id
    <2> QED BY <1>2, <2>1, <2>2, <2>3
<1>5. Outbounds'
    <2>1. \/ outbound' = outbound
          \/ outbound' = Append(outbound, Msg("close", id, 0, <<>>))
        <3> HIDE DEF id
        <3> QED BY <1>4 DEF Refuse, handleMsg, handleClose
    <2> HIDE DEF Msg
    <2> QED BY <2>1, <1>2, MsgIs, Outgoing
<1>6. /\ handle' = [k \in Ids |-> handle'[k]]
      /\ \A k \in Ids \ {id} : handle'[k] = handle[k]
      /\ registry' \subseteq Ids
      /\ \A k \in Ids \ {id} : k \in registry' <=> k \in registry
      /\ late \subseteq late'
    <2> HIDE DEF id
    <2>1. CASE Refuse(id)
        BY <2>1 DEF Refuse, comms, IInv, Shapes
    <2>2. CASE Accept(id) /\ late \subseteq late'
        BY <2>2, <1>2 DEF Accept, IInv, Shapes
    <2>3. CASE \E msg : handleMsg(id, msg)
        BY <2>3, <1>2 DEF handleMsg, IInv, Shapes, aux
    <2>4. CASE handleClose(id)
        BY <2>4, <1>2 DEF handleClose, IInv, Shapes
    <2> QED BY <1>4, <2>1, <2>2, <2>3, <2>4
<1>7. /\ IsHandle(handle'[id])
      /\ handle'[id].closes = (IF handle'[id].state = "closed" THEN 1 ELSE 0)
      /\ id \in registry' <=> handle'[id].state \in {"open", "closing"}
      /\ \/ handle'[id].state = handle[id].state
         \/ handle[id].state # "none"
         \/ inbound[i].type = "open"
      /\ handle[id].state = "none" => id \in used \/ handle'[id].state = "none"
    <2> HIDE DEF id
    <2>1. /\ handle[id].closes = (IF handle[id].state = "closed" THEN 1 ELSE 0)
          /\ id \in registry <=> handle[id].state \in {"open", "closing"}
        BY <1>2 DEF IInv, ClosedOnce
    <2>2. CASE Refuse(id)
        BY <2>1, <2>2, <1>2 DEF Refuse, comms
    <2>3. CASE inbound[i].type = "open" /\ Accept(id)
        <3>1. handle[id].state = "none" /\ id \in used
            BY <2>3 DEF IInv, OpensOnce, id
        <3>2. PICK got : handle' = [handle EXCEPT ![id] = [@ EXCEPT !.state = "open", !.got = got]]
            BY <2>3 DEF Accept
        <3>3. handle'[id] = [handle[id] EXCEPT !.state = "open", !.got = got]
            BY <1>2, <3>2 DEF IInv, Shapes
        <3>4. PICK g, c : /\ handle[id] = [state |-> "none", got |-> g, closes |-> c]
                          /\ c \in Nat
            BY <1>2, <3>1 DEF IsHandle
        <3>5. handle'[id] = [state |-> "open", got |-> got, closes |-> c] /\ c = 0
            <4>1. handle'[id] = [state |-> "open", got |-> got, closes |-> c]
                <5>1. handle'[id] = [[state |-> "none", got |-> g, closes |-> c]
                                       EXCEPT !.state = "open", !.got = got]
                    BY <3>3, <3>4
                <5> QED BY ONLY <5>1
            <4>2. handle[id].closes = c /\ handle[id].state = "none"
                BY <3>4
            <4> QED BY <4>1, <4>2, <2>1
        <3>6. IsHandle(handle'[id])
            BY <3>4, <3>5 DEF IsHandle
        <3>7. id \in registry'
            BY <2>3 DEF Accept
        <3> QED BY <2>3, <3>1, <3>5, <3>6, <3>7
    <2>4. ASSUME NEW msg, handleMsg(id, msg) PROVE <1>7!:
        <3>1. registry' = registry
            BY <2>4 DEF handleMsg
        <3>2. CASE handle' = handle
            BY <2>1, <3>1, <3>2, <1>2
        <3>3. CASE handle' = [handle EXCEPT ![id].got = Append(@, msg)]
            <4>1. handle'[id] = [handle[id] EXCEPT !.got = Append(@, msg)]
                BY <1>2, <3>3 DEF IInv, Shapes
            <4>2. PICK s, g, c : /\ handle[id] = [state |-> s, got |-> g, closes |-> c]
                                 /\ s \in {"none", "open", "closing", "closed"} /\ c \in Nat
                BY <1>2 DEF IsHandle
            <4>3. handle'[id] = [state |-> s, got |-> Append(g, msg), closes |-> c]
                <5>1. handle'[id] = [[state |-> s, got |-> g, closes |-> c]
                                       EXCEPT !.got = Append(@, msg)]
                    BY <4>1, <4>2
                <5> QED BY ONLY <5>1
            <4>4. /\ IsHandle(handle'[id]) /\ handle'[id].state = handle[id].state
                  /\ handle'[id].closes = handle[id].closes
                BY <4>2, <4>3 DEF IsHandle
            <4> QED BY <2>1, <3>1, <4>4
        <3> QED BY <2>4, <3>2, <3>3 DEF handleMsg
    <2>5. CASE handleClose(id) /\ id \in registry
        <3>1. handle'[id] = FireOnClose(handle[id]) /\ registry' = registry \ {id}
            BY <2>5, <1>2 DEF handleClose, IInv, Shapes
        <3>2. handle[id].state \in {"open", "closing"} /\ handle[id].closes = 0
            BY <2>1, <2>5
        <3>3. IsHandle(handle'[id]) /\ handle'[id].state = "closed" /\ handle'[id].closes = 1
            BY <1>2, <3>1, <3>2, Fires
        <3> QED BY <3>1, <3>2, <3>3
    <2>6. CASE handleClose(id) /\ id \notin registry
        BY <2>1, <2>6, <1>2 DEF handleClose
    <2> QED BY <1>4, <2>2, <2>3, <2>4, <2>5, <2>6
<1>8. Inbounds' /\ OpensOnce'
    <2>1. \A k \in Ids :
             \/ handle'[k].state = handle[k].state
             \/ handle[k].state # "none"
             \/ k = inbound[i].id /\ inbound[i].type = "open"
        BY <1>6, <1>7
    <2> HIDE DEF id
    <2> QED BY <1>1, <1>3, <2>1, Takes
<1> HIDE DEF id
<1>9. Shapes'
    BY <1>2, <1>3, <1>5, <1>6, <1>7, <1>8 DEF IInv, Shapes, Inbounds, Outbounds
<1>10. ClosedOnce'
    BY <1>2, <1>6, <1>7 DEF IInv, ClosedOnce
<1>11. Fresh'
    BY <1>2, <1>3, <1>6, <1>7 DEF IInv, Fresh
<1>12. Drained'
    <2>1. ASSUME Ended', NEW k \in registry' PROVE k \in late' \/ Refused(k)'
        <3>1. over /\ \A n \in registry : n \in late \/ Refused(n)
            BY <2>1, <1>3 DEF IInv, Drained, Ended
        <3>2. CASE k \in registry
            BY <3>1, <3>2, <1>3, <1>6 DEF Refused
        <3>3. CASE k \notin registry
            <4>1. k \in late'
                BY <3>1, <3>3, <2>1, <1>4 DEF Refuse, Accept, handleMsg, handleClose, comms, aux
            <4> QED BY <4>1
        <3> QED BY <3>2, <3>3
    <2> QED BY <1>3, <2>1 DEF IInv, Drained
<1> QED
    BY <1>8, <1>9, <1>10, <1>11, <1>12 DEF IInv

-----------------------------------------------------------------------------
(* Restarts and the end.                                                   *)

(* Handles that are closed leave the registry.                             *)
LEMMA FiredInv ==
    ASSUME IInv, NEW ids \in SUBSET Ids, handle' = Fired(ids),
           registry' \subseteq registry,
           \A id \in registry : id \in registry' <=> id \notin ids,
           ids \subseteq restart.before \/ ids \subseteq registry,
           used' = used, restart'.before \subseteq restart.before,
           inbound' = inbound \/ inbound' = <<>>
    PROVE  /\ handle' = [id \in Ids |-> handle'[id]] /\ \A id \in Ids : IsHandle(handle'[id])
           /\ ClosedOnce' /\ Fresh' /\ Inbounds' /\ OpensOnce'
<1>1. /\ handle' = [id \in Ids |-> handle'[id]]
      /\ \A id \in Ids :
            /\ IsHandle(handle'[id])
            /\ id \notin ids => handle'[id] = handle[id]
            /\ id \in ids => /\ handle'[id].state = "closed"
                             /\ handle'[id].closes = IF handle[id].state = "closed"
                                                     THEN handle[id].closes
                                                     ELSE handle[id].closes + 1
    BY FiredHandles DEF IInv
<1>2. ClosedOnce'
    <2>1. ASSUME NEW id \in Ids
          PROVE  /\ handle'[id].closes = (IF handle'[id].state = "closed" THEN 1 ELSE 0)
                 /\ id \in registry' <=> handle'[id].state \in {"open", "closing"}
        <3>1. /\ handle[id].closes = (IF handle[id].state = "closed" THEN 1 ELSE 0)
              /\ id \in registry <=> handle[id].state \in {"open", "closing"}
            BY DEF IInv, ClosedOnce
        <3> QED BY <3>1, <1>1
    <2> QED BY <2>1 DEF ClosedOnce
<1>3. Fresh'
    <2>1. ids \subseteq used
        BY DEF IInv, ClosedOnce, Fresh, Shapes
    <2> QED BY <1>1, <2>1 DEF IInv, Fresh
<1>4. Inbounds' /\ OpensOnce'
    <2>1. CASE inbound' = <<>>
        BY <2>1, NoInbound
    <2>2. CASE inbound' = inbound
        <3>1. \A i \in 1 .. Len(inbound) : inbound[i].type = "open" => inbound[i].id \notin ids
            BY DEF IInv, OpensOnce, ClosedOnce, Shapes
        <3> QED BY <2>2, <3>1, <1>1 DEF IInv, Shapes, OpensOnce, Inbounds
    <2> QED BY <2>1, <2>2
<1> QED
    BY <1>1, <1>2, <1>3, <1>4

(* A restart that keeps the handles.                                       *)
LEMMA RestartKeepsInv ==
    ASSUME IInv, \/ RestartBegins \/ RestartRefused \/ RestartTimesOut
                 \/ RestartReopens \/ RestartBreaks
    PROVE  IInv'
<1>1. /\ UNCHANGED <<used, registry, handle, tasks, over>> /\ tasks = <<>>
      /\ late' = late /\ kernel' \subseteq Ids
      /\ inbound' = inbound \/ inbound' = <<>>
      /\ outbound' = outbound \/ outbound' = <<>>
    BY DEF RestartBegins, RestartRefused, RestartTimesOut, RestartReopens, RestartBreaks,
           Discard, Idle, kernelSide, comms, aux, IInv, Shapes
<1>2. /\ restart' \in [pc : {"off", "asked", "info"}, before : SUBSET Ids, from : Froms]
      /\ restart'.before \subseteq registry \cup restart.before
      /\ conn' \in Conns
      /\ Ended' => Ended
      /\ restart'.pc # "off" => conn' = "cut" /\ ~over
    <2>1. CASE RestartBegins
        <3>1. /\ restart' = [pc |-> "asked", before |-> registry, from |-> conn]
              /\ conn' = "cut" /\ ~over
              /\ conn # "reconnecting"
            BY <2>1 DEF RestartBegins
        <3> QED BY <3>1, <1>1 DEF IInv, Shapes, Ended, Conns, Froms
    <2>2. CASE RestartRefused
        <3>1. /\ restart' = NoRestart /\ conn' = IF restart.from = "cut" THEN "up" ELSE restart.from
              /\ restart.pc = "asked"
            BY <2>2 DEF RestartRefused
        <3> QED BY <3>1, <1>1 DEF IInv, Shapes, Ended, NoRestart, Conns, Froms
    <2>3. CASE RestartTimesOut
        <3>1. /\ restart' = NoRestart /\ conn' = IF restart.from = "up" THEN "cut" ELSE restart.from
              /\ restart.pc = "asked"
            BY <2>3 DEF RestartTimesOut
        <3> QED BY <3>1, <1>1 DEF IInv, Shapes, Ended, NoRestart, Conns, Froms
    <2>4. CASE RestartReopens
        <3>1. /\ restart' = [restart EXCEPT !.pc = "info"] /\ restart.pc = "asked"
              /\ conn' = conn
            BY <2>4 DEF RestartReopens
        <3>2. restart'.before = restart.before /\ restart'.pc = "info"
              /\ restart' \in [pc : {"off", "asked", "info"}, before : SUBSET Ids, from : Froms]
            BY <3>1 DEF IInv, Shapes
        <3>3. conn = "cut" /\ ~over
            BY <3>1 DEF IInv, Drained
        <3> QED BY <3>1, <3>2, <3>3, <1>1 DEF Ended, Conns
    <2>5. CASE RestartBreaks
        <3>1. /\ restart' = NoRestart /\ conn' \in {"reconnecting", "lost"}
              /\ restart.pc = "info"
            BY <2>5 DEF RestartBreaks
        <3> QED BY <3>1, <1>1 DEF IInv, Drained, Ended, NoRestart, Conns, Froms
    <2> QED BY <2>1, <2>2, <2>3, <2>4, <2>5
<1>3. Outbounds'
    BY <1>1, Outgoing
<1>4. Inbounds' /\ OpensOnce'
    <2>1. CASE inbound' = <<>>
        BY <2>1, NoInbound
    <2>2. CASE inbound' = inbound
        <3>1. \A i \in 1 .. Len(inbound) :
                 inbound[i].type = "open" => inbound[i].id \notin registry
            BY DEF IInv, OpensOnce, ClosedOnce, Shapes
        <3> QED BY <2>2, <3>1, <1>1, <1>2 DEF IInv, Shapes, OpensOnce, Inbounds
    <2> QED BY <2>1, <2>2, <1>1
<1>5. Shapes'
    BY <1>1, <1>2, <1>3, <1>4 DEF IInv, Shapes, Inbounds, Outbounds
<1>6. ClosedOnce'
    BY <1>1 DEF IInv, ClosedOnce
<1>7. Fresh'
    <2>1. registry \subseteq used
        BY DEF IInv, ClosedOnce, Fresh, Shapes
    <2> QED BY <2>1, <1>1, <1>2 DEF IInv, Fresh
<1>8. Drained'
    BY <1>1, <1>2 DEF IInv, Drained, Refused
<1> QED
    BY <1>4, <1>5, <1>6, <1>7, <1>8 DEF IInv

(* A restart that ends handles, the end of the runtime, and the socket's.  *)
LEMMA EndInv ==
    ASSUME IInv, RestartSucceeds \/ RestartFails \/ End
    PROVE  IInv'
<1>1. /\ UNCHANGED <<used, tasks, late>> /\ kernel' \subseteq Ids
      /\ inbound' = inbound \/ inbound' = <<>>
      /\ outbound' = outbound \/ outbound' = <<>>
      /\ restart' = restart \/ restart' = NoRestart
      /\ conn' \in Conns /\ over' \in BOOLEAN
    BY DEF RestartSucceeds, RestartFails, End, Discard, kernelSide, wires, aux, IInv,
           Shapes, Conns
<1>2. PICK ids \in SUBSET Ids :
         /\ handle' = Fired(ids) /\ registry' \subseteq registry
         /\ \A id \in registry : id \in registry' <=> id \notin ids
         /\ ids \subseteq restart.before \/ ids \subseteq registry
         /\ ids = registry \/ (RestartSucceeds /\ ids = restart.before)
    <2>1. CASE RestartSucceeds
        <3>1. /\ handle' = Fired(restart.before)
              /\ registry' = registry \ {id \in restart.before : handle[id].state # "closed"}
            BY <2>1 DEF RestartSucceeds
        <3>2. \A id \in registry : handle[id].state # "closed"
            BY DEF IInv, ClosedOnce, Shapes
        <3>3. restart.before \in SUBSET Ids
            BY DEF IInv, Shapes
        <3> QED BY <2>1, <3>1, <3>2, <3>3
    <2>2. CASE RestartFails \/ End
        <3>1. handle' = Fired(registry) /\ registry' = {}
            BY <2>2 DEF RestartFails, End, CloseAll
        <3> QED BY <3>1 DEF IInv, Shapes
    <2> QED BY <2>1, <2>2
<1>3. /\ restart' \in [pc : {"off", "asked", "info"}, before : SUBSET Ids, from : Froms]
      /\ restart'.before \subseteq restart.before
    <2>1. /\ restart \in [pc : {"off", "asked", "info"}, before : SUBSET Ids, from : Froms]
          /\ NoRestart \in [pc : {"off", "asked", "info"}, before : SUBSET Ids, from : Froms]
          /\ NoRestart.before = {}
        BY DEF NoRestart, IInv, Shapes, Conns, Froms
    <2> QED BY <1>1, <2>1
<1>4. /\ handle' = [id \in Ids |-> handle'[id]] /\ \A id \in Ids : IsHandle(handle'[id])
      /\ ClosedOnce' /\ Fresh' /\ Inbounds' /\ OpensOnce'
    BY <1>1, <1>2, <1>3, FiredInv
<1>5. Outbounds'
    BY <1>1, Outgoing
<1>6. Shapes'
    BY <1>1, <1>2, <1>3, <1>4, <1>5 DEF IInv, Shapes, Inbounds, Outbounds
<1>7. Drained'
    <2>1. CASE RestartSucceeds
        <3>1. restart.pc = "info" /\ restart' = NoRestart /\ conn' = "up" /\ over' = over
            BY <2>1 DEF RestartSucceeds
        <3>2. ~over
            BY <3>1 DEF IInv, Drained
        <3> QED BY <3>1, <3>2 DEF Drained, Ended, NoRestart
    <2>2. CASE RestartFails \/ End
        <3>1. registry' = {} /\ (restart'.pc = "off" \/ restart'.pc = restart.pc)
            BY <2>2, <1>1 DEF RestartFails, End, CloseAll, NoRestart
        <3>2. restart'.pc = "off"
            <4>1. CASE RestartFails
                BY <4>1 DEF RestartFails, NoRestart
            <4>2. CASE End
                BY <4>2 DEF End
            <4> QED BY <2>2, <4>1, <4>2
        <3> QED BY <3>1, <3>2 DEF Drained
    <2> QED BY <2>1, <2>2
<1> QED
    BY <1>4, <1>6, <1>7 DEF IInv

LEMMA ShutdownInv ==
    ASSUME IInv, Shutdown
    PROVE  IInv'
<1>1. /\ UNCHANGED <<used, registry, handle, tasks, restart, over, late>>
      /\ kernel' = {} /\ inbound' = <<>> /\ outbound' = <<>> /\ conn' = "dead" /\ over
    BY DEF Shutdown, Discard, comms, flow
<1>2. Inbounds' /\ OpensOnce' /\ Outbounds'
    BY <1>1, NoInbound, Outgoing
<1>3. Shapes'
    BY <1>1, <1>2 DEF IInv, Shapes, Inbounds, Outbounds, Conns
<1>4. ClosedOnce' /\ Fresh' /\ Drained'
    BY <1>1 DEF IInv, ClosedOnce, Fresh, Drained, Ended, Refused
<1> QED
    BY <1>2, <1>3, <1>4 DEF IInv

LEMMA NextInv == IInv /\ [Next]_vars => IInv'
<1> SUFFICES ASSUME IInv, [Next]_vars PROVE IInv'
    OBVIOUS
<1>1. CASE \/ \E id \in KernelIds : KernelOpens(id)
           \/ \E id \in Ids : KernelSends(id) \/ KernelCloses(id)
           \/ KernelReads
    BY <1>1, KernelInv
<1>2. CASE \/ \E id \in Ids : Send(id) \/ GraceEnds(id)
           \/ Register \/ Disconnect \/ Reconnect \/ GivesUp
    BY <1>2, QuietInv
<1>3. CASE \E id \in FrontIds : OpenComm(id)
    BY <1>3, OpenCommInv
<1>4. CASE \E id \in Ids : Close(id)
    BY <1>4, CloseInv
<1>5. CASE OpenReturns \/ CloseReturns
    BY <1>5, ReturnInv
<1>6. CASE Inbound
    BY <1>6, InboundInv
<1>7. CASE \/ RestartBegins \/ RestartRefused \/ RestartTimesOut
           \/ RestartReopens \/ RestartBreaks
    BY <1>7, RestartKeepsInv
<1>8. CASE RestartSucceeds \/ RestartFails \/ End
    BY <1>8, EndInv
<1>9. CASE Shutdown
    BY <1>9, ShutdownInv
<1>10. CASE UNCHANGED vars
    <2>1. UNCHANGED <<kernel, used, inbound, outbound, conn, registry, handle, tasks,
                      restart, over, late>>
        BY <1>10 DEF vars, kernelSide, wires, comms, flow, aux
    <2> QED BY <2>1 DEF IInv, Shapes, ClosedOnce, Fresh, OpensOnce, Drained, Ended, Refused
<1> QED
    BY <1>1, <1>2, <1>3, <1>4, <1>5, <1>6, <1>7, <1>8, <1>9, <1>10 DEF Next

LEMMA SpecInv == Spec => []IInv
BY InitInv, NextInv, PTL DEF Spec

-----------------------------------------------------------------------------
(* A handle tells its subscribers of its end once, whichever of the kernel,*)
(* the frontend, a restart and closeAll ends it first, and is in the       *)
(* registry exactly until then (handle.ts, close and _fireOnClose).        *)
THEOREM HandlesCloseOnce == Spec => []ClosedOnce
<1>1. IInv => ClosedOnce
    BY DEF IInv
<1> QED
    BY <1>1, SpecInv, PTL

(* No handle outlives a socket that Europa closed for good, or closeAll,   *)
(* but those that were opened after it; where the reconnect loop gives up  *)
(* handles wait for a restart or the end (comm/service.ts, closeAll;       *)
(* exec/restart.ts, fallback).                                             *)
THEOREM NoHandleOutlives == Spec => []Terminated
<1>1. IInv => Terminated
    <2> SUFFICES ASSUME IInv, conn = "dead" \/ over, Idle
                 PROVE  /\ registry \subseteq late
                        /\ \A id \in Ids \ late : handle[id].state \in {"none", "closed"}
        BY DEF Terminated
    <2>1. \A id : ~Refused(id)
        BY DEF Idle, Refused
    <2>2. registry \subseteq late
        BY <2>1 DEF IInv, Drained, Ended
    <2>3. ASSUME NEW id \in Ids \ late
          PROVE  handle[id].state \in {"none", "closed"}
        <3>1. id \notin registry
            BY <2>2
        <3> QED BY <3>1 DEF IInv, ClosedOnce, Shapes, IsHandle
    <2> QED BY <2>2, <2>3
<1> QED
    BY <1>1, SpecInv, PTL

-----------------------------------------------------------------------------
(* The messages about a comm that are under way.                           *)

Has(s, type, id) == \E i \in 1 .. Len(s) : s[i].type = type /\ s[i].id = id

(* Nothing is said of a comm before its comm_open.                         *)
OpensFirst(s) ==
    \A i, j \in 1 .. Len(s) : s[i].id = s[j].id /\ s[j].type = "open" => j <= i

LEMMA HasNone ==
    /\ \A type, id : ~Has(<<>>, type, id)
    /\ OpensFirst(<<>>)
BY DEF Has, OpensFirst

LEMMA HasAppended ==
    ASSUME NEW s, IsSeq(s), NEW m
    PROVE  /\ \A type, id : Has(Append(s, m), type, id) <=>
                               Has(s, type, id) \/ (m.type = type /\ m.id = id)
           /\ OpensFirst(s) /\ (m.type = "open" => \A type : ~Has(s, type, m.id))
                 => OpensFirst(Append(s, m))
<1>1. PICK q : q = Append(s, m)
    OBVIOUS
<1>2. /\ Len(s) \in Nat /\ Len(q) = Len(s) + 1 /\ q[Len(s) + 1] = m
      /\ \A i \in 1 .. Len(s) : q[i] = s[i]
    BY <1>1, Appended
<1>3. \A i \in 1 .. Len(q) : i \in 1 .. Len(s) \/ i = Len(s) + 1
    BY <1>2
<1>4. \A i \in 1 .. Len(s) : i \in 1 .. Len(q)
    BY <1>2
<1>5. Len(s) + 1 \in 1 .. Len(q)
    BY <1>2
<1>6. ASSUME NEW type, NEW id
      PROVE  Has(q, type, id) <=> Has(s, type, id) \/ (m.type = type /\ m.id = id)
    BY <1>2, <1>3, <1>4, <1>5 DEF Has
<1>7. ASSUME OpensFirst(s), m.type = "open" => \A type : ~Has(s, type, m.id)
      PROVE  OpensFirst(q)
    <2> SUFFICES ASSUME NEW i \in 1 .. Len(q), NEW j \in 1 .. Len(q),
                        q[i].id = q[j].id, q[j].type = "open"
                 PROVE  j <= i
        BY DEF OpensFirst
    <2>1. CASE i \in 1 .. Len(s) /\ j \in 1 .. Len(s)
        BY <1>2, <1>7, <2>1 DEF OpensFirst
    <2>2. CASE i = Len(s) + 1
        BY <1>2, <2>2
    <2>3. CASE i \in 1 .. Len(s) /\ j = Len(s) + 1
        <3>1. Has(s, s[i].type, m.id) /\ m.type = "open"
            BY <1>2, <2>3 DEF Has
        <3> QED BY <1>7, <3>1
    <2> QED BY <1>3, <2>1, <2>2, <2>3
<1> QED
    BY <1>1, <1>6, <1>7

LEMMA HasRemoved ==
    ASSUME NEW s, IsSeq(s), NEW i \in 1 .. Len(s)
    PROVE  \A type, id :
              /\ Has(RemoveAt(s, i), type, id) => Has(s, type, id)
              /\ Has(s, type, id) =>
                    Has(RemoveAt(s, i), type, id) \/ (s[i].type = type /\ s[i].id = id)
<1>1. PICK q : q = RemoveAt(s, i)
    OBVIOUS
<1>2. /\ Len(s) \in Nat /\ Len(q) = Len(s) - 1
      /\ \A k \in 1 .. Len(s) - 1 : q[k] = IF k < i THEN s[k] ELSE s[k + 1]
    BY <1>1, Removed
<1>3. \A k \in 1 .. Len(q) : \E n \in 1 .. Len(s) : q[k] = s[n]
    BY <1>2
<1>4. ASSUME NEW k \in 1 .. Len(s), k # i PROVE \E n \in 1 .. Len(q) : q[n] = s[k]
    <2>1. CASE k < i
        BY <1>2, <2>1
    <2>2. CASE k > i
        <3>1. k - 1 \in 1 .. Len(q) /\ ~(k - 1 < i) /\ k - 1 + 1 = k
            BY <1>2, <2>2
        <3> QED BY <1>2, <3>1
    <2> QED BY <1>2, <1>4, <2>1, <2>2
<1>5. ASSUME NEW type, NEW id, Has(q, type, id) PROVE Has(s, type, id)
    BY ONLY <1>3, <1>5 DEF Has
<1>6. ASSUME NEW type, NEW id, Has(s, type, id)
      PROVE  Has(q, type, id) \/ (s[i].type = type /\ s[i].id = id)
    <2>1. PICK k \in 1 .. Len(s) : s[k].type = type /\ s[k].id = id
        BY ONLY <1>6 DEF Has
    <2>2. CASE k = i
        BY ONLY <2>1, <2>2
    <2>3. CASE k # i
        BY ONLY <1>4, <2>1, <2>3 DEF Has
    <2> QED BY ONLY <2>2, <2>3
<1> QED
    BY ONLY <1>1, <1>5, <1>6

LEMMA HasTail ==
    ASSUME NEW s, IsSeq(s), s # <<>>
    PROVE  /\ Has(s, Head(s).type, Head(s).id)
           /\ \A type, id :
                /\ Has(Tail(s), type, id) => Has(s, type, id)
                /\ Has(s, type, id) =>
                      Has(Tail(s), type, id) \/ (Head(s).type = type /\ Head(s).id = id)
           /\ OpensFirst(s) => /\ OpensFirst(Tail(s)) /\ ~Has(Tail(s), "open", Head(s).id)
                               /\ Head(s).type # "open" => ~Has(s, "open", Head(s).id)
<1>1. PICK q, h : q = Tail(s) /\ h = Head(s)
    OBVIOUS
<1>2. PICK S : s \in Seq(S)
    BY DEF IsSeq
<1>3. /\ h = s[1] /\ Len(s) \in Nat /\ 1 \in 1 .. Len(s) /\ Len(q) = Len(s) - 1
      /\ \A k \in 1 .. Len(q) : q[k] = s[k + 1]
    BY <1>1, <1>2
<1>4. \A k \in 1 .. Len(q) : k + 1 \in 1 .. Len(s)
    BY <1>3
<1>5. ASSUME NEW k \in 1 .. Len(s), k # 1 PROVE k - 1 \in 1 .. Len(q) /\ s[k] = q[k - 1]
    BY <1>3, <1>5
<1>6. Has(s, h.type, h.id)
    BY <1>3 DEF Has
<1>7. ASSUME NEW type, NEW id
      PROVE  /\ Has(q, type, id) => Has(s, type, id)
             /\ Has(s, type, id) => Has(q, type, id) \/ (h.type = type /\ h.id = id)
    <2>1. Has(q, type, id) => Has(s, type, id)
        BY <1>3, <1>4 DEF Has
    <2>2. ASSUME NEW k \in 1 .. Len(s), s[k].type = type, s[k].id = id
          PROVE  Has(q, type, id) \/ (h.type = type /\ h.id = id)
        <3>1. CASE k = 1
            BY <1>3, <2>2, <3>1
        <3>2. CASE k # 1
            BY <1>5, <2>2, <3>2 DEF Has
        <3> QED BY <3>1, <3>2
    <2> QED BY <2>1, <2>2 DEF Has
<1>8. ASSUME OpensFirst(s)
      PROVE  /\ OpensFirst(q) /\ ~Has(q, "open", h.id)
             /\ h.type # "open" => ~Has(s, "open", h.id)
    <2>1. OpensFirst(q)
        <3> SUFFICES ASSUME NEW i \in 1 .. Len(q), NEW j \in 1 .. Len(q),
                            q[i].id = q[j].id, q[j].type = "open"
                     PROVE  j <= i
            BY DEF OpensFirst
        <3>1. j + 1 <= i + 1
            BY <1>3, <1>4, <1>8 DEF OpensFirst
        <3> QED BY <3>1
    <2>2. ASSUME NEW k \in 1 .. Len(s), s[k].type = "open", s[k].id = h.id
          PROVE  k = 1
        BY <1>3, <1>8, <2>2 DEF OpensFirst
    <2>3. ~Has(q, "open", h.id)
        BY <1>3, <1>4, <2>2 DEF Has
    <2>4. h.type # "open" => ~Has(s, "open", h.id)
        BY <1>3, <2>2 DEF Has
    <2> QED BY <2>1, <2>3, <2>4
<1> QED
    BY <1>1, <1>6, <1>7, <1>8

In(type, id) == Has(inbound, type, id)
Out(type, id) == Has(outbound, type, id)

(* A close that was sent: close is about to end the handle.                *)
Closing(id) ==
    \E i \in 1 .. Len(tasks) :
        tasks[i].call = "close" /\ tasks[i].ok /\ tasks[i].id = id

(* What is left of openComm or of close.                                   *)
Tasked ==
    \/ tasks = <<>>
    \/ \E call \in {"open", "close"}, id \in used, ok \in BOOLEAN :
          tasks = <<[call |-> call, id |-> id, ok |-> ok]>>

(* Only comms that have been opened are spoken of.                         *)
Spoken ==
    /\ Tasked
    /\ kernel \subseteq used /\ registry \subseteq used
    /\ \A type, id : In(type, id) \/ Out(type, id) => id \in used
    /\ \A id : Refused(id) \/ Closing(id) => id \in used
    /\ OpensFirst(outbound)

LEMMA Saying ==
    ASSUME IInv, NEW type, NEW id, NEW n, NEW buffers,
           KernelSays(Msg(type, id, n, buffers)), Heard
    PROVE  /\ \A t, i : In(t, i)' <=> In(t, i) \/ (type = t /\ id = i)
           /\ astray' = astray
<1>1. PICK m : m = Msg(type, id, n, buffers)
    OBVIOUS
<1>2. m.type = type /\ m.id = id
    BY <1>1, MsgIs
<1>3. inbound' = Append(inbound, m) /\ IsSeq(inbound) /\ astray' = astray
    BY <1>1 DEF KernelSays, IInv, Shapes
<1>4. \A t, i : Has(Append(inbound, m), t, i) <=>
                   Has(inbound, t, i) \/ (m.type = t /\ m.id = i)
    BY <1>3, HasAppended
<1> QED
    BY <1>2, <1>3, <1>4 DEF In

(* What is said without a socket is lost.                                  *)
LEMMA Unheard ==
    ASSUME NEW type, NEW id, NEW n, NEW buffers,
           KernelSays(Msg(type, id, n, buffers)), ~Heard
    PROVE  /\ \A t, i : In(t, i)' <=> In(t, i)
           /\ astray' = IF type = "msg" THEN astray ELSE astray \cup {id}
<1>1. PICK m : m = Msg(type, id, n, buffers)
    OBVIOUS
<1>2. m.type = type /\ m.id = id
    BY <1>1, MsgIs
<1>3. inbound' = inbound /\ astray' = IF m.type = "msg" THEN astray ELSE astray \cup {m.id}
    BY <1>1 DEF KernelSays
<1> QED
    BY <1>2, <1>3 DEF In

LEMMA Sending ==
    ASSUME IInv, NEW type, NEW id, NEW n, NEW buffers,
           outbound' = Append(outbound, Msg(type, id, n, buffers))
    PROVE  /\ \A t, i : Out(t, i)' <=> Out(t, i) \/ (type = t /\ id = i)
           /\ OpensFirst(outbound) /\ (type = "open" => \A t : ~Out(t, id))
                 => OpensFirst(outbound)'
<1>1. PICK m : m = Msg(type, id, n, buffers)
    OBVIOUS
<1>2. m.type = type /\ m.id = id
    BY <1>1, MsgIs
<1>3. outbound' = Append(outbound, m) /\ IsSeq(outbound)
    BY <1>1 DEF IInv, Shapes
<1>4. /\ \A t, i : Has(Append(outbound, m), t, i) <=>
                      Has(outbound, t, i) \/ (m.type = t /\ m.id = i)
      /\ OpensFirst(outbound) /\ (m.type = "open" => \A t : ~Has(outbound, t, m.id))
                 => OpensFirst(Append(outbound, m))
    BY <1>3, HasAppended
<1> QED
    BY <1>2, <1>3, <1>4 DEF Out

LEMMA NoTask == tasks = <<>> => \A id : ~Refused(id) /\ ~Closing(id)
BY DEF Refused, Closing

LEMMA OneTask ==
    ASSUME NEW call, NEW id, NEW ok, tasks = <<[call |-> call, id |-> id, ok |-> ok]>>
    PROVE  /\ \A i : Refused(i) <=> call = "open" /\ ~ok /\ i = id
           /\ \A i : Closing(i) <=> call = "close" /\ ok /\ i = id
<1>1. PICK t : t = [call |-> call, id |-> id, ok |-> ok]
    OBVIOUS
<1>2. Len(tasks) = 1 /\ tasks[1] = t /\ 1 .. 1 = {1}
    BY <1>1
<1>3. t.call = call /\ t.id = id
    BY <1>1
<1>4. t.ok <=> ok
    BY <1>1
<1>5. ASSUME NEW i PROVE Refused(i) <=> call = "open" /\ ~ok /\ i = id
    BY <1>2, <1>3, <1>4 DEF Refused
<1>6. ASSUME NEW i PROVE Closing(i) <=> call = "close" /\ ok /\ i = id
    BY <1>2, <1>3, <1>4 DEF Closing
<1> QED
    BY <1>5, <1>6

-----------------------------------------------------------------------------
(* Where a comm stands that no window has let by.                          *)

(* If the kernel has it, or is about to have it, it will be told to close. *)
Gone(id) == id \in kernel \/ Out("open", id) => Out("close", id)

(* It is in the registry and the kernel does not have it: the kernel is yet*)
(* to hear of it, the frontend is yet to hear of its end, or a restart is  *)
(* about to close it.                                                      *)
Leaving(id) ==
    \/ In("close", id) \/ Out("open", id)
    \/ Refused(id) \/ Closing(id)
    \/ restart.pc = "info" /\ id \in restart.before

Sync(id) ==
    /\ id \in registry /\ id \notin kernel => Leaving(id)
    /\ id \notin registry /\ ~In("open", id) => Gone(id)
    /\ Closing(id) => Gone(id)
    /\ Refused(id) => id \notin kernel /\ ~Out("open", id)
    /\ Out("open", id) => id \notin kernel /\ ~In("close", id) /\ ~In("open", id)
    /\ Out("close", id) => /\ id \notin registry \/ Closing(id)
                           /\ ~In("open", id)
    /\ In("open", id) => id \in kernel \/ In("close", id)
    /\ In("close", id) => id \notin kernel
    /\ restart.pc = "asked" /\ id \in registry =>
          id \in restart.before \/ Refused(id)
    /\ restart.pc = "info" /\ id \in restart.before =>
          id \notin kernel /\ ~Out("open", id)

Closings ==
    \A i \in 1 .. Len(tasks) :
        tasks[i].call = "close" => handle[tasks[i].id].state = "closing"

Synced == ~over => Closings /\ \A id \in Ids \ astray : Sync(id)

SInv == IInv /\ Spoken /\ Synced

(* The kernel opens, speaks and closes.                                    *)
LEMMA KernelSync ==
    ASSUME SInv,
           \/ \E id \in KernelIds : KernelOpens(id)
           \/ \E id \in Ids : KernelSends(id) \/ KernelCloses(id)
    PROVE  Spoken' /\ Synced'
<1> USE DEF SInv
<1>1. /\ outbound' = outbound /\ registry' = registry /\ handle' = handle
      /\ tasks' = tasks /\ restart' = restart /\ over' = over
    BY DEF KernelOpens, KernelSends, KernelCloses, comms, flow
<1>2. \A t, i : /\ Out(t, i)' <=> Out(t, i)
                /\ Refused(i)' <=> Refused(i)
                /\ Closing(i)' <=> Closing(i)
    BY <1>1 DEF Out, Refused, Closing
<1>3. Closings' <=> Closings
    BY <1>1 DEF Closings
<1> Tasked'
    <2>1. used \subseteq used'
        BY DEF KernelOpens, KernelSends, KernelCloses
    <2> QED BY <1>1, <2>1 DEF Spoken, Tasked
<1>0. CASE ~Heard
    <2>1. /\ \A t, i : In(t, i)' <=> In(t, i)
          /\ used \subseteq used' /\ kernel' \subseteq used' /\ astray \subseteq astray'
          /\ \A i \in Ids \ astray' : i \in kernel' <=> i \in kernel
        <3>1. ASSUME NEW id \in KernelIds, KernelOpens(id) PROVE <2>1!:
            <4>1. KernelSays(Msg("open", id, 0, <<>>)) /\ used' = used \cup {id}
                  /\ kernel' = kernel \cup {id}
                BY <3>1 DEF KernelOpens
            <4>2. (\A t, i : In(t, i)' <=> In(t, i)) /\ astray' = astray \cup {id}
                BY <1>0, <4>1, Unheard
            <4> QED BY <4>1, <4>2 DEF Spoken
        <3>2. ASSUME NEW id \in Ids, KernelSends(id) PROVE <2>1!:
            <4>1. /\ KernelSays(Msg("msg", id, said[id] + 1, <<<<said[id] + 1>>, <<>>>>))
                  /\ UNCHANGED <<used, kernel>>
                BY <3>2 DEF KernelSends, Nth
            <4>2. (\A t, i : In(t, i)' <=> In(t, i)) /\ astray' = astray
                BY <1>0, <4>1, Unheard
            <4> QED BY <4>1, <4>2 DEF Spoken
        <3>3. ASSUME NEW id \in Ids, KernelCloses(id) PROVE <2>1!:
            <4>1. /\ KernelSays(Msg("close", id, 0, <<>>)) /\ used' = used
                  /\ kernel' = kernel \ {id}
                BY <3>3 DEF KernelCloses
            <4>2. (\A t, i : In(t, i)' <=> In(t, i)) /\ astray' = astray \cup {id}
                BY <1>0, <4>1, Unheard
            <4> QED BY <4>1, <4>2 DEF Spoken
        <3> QED BY <3>1, <3>2, <3>3
    <2>2. Spoken'
        BY <1>1, <1>2, <2>1 DEF Spoken
    <2>3. ASSUME ~over, NEW i \in Ids \ astray' PROVE Sync(i)'
        <3>1. Sync(i) /\ (i \in kernel' <=> i \in kernel)
            BY <2>1, <2>3 DEF Synced
        <3> QED BY <1>1, <1>2, <2>1, <3>1 DEF Sync, Gone, Leaving
    <2> QED BY <1>1, <1>3, <2>2, <2>3 DEF Synced
<1> SUFFICES ASSUME Heard PROVE Spoken' /\ Synced'
    BY <1>0
<1>4. ASSUME NEW id \in KernelIds, KernelOpens(id) PROVE Spoken' /\ Synced'
    <2>1. /\ id \in Ids /\ id \notin used /\ used' = used \cup {id} /\ kernel' = kernel \cup {id}
          /\ \A t, i : In(t, i)' <=> In(t, i) \/ ("open" = t /\ id = i)
          /\ astray' = astray
        BY <1>4, Saying DEF KernelOpens, Ids
    <2>2. /\ id \notin registry /\ id \notin kernel /\ id \notin restart.before
          /\ ~Refused(id) /\ ~Closing(id) /\ \A t : ~In(t, id) /\ ~Out(t, id)
        BY <2>1 DEF Spoken, IInv, Fresh
    <2>3. Spoken'
        BY <1>1, <1>2, <2>1 DEF Spoken
    <2>4. ASSUME ~over, NEW i \in Ids \ astray PROVE Sync(i)'
        <3>1. Sync(i)
            BY <2>4 DEF Synced
        <3>2. CASE i = id
            <4>1. id \notin registry' /\ id \in kernel' /\ id \notin restart'.before
                BY <1>1, <2>1, <2>2
            <4>2. In("open", id)' /\ ~In("close", id)'
                BY <2>1, <2>2
            <4>3. /\ ~Out("open", id)' /\ ~Out("close", id)'
                  /\ ~Refused(id)' /\ ~Closing(id)'
                BY <1>2, <2>2
            <4>4. Sync(id)'
                BY <4>1, <4>2, <4>3 DEF Sync, Gone, Leaving
            <4> QED BY <3>2, <4>4
        <3>3. CASE i # id
            BY <1>1, <1>2, <2>1, <3>1, <3>3 DEF Sync, Gone, Leaving
        <3> QED BY <3>2, <3>3
    <2> QED BY <1>1, <1>3, <2>1, <2>3, <2>4 DEF Synced
<1>5. ASSUME NEW id \in Ids, KernelSends(id) PROVE Spoken' /\ Synced'
    <2>1. /\ id \in kernel /\ UNCHANGED <<used, kernel>>
          /\ \A t, i : In(t, i)' <=> In(t, i) \/ ("msg" = t /\ id = i)
          /\ astray' = astray
        BY <1>5, Saying DEF KernelSends, Nth
    <2>2. Spoken'
        BY <1>1, <1>2, <2>1 DEF Spoken
    <2>3. \A i : (In("open", i)' <=> In("open", i)) /\ (In("close", i)' <=> In("close", i))
        BY <2>1
    <2>4. \A i \in Ids : Sync(i) => Sync(i)'
        BY <1>1, <1>2, <2>1, <2>3 DEF Sync, Gone, Leaving
    <2> QED BY <1>1, <1>3, <2>1, <2>2, <2>4 DEF Synced
<1>6. ASSUME NEW id \in Ids, KernelCloses(id) PROVE Spoken' /\ Synced'
    <2>1. /\ id \in kernel /\ UNCHANGED used /\ kernel' = kernel \ {id}
          /\ \A t, i : In(t, i)' <=> In(t, i) \/ ("close" = t /\ id = i)
          /\ astray' = astray
        BY <1>6, Saying DEF KernelCloses
    <2>2. Spoken'
        BY <1>1, <1>2, <2>1 DEF Spoken
    <2>3. ASSUME ~over, NEW i \in Ids \ astray PROVE Sync(i)'
        <3>1. Sync(i)
            BY <2>3 DEF Synced
        <3>2. CASE i = id
            <4> Sync(id) /\ id \in kernel
                BY <2>1, <3>1, <3>2
            <4>1. id \notin kernel' /\ In("close", id)' /\ (In("open", id)' <=> In("open", id))
                BY <2>1
            <4>2. ~Refused(id) /\ ~Out("open", id)
                BY DEF Sync
            <4>3. ~Refused(id)' /\ ~Out("open", id)'
                BY <1>2, <4>2
            <4>4. Gone(id) => Gone(id)'
                BY <1>2, <4>1, <4>3 DEF Gone
            <4>5. Out("close", id)' => /\ id \notin registry' \/ Closing(id)'
                                       /\ ~In("open", id)'
                BY <1>1, <1>2, <4>1 DEF Sync
            <4>6. restart'.pc = "asked" /\ id \in registry' => id \in restart'.before
                BY <1>1, <4>2 DEF Sync
            <4>7. Sync(id)'
                BY <1>1, <1>2, <4>1, <4>3, <4>4, <4>5, <4>6 DEF Sync, Leaving
            <4> QED BY <3>2, <4>7
        <3>3. CASE i # id
            BY <1>1, <1>2, <2>1, <3>1, <3>3 DEF Sync, Gone, Leaving
        <3> QED BY <3>2, <3>3
    <2> QED BY <1>1, <1>3, <2>1, <2>2, <2>3 DEF Synced
<1> QED
    BY <1>4, <1>5, <1>6

(* A comm whose messages, tasks, registration and restart stay the same.   *)
LEMMA SyncFrame ==
    ASSUME NEW i, Sync(i),
           i \in registry' <=> i \in registry, i \in kernel' <=> i \in kernel,
           In("open", i)' <=> In("open", i), In("close", i)' <=> In("close", i),
           Out("open", i)' <=> Out("open", i), Out("close", i)' <=> Out("close", i),
           Refused(i)' <=> Refused(i),
           Closing(i)' <=> Closing(i),
           restart' = restart
    PROVE  Sync(i)'
BY DEF Sync, Gone, Leaving

(* The kernel reads a comm_open, which it takes or declines, or a close.   *)
LEMMA ReadSync ==
    ASSUME SInv, KernelReads
    PROVE  Spoken' /\ Synced'
<1> USE DEF SInv
<1>1. /\ used' = used /\ registry' = registry /\ handle' = handle
      /\ tasks' = tasks /\ restart' = restart /\ over' = over
    BY DEF KernelReads, comms, flow
<1>2. \A i : (Refused(i)' <=> Refused(i)) /\ (Closing(i)' <=> Closing(i))
    BY <1>1 DEF Refused, Closing
<1>3. Closings' <=> Closings
    BY <1>1 DEF Closings
<1>4. Tasked'
    BY <1>1 DEF Spoken, Tasked
<1>5. PICK m : m = Head(outbound)
    OBVIOUS
<1>6. outbound # <<>> /\ outbound' = Tail(outbound) /\ IsSeq(outbound)
    BY DEF KernelReads, IInv, Shapes
<1>7. /\ Out(m.type, m.id)
      /\ \A t, i : /\ Out(t, i)' => Out(t, i)
                   /\ Out(t, i) => Out(t, i)' \/ (m.type = t /\ m.id = i)
      /\ OpensFirst(outbound)' /\ ~Out("open", m.id)'
      /\ m.type # "open" => ~Out("open", m.id)
    <2>1. OpensFirst(outbound)
        BY DEF Spoken
    <2> QED BY <1>5, <1>6, <2>1, HasTail DEF Out
<1>8. m.id \in used
    BY <1>7 DEF Spoken
<1>9. CASE m.type = "open" /\ kernel' = kernel \cup {m.id}
               /\ UNCHANGED <<inbound, astray>>
    <2>1. \A t, i : In(t, i)' <=> In(t, i)
        BY <1>9 DEF In
    <2>2. Spoken'
        BY <1>1, <1>2, <1>4, <1>7, <1>8, <1>9, <2>1 DEF Spoken
    <2>3. ASSUME ~over, NEW i \in Ids \ astray PROVE Sync(i)'
        <3>1. Sync(i)
            BY <2>3 DEF Synced
        <3>2. CASE i = m.id
            <4>1. Out("open", i) /\ ~Out("open", i)' /\ (Out("close", i)' <=> Out("close", i))
                BY <1>7, <1>9, <3>2
            <4>2. i \in kernel' /\ i \notin kernel /\ ~In("close", i) /\ ~In("open", i)
                BY <1>9, <3>1, <3>2, <4>1 DEF Sync
            <4> QED BY <1>1, <1>2, <2>1, <3>1, <4>1, <4>2 DEF Sync, Gone
        <3>3. CASE i # m.id
            <4>1. i \in kernel' <=> i \in kernel
                BY <1>9, <3>3
            <4>2. \A t : Out(t, i)' <=> Out(t, i)
                BY <1>7, <3>3
            <4> QED BY <1>1, <1>2, <2>1, <3>1, <4>1, <4>2, SyncFrame
        <3> QED BY <3>2, <3>3
    <2> QED BY <1>1, <1>3, <1>9, <2>1, <2>2, <2>3 DEF Synced
<1>10. CASE m.type = "open" /\ UNCHANGED kernel /\ KernelSays(Msg("close", m.id, 0, <<>>))
               /\ Heard
    <2>1. /\ \A t, i : In(t, i)' <=> In(t, i) \/ ("close" = t /\ m.id = i)
          /\ astray' = astray
        BY <1>10, Saying
    <2>2. Spoken'
        BY <1>1, <1>2, <1>4, <1>7, <1>8, <1>10, <2>1 DEF Spoken
    <2>3. ASSUME ~over, NEW i \in Ids \ astray PROVE Sync(i)'
        <3>1. Sync(i)
            BY <2>3 DEF Synced
        <3>2. CASE i = m.id
            <4>1. Out("open", i) /\ ~Out("open", i)' /\ (Out("close", i)' <=> Out("close", i))
                BY <1>7, <1>10, <3>2
            <4>2. i \notin kernel' /\ i \notin kernel /\ ~In("open", i)
                BY <1>10, <3>1, <3>2, <4>1 DEF Sync
            <4>3. In("close", i)' /\ ~In("open", i)'
                BY <2>1, <3>2, <4>2
            <4> QED BY <1>1, <1>2, <3>1, <4>1, <4>2, <4>3 DEF Sync, Gone, Leaving
        <3>3. CASE i # m.id
            <4>1. \A t : (Out(t, i)' <=> Out(t, i)) /\ (In(t, i)' <=> In(t, i))
                BY <1>7, <2>1, <3>3
            <4>2. i \in kernel' <=> i \in kernel
                BY <1>10
            <4> QED BY <1>1, <1>2, <3>1, <4>1, <4>2, SyncFrame
        <3> QED BY <3>2, <3>3
    <2> QED BY <1>1, <1>3, <1>10, <2>1, <2>2, <2>3 DEF Synced
<1>11. CASE m.type = "close" /\ kernel' = kernel \ {m.id}
               /\ UNCHANGED <<inbound, astray>>
    <2>1. \A t, i : In(t, i)' <=> In(t, i)
        BY <1>11 DEF In
    <2>2. Spoken'
        BY <1>1, <1>2, <1>4, <1>7, <1>8, <1>11, <2>1 DEF Spoken
    <2>3. ASSUME ~over, NEW i \in Ids \ astray PROVE Sync(i)'
        <3>1. Sync(i)
            BY <2>3 DEF Synced
        <3>2. CASE i = m.id
            <4>1. Out("close", i) /\ ~Out("open", i) /\ ~Out("open", i)'
                  /\ (Out("close", i)' => Out("close", i))
                BY <1>7, <1>11, <3>2
            <4>2. /\ i \notin kernel' /\ ~In("open", i)
                  /\ i \notin registry \/ Closing(i)
                BY <1>11, <3>1, <3>2, <4>1 DEF Sync
            <4> QED BY <1>1, <1>2, <2>1, <3>1, <4>1, <4>2 DEF Sync, Gone, Leaving
        <3>3. CASE i # m.id
            <4>1. i \in kernel' <=> i \in kernel
                BY <1>11, <3>3
            <4>2. \A t : Out(t, i)' <=> Out(t, i)
                BY <1>7, <3>3
            <4> QED BY <1>1, <1>2, <2>1, <3>1, <4>1, <4>2, SyncFrame
        <3> QED BY <3>2, <3>3
    <2> QED BY <1>1, <1>3, <1>11, <2>1, <2>2, <2>3 DEF Synced
<1>12. CASE m.type = "msg" /\ UNCHANGED <<kernel, inbound, astray>>
    <2>1. \A t, i : In(t, i)' <=> In(t, i)
        BY <1>12 DEF In
    <2>2. Spoken'
        BY <1>1, <1>2, <1>4, <1>7, <1>8, <1>12, <2>1 DEF Spoken
    <2>3. ASSUME ~over, NEW i \in Ids \ astray PROVE Sync(i)'
        <3>1. Sync(i)
            BY <2>3 DEF Synced
        <3>2. (Out("open", i)' <=> Out("open", i)) /\ (Out("close", i)' <=> Out("close", i))
            BY <1>7, <1>12
        <3>3. i \in kernel' <=> i \in kernel
            BY <1>12
        <3> QED BY <1>1, <1>2, <2>1, <3>1, <3>2, <3>3, SyncFrame
    <2> QED BY <1>1, <1>3, <1>12, <2>1, <2>2, <2>3 DEF Synced
<1>13. CASE m.type = "open" /\ UNCHANGED kernel /\ KernelSays(Msg("close", m.id, 0, <<>>))
               /\ ~Heard
    <2>1. /\ \A t, i : In(t, i)' <=> In(t, i)
          /\ astray' = astray \cup {m.id}
        BY <1>13, Unheard
    <2>2. Spoken'
        BY <1>1, <1>2, <1>4, <1>7, <1>8, <1>13, <2>1 DEF Spoken
    <2>3. ASSUME ~over, NEW i \in Ids \ astray' PROVE Sync(i)'
        <3>1. Sync(i) /\ i # m.id
            BY <2>1, <2>3 DEF Synced
        <3>2. i \in kernel' <=> i \in kernel
            BY <1>13
        <3>3. \A t : Out(t, i)' <=> Out(t, i)
            BY <1>7, <3>1
        <3> QED BY <1>1, <1>2, <2>1, <3>1, <3>2, <3>3, SyncFrame
    <2> QED BY <1>1, <1>3, <2>2, <2>3 DEF Synced
<1> QED
    BY <1>5, <1>9, <1>10, <1>11, <1>12, <1>13 DEF KernelReads

(* openComm and close, and what is left of them.                           *)
LEMMA OpenCommSync ==
    ASSUME SInv, NEW id \in FrontIds, OpenComm(id)
    PROVE  Spoken' /\ Synced'
<1> USE DEF SInv
<1>1. PICK ok : ok = Sendable(<<>>)
    OBVIOUS
<1>2. ok \in BOOLEAN /\ (ok => conn = "up")
    BY <1>1 DEF Sendable
<1>3. PICK t : t = [call |-> "open", id |-> id, ok |-> ok]
    OBVIOUS
<1>4. /\ tasks = <<>> /\ tasks' = <<t>> /\ id \in Ids /\ id \notin used
      /\ used' = used \cup {id} /\ registry' = registry \cup {id}
      /\ kernel' = kernel /\ inbound' = inbound /\ restart' = restart /\ over' = over
      /\ outbound' = IF ok THEN Append(outbound, Msg("open", id, 0, <<>>)) ELSE outbound
      /\ ~over => astray' = astray
    BY <1>1, <1>3 DEF OpenComm, Idle, Ids
<1>5. \A i : /\ ~Refused(i) /\ ~Closing(i) /\ ~Closing(i)'
             /\ Refused(i)' <=> ~ok /\ i = id
    <2>1. \A i : ~Refused(i) /\ ~Closing(i)
        BY <1>4, NoTask
    <2>2. Len(tasks') = 1 /\ tasks'[1] = t /\ 1 .. 1 = {1}
        BY <1>4
    <2>3. t.call = "open" /\ t.id = id /\ (t.ok <=> ok)
        BY <1>3
    <2>4. \A i : Refused(i)' <=> t.call = "open" /\ ~t.ok /\ t.id = i
        BY <2>2 DEF Refused
    <2>5. \A i : Closing(i)' <=> t.call = "close" /\ t.ok /\ t.id = i
        BY <2>2 DEF Closing
    <2>6. \A i : ~Closing(i)'
        BY <2>3, <2>5
    <2>7. \A i : Refused(i)' <=> ~ok /\ i = id
        BY <2>3, <2>4
    <2> QED BY <2>1, <2>6, <2>7
<1>6. \A t1, i : In(t1, i)' <=> In(t1, i)
    BY <1>4 DEF In
<1>7. \A t1 : ~In(t1, id) /\ ~Out(t1, id)
    BY <1>4 DEF Spoken
<1>8. /\ \A t1, i : Out(t1, i)' <=> Out(t1, i) \/ (ok /\ "open" = t1 /\ id = i)
      /\ OpensFirst(outbound)'
    <2>1. CASE ok
        BY <1>4, <1>7, <2>1, Sending DEF Spoken
    <2>2. CASE ~ok
        <3>1. outbound' = outbound
            BY <1>4, <2>2
        <3> QED BY <2>2, <3>1 DEF Out, Spoken
    <2> QED BY <2>1, <2>2
<1>9. Tasked'
    <2>1. "open" \in {"open", "close"} /\ id \in used'
        BY <1>4
    <2> QED BY <1>2, <1>3, <1>4, <2>1 DEF Tasked
<1>10. Spoken'
    BY <1>4, <1>5, <1>6, <1>8, <1>9 DEF Spoken
<1>11. Closings'
    <2>1. Len(tasks') = 1 /\ tasks'[1] = t /\ 1 .. 1 = {1} /\ t.call = "open"
        BY <1>3, <1>4
    <2> QED BY <2>1 DEF Closings
<1>12. ASSUME ~over, NEW i \in Ids \ astray PROVE Sync(i)'
    <2>1. Sync(i)
        BY <1>12 DEF Synced
    <2>2. CASE i = id
        <3>1. /\ id \notin kernel /\ id \notin kernel' /\ id \in registry'
              /\ id \notin restart'.before
            BY <1>4 DEF Spoken, IInv, Fresh
        <3>2. \A t1 : ~In(t1, id)'
            BY <1>6, <1>7
        <3>3. ~Out("close", id)' /\ (Out("open", id)' <=> ok)
            BY <1>7, <1>8
        <3>4. ~Closing(id)' /\ (Refused(id)' <=> ~ok)
            BY <1>2, <1>5
        <3>5. ok => restart'.pc # "asked"
            BY <1>2, <1>4 DEF IInv, Drained
        <3>6. Sync(id)'
            BY <3>1, <3>2, <3>3, <3>4, <3>5 DEF Sync, Gone, Leaving
        <3> QED BY <2>2, <3>6
    <2>3. CASE i # id
        <3>1. (i \in registry' <=> i \in registry) /\ (i \in kernel' <=> i \in kernel)
            BY <1>4, <2>3
        <3>2. \A t1 : (Out(t1, i)' <=> Out(t1, i)) /\ (In(t1, i)' <=> In(t1, i))
            BY <1>6, <1>8, <2>3
        <3>3. (Refused(i)' <=> Refused(i)) /\ (Closing(i)' <=> Closing(i))
            BY <1>5, <2>3
        <3> QED BY <1>4, <2>1, <3>1, <3>2, <3>3, SyncFrame
    <2> QED BY <2>2, <2>3
<1> QED
    BY <1>4, <1>10, <1>11, <1>12 DEF Synced

LEMMA CloseSync ==
    ASSUME SInv, NEW id \in Ids, Close(id)
    PROVE  Spoken' /\ Synced'
<1> USE DEF SInv
<1>1. PICK ok : ok = Sendable(<<>>)
    OBVIOUS
<1>2. ok \in BOOLEAN
    BY <1>1 DEF Sendable
<1>3. PICK t : t = [call |-> "close", id |-> id, ok |-> ok]
    OBVIOUS
<1>4. /\ tasks = <<>> /\ tasks' = <<t>> /\ id \in registry /\ handle[id].state = "open"
      /\ handle' = [handle EXCEPT ![id].state = "closing"]
      /\ used' = used /\ registry' = registry /\ astray' = astray
      /\ kernel' = kernel /\ inbound' = inbound /\ restart' = restart /\ over' = over
      /\ outbound' = IF ok THEN Append(outbound, Msg("close", id, 0, <<>>)) ELSE outbound
    BY <1>1, <1>3 DEF Close, Idle, kernelSide, aux
<1>5. \A i : /\ ~Refused(i) /\ ~Closing(i) /\ ~Refused(i)'
             /\ Closing(i)' <=> ok /\ i = id
    <2>1. \A i : ~Refused(i) /\ ~Closing(i)
        BY <1>4, NoTask
    <2>2. Len(tasks') = 1 /\ tasks'[1] = t /\ 1 .. 1 = {1}
        BY <1>4
    <2>3. t.call = "close" /\ t.id = id /\ (t.ok <=> ok)
        BY <1>3
    <2>4. \A i : Refused(i)' <=> t.call = "open" /\ ~t.ok /\ t.id = i
        BY <2>2 DEF Refused
    <2>5. \A i : Closing(i)' <=> t.call = "close" /\ t.ok /\ t.id = i
        BY <2>2 DEF Closing
    <2>6. \A i : ~Refused(i)'
        BY <2>3, <2>4
    <2>7. \A i : Closing(i)' <=> ok /\ i = id
        BY <2>3, <2>5
    <2> QED BY <2>1, <2>6, <2>7
<1>6. \A t1, i : In(t1, i)' <=> In(t1, i)
    BY <1>4 DEF In
<1>7. ~In("open", id)
    BY <1>4 DEF IInv, OpensOnce, In, Has
<1>8. /\ \A t1, i : Out(t1, i)' <=> Out(t1, i) \/ (ok /\ "close" = t1 /\ id = i)
      /\ OpensFirst(outbound)'
    <2>1. CASE ok
        BY <1>4, <2>1, Sending DEF Spoken
    <2>2. CASE ~ok
        <3>1. outbound' = outbound
            BY <1>4, <2>2
        <3> QED BY <2>2, <3>1 DEF Out, Spoken
    <2> QED BY <2>1, <2>2
<1>9. id \in used'
    BY <1>4 DEF Spoken
<1>10. Tasked'
    BY <1>2, <1>3, <1>4, <1>9 DEF Tasked
<1>11. Spoken'
    BY <1>4, <1>5, <1>6, <1>8, <1>9, <1>10 DEF Spoken
<1>12. Closings'
    <2>1. Len(tasks') = 1 /\ tasks'[1] = t /\ 1 .. 1 = {1} /\ t.id = id
        BY <1>3, <1>4
    <2>2. handle'[id].state = "closing"
        <3>1. id \in DOMAIN handle /\ IsHandle(handle[id])
            BY DEF IInv, Shapes
        <3> QED BY <1>4, <3>1 DEF IsHandle
    <2> QED BY <2>1, <2>2 DEF Closings
<1>13. ASSUME ~over, NEW i \in Ids \ astray PROVE Sync(i)'
    <2>1. Sync(i)
        BY <1>13 DEF Synced
    <2>2. CASE i = id
        <3>1. (id \in registry' <=> id \in registry) /\ (id \in kernel' <=> id \in kernel)
            BY <1>4
        <3>2. Out("open", id)' <=> Out("open", id)
            BY <1>8
        <3>3. Out("close", id)' <=> Out("close", id) \/ ok
            BY <1>8
        <3>4. Closing(id)' <=> ok
            BY <1>2, <1>5
        <3>5. ~Refused(id)' /\ ~Refused(id) /\ ~Closing(id)
            BY <1>5
        <3>6. (In("open", id)' <=> In("open", id)) /\ (In("close", id)' <=> In("close", id))
            BY <1>6
        <3>7. Sync(id)
            BY <2>1, <2>2
        <3>8. CASE ok
            <4>1. Gone(id)'
                BY <3>3, <3>8 DEF Gone
            <4> QED BY <1>4, <1>7, <2>2, <3>1, <3>2, <3>3, <3>4, <3>5, <3>6, <3>7, <3>8, <4>1
                    DEF Sync, Leaving
        <3>9. CASE ~ok
            <4>1. Sync(id)'
                BY <1>4, <3>1, <3>2, <3>3, <3>4, <3>5, <3>6, <3>7, <3>9, SyncFrame
            <4> QED BY <2>2, <4>1
        <3> QED BY <3>8, <3>9
    <2>3. CASE i # id
        <3>1. \A t1 : (Out(t1, i)' <=> Out(t1, i)) /\ (In(t1, i)' <=> In(t1, i))
            BY <1>6, <1>8, <2>3
        <3>2. (Refused(i)' <=> Refused(i)) /\ (Closing(i)' <=> Closing(i))
            BY <1>5, <2>3
        <3> QED BY <1>4, <2>1, <3>1, <3>2, SyncFrame
    <2> QED BY <2>2, <2>3
<1> QED
    BY <1>4, <1>11, <1>12, <1>13 DEF Synced

LEMMA ReturnSync ==
    ASSUME SInv, OpenReturns \/ CloseReturns
    PROVE  Spoken' /\ Synced'
<1> USE DEF SInv
<1>1. PICK call \in {"open", "close"}, id \in used, ok \in BOOLEAN :
         tasks = <<[call |-> call, id |-> id, ok |-> ok]>>
    BY DEF Spoken, Tasked, OpenReturns, CloseReturns, Idle
<1>2. PICK t : t = [call |-> call, id |-> id, ok |-> ok]
    OBVIOUS
<1>3. /\ tasks = <<t>> /\ Head(tasks) = t /\ Tail(tasks) = <<>>
      /\ t.call = call /\ t.id = id /\ t.ok = ok
    BY <1>1, <1>2
<1>4. /\ used' = used /\ kernel' = kernel /\ inbound' = inbound /\ outbound' = outbound
      /\ restart' = restart /\ over' = over /\ astray' = astray /\ tasks' = <<>>
    BY <1>3 DEF OpenReturns, CloseReturns, kernelSide, wires, aux
<1>5. \A i : /\ ~Refused(i)' /\ ~Closing(i)'
             /\ Refused(i) <=> call = "open" /\ ~ok /\ i = id
             /\ Closing(i) <=> call = "close" /\ ok /\ i = id
    <2>1. Len(<<>>) = 0 /\ 1 .. 0 = {}
        OBVIOUS
    <2>2. \A i : ~Refused(i)' /\ ~Closing(i)'
        BY <1>4, <2>1 DEF Refused, Closing
    <2> QED BY <1>1, <2>2, OneTask
<1>6. \A t1, i : (In(t1, i)' <=> In(t1, i)) /\ (Out(t1, i)' <=> Out(t1, i))
    BY <1>4 DEF In, Out
<1>7. Closings' /\ Tasked'
    <2>1. Len(<<>>) = 0 /\ 1 .. 0 = {}
        OBVIOUS
    <2> QED BY <1>4, <2>1 DEF Closings, Tasked
<1>8. ~over => Closing(id) \/ Refused(id) \/ registry' = registry
    <2>1. CASE OpenReturns
        BY <1>3, <1>5, <2>1 DEF OpenReturns
    <2>2. CASE CloseReturns
        BY <1>3, <1>5, <2>2 DEF CloseReturns
    <2> QED BY <2>1, <2>2
<1>9. registry' = registry \/ registry' = registry \ {id}
    BY <1>3 DEF OpenReturns, CloseReturns
<1>10. Spoken'
    <2>1. registry' \subseteq registry
        BY <1>9
    <2>2. OpensFirst(outbound)'
        BY <1>4 DEF Spoken
    <2> QED BY <1>4, <1>5, <1>6, <1>7, <2>1, <2>2 DEF Spoken
<1>11. ~over /\ (Closing(id) \/ Refused(id))
            => registry' = registry \ {id}
    <2> SUFFICES ASSUME ~over, Closing(id) \/ Refused(id)
                 PROVE  registry' = registry \ {id}
        OBVIOUS
    <2>1. CASE OpenReturns
        <3>1. call = "open" /\ ~ok
            BY <1>3, <1>5, <2>1 DEF OpenReturns
        <3> QED BY <1>3, <2>1, <3>1 DEF OpenReturns
    <2>2. CASE CloseReturns
        <3>1. call = "close" /\ ok
            BY <1>3, <1>5, <2>2 DEF CloseReturns
        <3>2. handle[id].state = "closing"
            <4>1. 1 \in 1 .. Len(tasks) /\ tasks[1] = t
                BY <1>3
            <4> QED BY <1>3, <3>1, <4>1 DEF Synced, Closings
        <3> QED BY <1>3, <2>2, <3>1, <3>2 DEF CloseReturns
    <2> QED BY <2>1, <2>2
<1>12. ASSUME ~over, NEW i \in Ids \ astray PROVE Sync(i)'
    <2>1. Sync(i)
        BY <1>12 DEF Synced
    <2>2. (i \in kernel' <=> i \in kernel) /\ ~Refused(i)' /\ ~Closing(i)'
        BY <1>4, <1>5
    <2>3. CASE i = id /\ (Closing(id) \/ Refused(id))
        <3>1. i \notin registry'
            BY <1>11, <1>12, <2>3
        <3>2. Gone(i)
            BY <2>1, <2>3 DEF Sync, Gone
        <3> QED BY <1>4, <1>6, <2>1, <2>2, <3>1, <3>2 DEF Sync, Gone
    <2>4. CASE ~(i = id /\ (Closing(id) \/ Refused(id)))
        <3>1. i \in registry' <=> i \in registry
            BY <1>8, <1>9, <1>12, <2>4
        <3>2. ~Refused(i) /\ ~Closing(i)
            BY <1>5, <2>4
        <3> QED BY <1>4, <1>6, <2>1, <2>2, <3>1, <3>2, SyncFrame
    <2> QED BY <2>3, <2>4
<1> QED
    BY <1>4, <1>7, <1>10, <1>12 DEF Synced

(* A subscriber sends; a target comes or goes; a timer; the reconnect loop *)
(* succeeds or gives up.                                                   *)
LEMMA QuietSync ==
    ASSUME SInv,
           \/ \E id \in Ids : Send(id) \/ GraceEnds(id)
           \/ Register \/ Reconnect \/ GivesUp
    PROVE  Spoken' /\ Synced'
<1> USE DEF SInv
<1>1. /\ tasks = <<>> /\ tasks' = tasks /\ used' = used /\ kernel' = kernel
      /\ inbound' = inbound /\ registry' = registry /\ restart' = restart /\ over' = over
      /\ astray' = astray
    BY DEF Send, GraceEnds, Register, Reconnect, GivesUp, Idle, kernelSide, wires, comms, flow, aux
<1>2. \A i : (Refused(i)' <=> Refused(i)) /\ (Closing(i)' <=> Closing(i))
    BY <1>1 DEF Refused, Closing
<1>3. \A t, i : In(t, i)' <=> In(t, i)
    BY <1>1 DEF In
<1>4. Closings' /\ Tasked'
    <2>1. Len(<<>>) = 0 /\ 1 .. 0 = {}
        OBVIOUS
    <2> QED BY <1>1, <2>1 DEF Closings, Tasked
<1>5. /\ OpensFirst(outbound)'
      /\ \A t, i : Out(t, i)' => i \in used
      /\ \A i : /\ Out("open", i)' <=> Out("open", i)
                /\ Out("close", i)' <=> Out("close", i)
    <2>1. CASE outbound' = outbound
        BY <2>1 DEF Out, Spoken
    <2>2. ASSUME NEW id \in Ids, Send(id), outbound' # outbound
          PROVE  <1>5!:
        <3>1. outbound' = Append(outbound, Msg("msg", id, 0, <<>>)) /\ id \in used
            BY <2>2 DEF Send, Spoken
        <3>2. /\ \A t, i : Out(t, i)' <=> Out(t, i) \/ ("msg" = t /\ id = i)
              /\ OpensFirst(outbound)'
            BY <3>1, Sending DEF Spoken
        <3> QED BY <3>1, <3>2 DEF Spoken
    <2>3. CASE (\E id \in Ids : GraceEnds(id)) \/ Register \/ Reconnect \/ GivesUp
        <3>1. outbound' = outbound
            BY <2>3 DEF GraceEnds, Register, Reconnect, GivesUp, wires
        <3> QED BY <2>1, <3>1
    <2> QED BY <2>1, <2>2, <2>3
<1>6. Spoken'
    BY <1>1, <1>2, <1>3, <1>4, <1>5 DEF Spoken
<1>7. ASSUME ~over, NEW i \in Ids \ astray PROVE Sync(i)'
    <2>1. Sync(i)
        BY <1>7 DEF Synced
    <2> QED BY <1>1, <1>2, <1>3, <1>5, <2>1, SyncFrame
<1> QED
    BY <1>1, <1>4, <1>6, <1>7 DEF Synced

(* The socket goes, with what was under way on it.                         *)
LEMMA LossSync ==
    ASSUME SInv, Disconnect \/ RestartBreaks
    PROVE  Spoken' /\ Synced'
<1> USE DEF SInv
<1>1. /\ tasks = <<>> /\ tasks' = tasks /\ used' = used /\ kernel' = kernel
      /\ registry' = registry /\ over' = over
      /\ inbound' = <<>> /\ outbound' = <<>>
      /\ restart.pc # "asked" /\ restart'.pc = "off"
      /\ astray \subseteq astray' /\ Undelivered \subseteq astray'
      /\ restart.pc = "info" => restart.before \subseteq astray'
    BY DEF Disconnect, RestartBreaks, Discard, Idle, kernelSide, comms, NoRestart
<1>2. \A i : ~Refused(i) /\ ~Closing(i) /\ ~Refused(i)' /\ ~Closing(i)'
    <2>1. Len(<<>>) = 0 /\ 1 .. 0 = {}
        OBVIOUS
    <2> QED BY <1>1, <2>1 DEF Refused, Closing
<1>3. Closings' /\ Tasked'
    <2>1. Len(<<>>) = 0 /\ 1 .. 0 = {}
        OBVIOUS
    <2> QED BY <1>1, <2>1 DEF Closings, Tasked
<1>4. OpensFirst(outbound)' /\ \A t, i : ~In(t, i)' /\ ~Out(t, i)'
    BY <1>1, HasNone DEF In, Out
<1>5. Spoken'
    BY <1>1, <1>2, <1>3, <1>4 DEF Spoken
<1>6. ASSUME NEW t \in {"open", "close"}, NEW i, In(t, i) \/ Out(t, i)
      PROVE  i \in astray'
    <2>1. DOMAIN inbound = 1 .. Len(inbound) /\ DOMAIN outbound = 1 .. Len(outbound)
        BY DEF IInv, Shapes, IsSeq
    <2>2. t # "msg"
        BY <1>6
    <2>3. i \in Undelivered
        BY <1>6, <2>1, <2>2 DEF In, Out, Has, Undelivered
    <2> QED BY <1>1, <2>3
<1>7. ASSUME ~over, NEW i \in Ids \ astray' PROVE Sync(i)'
    <2>1. Sync(i)
        BY <1>1, <1>7 DEF Synced
    <2>2. ~In("open", i) /\ ~In("close", i) /\ ~Out("open", i) /\ ~Out("close", i)
        BY <1>6, <1>7
    <2>3. i \in registry <=> i \in kernel
        BY <1>1, <1>2, <1>7, <2>1, <2>2 DEF Sync, Gone, Leaving
    <2> QED BY <1>1, <1>2, <1>4, <2>3 DEF Sync, Gone
<1> QED
    BY <1>1, <1>3, <1>5, <1>7 DEF Synced

(* Nothing is left of what the kernel and the messages were.               *)
LEMMA NewKernel ==
    ASSUME kernel' = {}, inbound' = <<>>, outbound' = <<>>
    PROVE  /\ \A t, i : ~In(t, i)' /\ ~Out(t, i)'
           /\ OpensFirst(outbound)' /\ \A i : i \notin kernel' /\ Gone(i)'
<1>1. \A t, i : ~In(t, i)' /\ ~Out(t, i)'
    BY HasNone DEF In, Out
<1>2. OpensFirst(outbound)'
    BY HasNone
<1>3. \A i : i \notin kernel' /\ Gone(i)'
    BY <1>1 DEF Gone
<1> QED
    BY <1>1, <1>2, <1>3

(* The restart asks, is refused, times out, and opens its socket.          *)
LEMMA RestartSync ==
    ASSUME SInv, RestartBegins \/ RestartRefused \/ RestartTimesOut \/ RestartReopens
    PROVE  Spoken' /\ Synced'
<1> USE DEF SInv
<1>1. /\ tasks = <<>> /\ tasks' = tasks /\ used' = used /\ registry' = registry
      /\ over' = over
    BY DEF RestartBegins, RestartRefused, RestartTimesOut, RestartReopens, Idle, kernelSide, comms
<1>2. \A i : ~Refused(i) /\ ~Closing(i) /\ ~Refused(i)' /\ ~Closing(i)'
    <2>1. Len(<<>>) = 0 /\ 1 .. 0 = {}
        OBVIOUS
    <2> QED BY <1>1, <2>1 DEF Refused, Closing
<1>3. Closings' /\ Tasked'
    <2>1. Len(<<>>) = 0 /\ 1 .. 0 = {}
        OBVIOUS
    <2> QED BY <1>1, <2>1 DEF Closings, Tasked
<1>4. CASE /\ kernel' = kernel /\ inbound' = inbound /\ outbound' = outbound /\ astray' = astray
           /\ RestartBegins \/ RestartRefused \/ RestartTimesOut
    <2>1. \A t, i : (In(t, i)' <=> In(t, i)) /\ (Out(t, i)' <=> Out(t, i))
        BY <1>4 DEF In, Out
    <2>2. OpensFirst(outbound)'
        BY <1>4 DEF Spoken
    <2>3. Spoken'
        BY <1>1, <1>2, <1>3, <1>4, <2>1, <2>2 DEF Spoken
    <2>4. /\ restart.pc # "info" /\ restart'.pc # "info"
          /\ restart'.pc = "asked" => restart'.before = registry
        BY <1>4 DEF RestartBegins, RestartRefused, RestartTimesOut, NoRestart
    <2>5. ASSUME ~over, NEW i \in Ids \ astray PROVE Sync(i)'
        <3>1. Sync(i)
            BY <2>5 DEF Synced
        <3> QED BY <1>1, <1>2, <1>4, <2>1, <2>4, <3>1 DEF Sync, Gone, Leaving
    <2> QED BY <1>1, <1>3, <1>4, <2>3, <2>5 DEF Synced
<1>5. CASE /\ kernel' = {} /\ inbound' = <<>> /\ outbound' = <<>>
           /\ \/ RestartTimesOut /\ astray' = astray \cup registry
              \/ RestartReopens
    <2>1. Spoken'
        BY <1>1, <1>2, <1>3, <1>5, NewKernel DEF Spoken
    <2>2. CASE RestartTimesOut /\ astray' = astray \cup registry
        <3>1. restart'.pc = "off"
            BY <2>2 DEF RestartTimesOut, NoRestart
        <3>2. \A i \in Ids \ astray' : i \notin registry'
            BY <1>1, <2>2
        <3>3. \A i \in Ids \ astray' : Sync(i)'
            BY <1>2, <1>5, <3>1, <3>2, NewKernel DEF Sync
        <3> QED BY <1>1, <1>3, <2>1, <3>3 DEF Synced
    <2>3. CASE RestartReopens
        <3>1. restart.pc = "asked" /\ restart'.pc = "info" /\ restart'.before = restart.before
              /\ astray' = astray
            <4>1. PICK before, from : restart = [pc |-> "asked", before |-> before, from |-> from]
                BY <2>3 DEF RestartReopens, IInv, Shapes
            <4> QED BY <2>3, <4>1 DEF RestartReopens
        <3>2. ASSUME ~over, NEW i \in Ids \ astray PROVE Sync(i)'
            <4>1. i \in registry' => i \in restart'.before
                BY <1>1, <1>2, <3>1, <3>2 DEF Synced, Sync
            <4>2. Leaving(i)' \/ i \notin registry'
                BY <3>1, <4>1 DEF Leaving
            <4> QED BY <1>2, <1>5, <3>1, <4>1, <4>2, NewKernel DEF Sync
        <3> QED BY <1>1, <1>3, <2>1, <3>1, <3>2 DEF Synced
    <2> QED BY <1>5, <2>2, <2>3
<1> QED
    BY <1>4, <1>5 DEF RestartBegins, RestartRefused, RestartTimesOut, RestartReopens,
                      Discard, kernelSide, aux

(* The restart succeeds: it closes what it found, and what the new kernel  *)
(* has opened stays.                                                       *)
LEMMA RestartSucceedsSync ==
    ASSUME SInv, RestartSucceeds
    PROVE  Spoken' /\ Synced'
<1> USE DEF SInv
<1>1. /\ tasks = <<>> /\ tasks' = tasks /\ used' = used /\ kernel' = kernel
      /\ inbound' = inbound /\ outbound' = outbound /\ over' = over /\ astray' = astray
      /\ registry' = registry \ {id \in restart.before : handle[id].state # "closed"}
      /\ restart.pc = "info" /\ restart'.pc = "off"
    BY DEF RestartSucceeds, Idle, kernelSide, NoRestart, aux
<1>2. \A i : ~Refused(i) /\ ~Closing(i) /\ ~Refused(i)' /\ ~Closing(i)'
    <2>1. Len(<<>>) = 0 /\ 1 .. 0 = {}
        OBVIOUS
    <2> QED BY <1>1, <2>1 DEF Refused, Closing
<1>3. Closings' /\ Tasked'
    <2>1. Len(<<>>) = 0 /\ 1 .. 0 = {}
        OBVIOUS
    <2> QED BY <1>1, <2>1 DEF Closings, Tasked
<1>4. \A t, i : (In(t, i)' <=> In(t, i)) /\ (Out(t, i)' <=> Out(t, i))
    BY <1>1 DEF In, Out
<1>5. OpensFirst(outbound)'
    BY <1>1 DEF Spoken
<1>6. registry' = registry \ restart.before
    <2>1. \A id \in registry : handle[id].state # "closed"
        BY DEF IInv, ClosedOnce, Shapes
    <2> QED BY <1>1, <2>1
<1>7. Spoken'
    BY <1>1, <1>2, <1>3, <1>4, <1>5, <1>6 DEF Spoken
<1>8. ASSUME ~over, NEW i \in Ids \ astray PROVE Sync(i)'
    <2>1. Sync(i)
        BY <1>8 DEF Synced
    <2>2. CASE i \in restart.before
        <3>1. i \notin registry' /\ i \notin kernel /\ ~Out("open", i)
            BY <1>1, <1>6, <2>1, <2>2 DEF Sync
        <3>2. Gone(i)'
            BY <1>1, <1>4, <3>1 DEF Gone
        <3> QED BY <1>1, <1>2, <1>4, <2>1, <3>1, <3>2 DEF Sync
    <2>3. CASE i \notin restart.before
        <3>1. i \in registry' <=> i \in registry
            BY <1>6, <2>3
        <3> QED BY <1>1, <1>2, <1>4, <2>1, <2>3, <3>1 DEF Sync, Gone, Leaving
    <2> QED BY <2>2, <2>3
<1> QED
    BY <1>1, <1>3, <1>7, <1>8 DEF Synced

(* The restart fails for good; the kernel is shut down.                    *)
LEMMA EndSync ==
    ASSUME SInv, RestartFails \/ End \/ Shutdown
    PROVE  Spoken' /\ Synced'
<1> USE DEF SInv
<1>1. /\ tasks' = tasks /\ used' = used /\ astray' = astray
      /\ registry' = {} \/ registry' = registry
      /\ RestartFails \/ over'
    BY DEF RestartFails, End, Shutdown, CloseAll, kernelSide, comms, flow
<1>2. Tasked'
    BY <1>1 DEF Spoken, Tasked
<1>3. \A i : (Refused(i)' <=> Refused(i)) /\ (Closing(i)' <=> Closing(i))
    BY <1>1 DEF Refused, Closing
<1>4. CASE RestartFails \/ Shutdown
    <2>1. kernel' = {} /\ inbound' = <<>> /\ outbound' = <<>> /\ tasks = <<>>
        BY <1>4 DEF RestartFails, Shutdown, Discard, Idle
    <2>2. \A i : ~Refused(i)' /\ ~Closing(i)'
        BY <1>3, <2>1, NoTask
    <2>3. Closings'
        <3>1. Len(<<>>) = 0 /\ 1 .. 0 = {}
            OBVIOUS
        <3> QED BY <1>1, <2>1, <3>1 DEF Closings
    <2>4. Spoken'
        BY <1>1, <1>2, <2>1, <2>2, NewKernel DEF Spoken
    <2>5. CASE RestartFails
        <3>1. registry' = {} /\ restart'.pc = "off"
            BY <2>5 DEF RestartFails, CloseAll, NoRestart
        <3>2. \A i \in Ids : Sync(i)'
            BY <2>1, <2>2, <3>1, NewKernel DEF Sync
        <3> QED BY <2>3, <2>4, <3>2 DEF Synced
    <2>6. CASE ~RestartFails
        BY <1>1, <2>4, <2>6 DEF Synced
    <2> QED BY <2>5, <2>6
<1>5. CASE End
    <2>1. /\ kernel' = kernel /\ inbound' = inbound /\ outbound' = outbound
          /\ registry' = {} /\ over'
        BY <1>5 DEF End, CloseAll, kernelSide, wires
    <2>2. \A t, i : (In(t, i)' <=> In(t, i)) /\ (Out(t, i)' <=> Out(t, i))
        BY <2>1 DEF In, Out
    <2>3. OpensFirst(outbound)'
        BY <2>1 DEF Spoken
    <2>4. Spoken'
        BY <1>1, <1>2, <1>3, <2>1, <2>2, <2>3 DEF Spoken
    <2> QED BY <2>1, <2>4 DEF Synced
<1> QED
    BY <1>4, <1>5

(* A message arrives: a comm is declined or taken, a message goes to its   *)
(* handle or into the grace queue, a handle ends.                          *)
LEMMA InboundSync ==
    ASSUME SInv, Inbound
    PROVE  Spoken' /\ Synced'
<1> USE DEF SInv
<1>1. PICK n \in 1 .. Len(inbound) :
         /\ inbound' = RemoveAt(inbound, n)
         /\ \E msg \in Decoded(inbound[n]) :
               CASE inbound[n].type = "open"  -> handleOpen(inbound[n].id)
                 [] inbound[n].type = "msg"   -> handleMsg(inbound[n].id, msg)
                 [] inbound[n].type = "close" -> handleClose(inbound[n].id)
    <2>1. DOMAIN inbound = 1 .. Len(inbound)
        BY DEF IInv, Shapes, IsSeq
    <2> QED BY <2>1 DEF Inbound
<1>2. PICK id, type : id = inbound[n].id /\ type = inbound[n].type
    OBVIOUS
<1>3. id \in Ids /\ type \in {"open", "msg", "close"} /\ IsHandle(handle[id])
    BY <1>2 DEF IInv, Shapes
<1>4. /\ tasks = <<>> /\ tasks' = tasks /\ used' = used /\ kernel' = kernel
      /\ restart' = restart /\ over' = over
    BY DEF Inbound, Idle, kernelSide, flow
<1>5. /\ In(type, id)
      /\ \A t, i : /\ In(t, i)' => In(t, i)
                   /\ In(t, i) => In(t, i)' \/ (type = t /\ id = i)
    <2>1. IsSeq(inbound)
        BY DEF IInv, Shapes
    <2>2. \A t, i : /\ Has(RemoveAt(inbound, n), t, i) => Has(inbound, t, i)
                    /\ Has(inbound, t, i) => Has(RemoveAt(inbound, n), t, i)
                                             \/ (inbound[n].type = t /\ inbound[n].id = i)
        BY <2>1, HasRemoved
    <2>3. In(type, id)
        BY <1>2 DEF In, Has
    <2> QED BY <1>1, <1>2, <2>2, <2>3 DEF In
<1>6. type = "open" => /\ ~In("open", id)' /\ handle[id].state = "none"
                       /\ id \notin registry
    <2> SUFFICES ASSUME type = "open"
                 PROVE  ~In("open", id)' /\ handle[id].state = "none" /\ id \notin registry
        OBVIOUS
    <2>1. handle[id].state = "none" /\ id \notin registry
        BY <1>2, <1>3 DEF IInv, OpensOnce, ClosedOnce
    <2>2. IsSeq(inbound)
        BY DEF IInv, Shapes
    <2>3. /\ Len(inbound) \in Nat /\ Len(inbound') = Len(inbound) - 1
          /\ \A k \in 1 .. Len(inbound) - 1 :
                inbound'[k] = IF k < n THEN inbound[k] ELSE inbound[k + 1]
        BY <1>1, <2>2, Removed
    <2>4. \A k \in 1 .. Len(inbound') : \E l \in 1 .. Len(inbound) : l # n /\ inbound'[k] = inbound[l]
        <3>1. ASSUME NEW k \in 1 .. Len(inbound'), k < n
              PROVE  k \in 1 .. Len(inbound) /\ k # n /\ inbound'[k] = inbound[k]
            BY <2>3, <3>1
        <3>2. ASSUME NEW k \in 1 .. Len(inbound'), ~(k < n)
              PROVE  k + 1 \in 1 .. Len(inbound) /\ k + 1 # n /\ inbound'[k] = inbound[k + 1]
            BY <2>3, <3>2
        <3> QED BY <3>1, <3>2
    <2>5. ~In("open", id)'
        BY <1>2, <2>4 DEF IInv, OpensOnce, In, Has
    <2> QED BY <2>1, <2>5
<1>7. \A i : ~Refused(i) /\ ~Closing(i) /\ ~Refused(i)' /\ ~Closing(i)'
    <2>1. Len(<<>>) = 0 /\ 1 .. 0 = {}
        OBVIOUS
    <2> QED BY <1>4, <2>1 DEF Refused, Closing
<1>8. Closings' /\ Tasked'
    <2>1. Len(<<>>) = 0 /\ 1 .. 0 = {}
        OBVIOUS
    <2> QED BY <1>4, <2>1 DEF Closings, Tasked
<1>9. id \in used
    BY <1>5 DEF Spoken
<1>10. ASSUME ~over, NEW i \in Ids \ astray, i # id, i \in registry' <=> i \in registry,
              Out("open", i)' <=> Out("open", i), Out("close", i)' <=> Out("close", i)
       PROVE  Sync(i)'
    <2>1. Sync(i)
        BY <1>10 DEF Synced
    <2>2. (In("open", i)' <=> In("open", i)) /\ (In("close", i)' <=> In("close", i))
        BY <1>5, <1>10
    <2> QED BY <1>4, <1>7, <1>10, <2>1, <2>2, SyncFrame
<1>11. CASE type = "open" /\ Refuse(id)
    <2>1. registry' = registry
        BY <1>11 DEF Refuse, comms
    <2>2. CASE Sendable(<<>>)
        <3>1. outbound' = Append(outbound, Msg("close", id, 0, <<>>)) /\ astray' = astray
            BY <1>11, <2>2 DEF Refuse
        <3>2. /\ \A t, i : Out(t, i)' <=> Out(t, i) \/ ("close" = t /\ id = i)
              /\ OpensFirst(outbound)'
            BY <3>1, Sending DEF Spoken
        <3>3. Spoken'
            BY <1>4, <1>5, <1>7, <1>8, <1>9, <2>1, <3>2 DEF Spoken
        <3>4. ASSUME ~over, NEW i \in Ids \ astray PROVE Sync(i)'
            <4>1. CASE i = id
                <5>1. Sync(id)
                    BY <3>4, <4>1 DEF Synced
                <5>2. ~Out("open", id) /\ Out("close", id)' /\ ~Out("open", id)'
                    BY <1>5, <1>11, <3>2, <5>1 DEF Sync
                <5>3. In("close", id)' <=> In("close", id)
                    BY <1>5, <1>11
                <5>4. id \notin registry' /\ ~In("open", id)' /\ Gone(id)'
                    BY <1>6, <1>11, <2>1, <5>2 DEF Gone
                <5>5. restart'.pc = "off"
                    BY <1>4, <2>2 DEF Sendable, IInv, Drained, Shapes
                <5>6. id \in kernel' => ~In("close", id)'
                    BY <1>4, <5>1, <5>3 DEF Sync
                <5>7. Sync(id)'
                    BY <1>7, <5>2, <5>4, <5>5, <5>6 DEF Sync
                <5> QED BY <4>1, <5>7
            <4>2. CASE i # id
                BY <1>10, <2>1, <3>2, <3>4, <4>2
            <4> QED BY <4>1, <4>2
        <3> QED BY <1>4, <1>8, <3>1, <3>3, <3>4 DEF Synced
    <2>3. CASE ~Sendable(<<>>)
        <3>1. outbound' = outbound /\ astray' = astray \cup {id}
            BY <1>11, <2>3 DEF Refuse
        <3>2. OpensFirst(outbound)' /\ \A t, i : Out(t, i)' <=> Out(t, i)
            BY <3>1 DEF Spoken, Out
        <3>3. Spoken'
            BY <1>4, <1>5, <1>7, <1>8, <1>9, <2>1, <3>2 DEF Spoken
        <3>4. ASSUME ~over, NEW i \in Ids \ astray' PROVE Sync(i)'
            <4>1. i # id /\ i \notin astray
                BY <3>1
            <4> QED BY <1>10, <2>1, <3>2, <3>4, <4>1
        <3> QED BY <1>4, <1>8, <3>1, <3>3, <3>4 DEF Synced
    <2> QED BY <2>2, <2>3
<1>12. CASE /\ type = "open" /\ Accept(id) /\ outbound' = outbound
            /\ astray' = IF restart.pc = "asked" THEN astray \cup {id} ELSE astray
    <2>1. registry' = registry \cup {id}
        BY <1>12 DEF Accept
    <2>2. OpensFirst(outbound)' /\ \A t, i : Out(t, i)' <=> Out(t, i)
        BY <1>12 DEF Spoken, Out
    <2>3. Spoken'
        BY <1>4, <1>5, <1>7, <1>8, <1>9, <2>1, <2>2 DEF Spoken
    <2>4. ASSUME ~over, NEW i \in Ids \ astray' PROVE Sync(i)'
        <3>1. i \notin astray /\ (i = id => restart.pc # "asked")
            BY <1>12, <2>4
        <3>2. CASE i = id
            <4>1. Sync(id) /\ In("open", id)
                BY <1>5, <1>12, <2>4, <3>1, <3>2 DEF Synced
            <4>2. In("close", id)' <=> In("close", id)
                BY <1>5, <1>12
            <4>3. id \in registry' /\ ~In("open", id)' /\ (id \in kernel' <=> id \in kernel)
                BY <1>4, <1>6, <1>12, <2>1
            <4>4. ~Out("open", id)' /\ ~Out("close", id)'
                BY <2>2, <4>1 DEF Sync
            <4>5. id \notin kernel' => In("close", id)'
                BY <1>4, <4>1, <4>2 DEF Sync
            <4>6. restart'.pc # "asked"
                BY <1>4, <3>1, <3>2
            <4>7. restart'.pc = "info" /\ id \in restart'.before => id \notin kernel'
                BY <1>4, <4>1 DEF Sync
            <4>8. In("close", id)' => id \notin kernel'
                BY <1>4, <4>1, <4>2 DEF Sync
            <4>9. Sync(id)'
                BY <1>7, <4>3, <4>4, <4>5, <4>6, <4>7, <4>8 DEF Sync, Leaving
            <4> QED BY <3>2, <4>9
        <3>3. CASE i # id
            <4>1. i \in registry' <=> i \in registry
                BY <2>1, <3>3
            <4> QED BY <1>10, <2>2, <2>4, <3>1, <3>3, <4>1
        <3> QED BY <3>2, <3>3
    <2> QED BY <1>4, <1>8, <2>3, <2>4 DEF Synced
<1>13. CASE type = "msg" /\ registry' = registry /\ outbound' = outbound /\ astray' = astray
    <2>1. OpensFirst(outbound)' /\ \A t, i : Out(t, i)' <=> Out(t, i)
        BY <1>13 DEF Spoken, Out
    <2>2. Spoken'
        BY <1>4, <1>5, <1>7, <1>8, <1>9, <1>13, <2>1 DEF Spoken
    <2>3. ASSUME ~over, NEW i \in Ids \ astray PROVE Sync(i)'
        <3>1. Sync(i)
            BY <2>3 DEF Synced
        <3>2. (In("open", i)' <=> In("open", i)) /\ (In("close", i)' <=> In("close", i))
            BY <1>5, <1>13
        <3> QED BY <1>4, <1>7, <1>13, <2>1, <3>1, <3>2, SyncFrame
    <2> QED BY <1>4, <1>8, <1>13, <2>2, <2>3 DEF Synced
<1>14. CASE type = "close" /\ handleClose(id)
    <2>1. outbound' = outbound /\ astray \subseteq astray' /\ registry' \subseteq registry
          /\ \A i : i # id => (i \in registry' <=> i \in registry)
        BY <1>14 DEF handleClose
    <2>2. OpensFirst(outbound)' /\ \A t, i : Out(t, i)' <=> Out(t, i)
        BY <2>1 DEF Spoken, Out
    <2>3. Spoken'
        BY <1>4, <1>5, <1>7, <1>8, <1>9, <2>1, <2>2 DEF Spoken
    <2>4. id \in Ids \ astray' => id \notin registry' /\ ~In("open", id)
        <3>1. CASE id \in registry
            <4>1. id \notin registry'
                BY <1>14, <3>1 DEF handleClose
            <4>2. ~In("open", id)
                BY <1>3, <3>1 DEF IInv, ClosedOnce, OpensOnce, In, Has
            <4> QED BY <4>1, <4>2
        <3>2. CASE id \notin registry
            <4>1. /\ registry' = registry
                  /\ astray' = IF \E m \in Range(inbound) : m.id = id /\ m.type = "open"
                             THEN astray \cup {id} ELSE astray
                BY <1>14, <3>2 DEF handleClose
            <4>2. DOMAIN inbound = 1 .. Len(inbound)
                BY DEF IInv, Shapes, IsSeq
            <4>3. In("open", id) => \E m \in Range(inbound) : m.id = id /\ m.type = "open"
                BY <4>2 DEF In, Has, Range
            <4>4. In("open", id) => id \in astray'
                BY <4>1, <4>3
            <4> QED BY <3>2, <4>1, <4>4
        <3> QED BY <3>1, <3>2
    <2>5. ASSUME ~over, NEW i \in Ids \ astray' PROVE Sync(i)'
        <3>1. i \notin astray
            BY <2>1, <2>5
        <3>2. CASE i = id
            <4>1. Sync(id) /\ In("close", id)
                BY <1>5, <1>14, <2>5, <3>1, <3>2 DEF Synced
            <4>2. id \notin registry' /\ ~In("open", id)'
                BY <1>5, <2>4, <2>5, <3>2
            <4>3. id \notin kernel' /\ ~Out("open", id)'
                BY <1>4, <2>2, <4>1 DEF Sync
            <4>4. Sync(id)'
                BY <1>7, <4>2, <4>3 DEF Sync, Gone
            <4> QED BY <3>2, <4>4
        <3>3. CASE i # id
            <4>1. i \in registry' <=> i \in registry
                BY <2>1, <3>3
            <4> QED BY <1>10, <2>2, <2>5, <3>1, <3>3, <4>1
        <3> QED BY <3>2, <3>3
    <2> QED BY <1>4, <1>8, <2>3, <2>5 DEF Synced
<1>15. CASE type = "open"
    <2>1. handleOpen(id)
        BY <1>1, <1>2, <1>15
    <2> QED BY <1>11, <1>12, <1>15, <2>1 DEF handleOpen
<1>16. CASE type = "msg"
    <2>1. \E msg : handleMsg(id, msg)
        BY <1>1, <1>2, <1>16
    <2> QED BY <1>13, <1>16, <2>1 DEF handleMsg, aux
<1>17. CASE type = "close"
    BY <1>1, <1>2, <1>14, <1>17
<1> QED
    BY <1>3, <1>15, <1>16, <1>17

LEMMA InitSync == Init => Spoken /\ Synced
<1> SUFFICES ASSUME Init PROVE Spoken /\ Synced
    OBVIOUS
<1>1. \A t, i : ~In(t, i) /\ ~Out(t, i)
    BY HasNone DEF Init, In, Out
<1>2. \A i : ~Refused(i) /\ ~Closing(i)
    BY NoTask DEF Init
<1>3. OpensFirst(outbound) /\ Tasked
    BY HasNone DEF Init, Tasked
<1>4. Spoken
    BY <1>1, <1>2, <1>3 DEF Init, Spoken
<1>5. Closings
    <2>1. Len(<<>>) = 0 /\ 1 .. 0 = {}
        OBVIOUS
    <2> QED BY <2>1 DEF Init, Closings
<1>6. restart.pc = "off"
    BY DEF Init, NoRestart
<1>7. \A i \in Ids : Sync(i)
    BY <1>1, <1>2, <1>6 DEF Init, Sync, Gone
<1> QED
    BY <1>4, <1>5, <1>7 DEF Synced

LEMMA NextSync == SInv /\ [Next]_vars => Spoken' /\ Synced'
<1> SUFFICES ASSUME SInv, [Next]_vars PROVE Spoken' /\ Synced'
    OBVIOUS
<1>1. CASE \/ \E id \in KernelIds : KernelOpens(id)
           \/ \E id \in Ids : KernelSends(id) \/ KernelCloses(id)
    BY <1>1, KernelSync
<1>2. CASE KernelReads
    BY <1>2, ReadSync
<1>3. CASE \/ \E id \in Ids : Send(id) \/ GraceEnds(id)
           \/ Register \/ Reconnect \/ GivesUp
    BY <1>3, QuietSync
<1>4. CASE \E id \in FrontIds : OpenComm(id)
    BY <1>4, OpenCommSync
<1>5. CASE \E id \in Ids : Close(id)
    BY <1>5, CloseSync
<1>6. CASE OpenReturns \/ CloseReturns
    BY <1>6, ReturnSync
<1>7. CASE Inbound
    BY <1>7, InboundSync
<1>8. CASE RestartBegins \/ RestartRefused \/ RestartTimesOut \/ RestartReopens
    BY <1>8, RestartSync
<1>9. CASE RestartSucceeds
    BY <1>9, RestartSucceedsSync
<1>10. CASE RestartFails \/ End \/ Shutdown
    BY <1>10, EndSync
<1>11. CASE Disconnect \/ RestartBreaks
    BY <1>11, LossSync
<1>12. CASE UNCHANGED vars
    <2>1. UNCHANGED <<kernel, used, inbound, outbound, registry, handle, tasks,
                      restart, over, astray>>
        BY <1>12 DEF vars, kernelSide, wires, comms, flow, aux
    <2>2. \A t, i : (In(t, i)' <=> In(t, i)) /\ (Out(t, i)' <=> Out(t, i))
        BY <2>1 DEF In, Out
    <2>3. \A i : (Refused(i)' <=> Refused(i)) /\ (Closing(i)' <=> Closing(i))
        BY <2>1 DEF Refused, Closing
    <2>4. Tasked' /\ OpensFirst(outbound)' /\ (Closings' <=> Closings)
        BY <2>1 DEF SInv, Spoken, Tasked, Closings
    <2>5. Spoken'
        BY <2>1, <2>2, <2>3, <2>4 DEF SInv, Spoken
    <2>6. \A i : Sync(i) => Sync(i)'
        BY <2>1, <2>2, <2>3, SyncFrame
    <2> QED BY <2>1, <2>4, <2>5, <2>6 DEF SInv, Synced
<1> QED
    BY <1>1, <1>2, <1>3, <1>4, <1>5, <1>6, <1>7, <1>8, <1>9, <1>10, <1>11,
       <1>12 DEF Next

LEMMA SpecSync == Spec => []SInv
<1>1. Init => SInv
    BY InitInv, InitSync DEF SInv
<1>2. SInv /\ [Next]_vars => SInv'
    BY NextInv, NextSync DEF SInv
<1> QED
    BY <1>1, <1>2, PTL DEF Spec

(* When nothing is under way, the registry has exactly the comms that are  *)
(* open in the kernel, after restarts that fail, succeed or time out as    *)
(* after a lost connection, but for those of which a comm_open or a        *)
(* comm_close was lost or came in one of the windows that the code leaves  *)
(* (exec/restart.ts, comm/service.ts).                                     *)
THEOREM RegistryAgrees == Spec => []Agreement
<1>1. SInv => Agreement
    <2> SUFFICES ASSUME SInv, AtRest PROVE registry \ astray = kernel \ astray
        BY DEF Agreement
    <2>1. inbound = <<>> /\ outbound = <<>> /\ tasks = <<>> /\ restart.pc = "off" /\ ~over
        BY DEF AtRest, Idle
    <2>2. \A t, i : ~In(t, i) /\ ~Out(t, i)
        BY <2>1, HasNone DEF In, Out
    <2>3. \A i : ~Refused(i) /\ ~Closing(i)
        BY <2>1, NoTask
    <2>4. \A i \in Ids \ astray : Sync(i)
        BY <2>1 DEF SInv, Synced
    <2>5. \A i \in Ids \ astray : i \in registry <=> i \in kernel
        BY <2>1, <2>2, <2>3, <2>4 DEF Sync, Leaving, Gone
    <2>6. registry \subseteq Ids /\ kernel \subseteq Ids
        BY DEF SInv, IInv, Shapes
    <2> QED BY <2>5, <2>6
<1> QED
    BY <1>1, SpecSync, PTL

-----------------------------------------------------------------------------
(* What the wire makes of a comm_msg (kernel/wire/).                       *)

(* The default protocol drops the buffers.                                 *)
LEMMA CarriedDefault ==
    ASSUME NEW header, NEW content, NEW buffers
    PROVE  decodeDefault(encodeDefault(Message(header, content, buffers)))
             = {[Message(header, content, buffers) EXCEPT !.buffers = <<>>]}
BY DEF decodeDefault, encodeDefault, Message

LEMMA MaxIs ==
    ASSUME NEW s, NEW k \in s, s \subseteq Nat, \A i \in s : i <= k
    PROVE  Max(s) = k
<1>1. \A x \in s : (\A i \in s : x >= i) => x = k
    OBVIOUS
<1>2. k \in s /\ \A i \in s : k >= i
    OBVIOUS
<1> QED BY <1>1, <1>2 DEF Max

(* The lengths of the parts of a comm_msg; the recursion that SizeOf is has *)
(* a solution.                                                             *)
PartLen(i) == IF i \in {1, 2, 6} THEN 1 ELSE IF i = 5 THEN 2 ELSE 0

LEMMA SizeFolds ==
    ASSUME NEW n \in 0 .. 7, NEW q, \A i \in 1 .. n : Len(q[i]) = PartLen(i)
    PROVE  \E f : f = [s \in SUBSET (1 .. n) |->
                          IF s = {} THEN 0 ELSE f[s \ {Max(s)}] + Len(q[Max(s)])]
<1> DEFINE T(i, s) == IF i \in s THEN PartLen(i) ELSE 0
           g == [s \in SUBSET (1 .. n) |-> T(1, s) + T(2, s) + T(5, s) + T(6, s)]
<1>1. ASSUME NEW s \in SUBSET (1 .. n), s # {}
      PROVE  Max(s) \in s /\ Max(s) \in 1 .. 7
    <2>1. \E k \in s : \A i \in s : i <= k
        <3>1. \A i \in s : i \in {1, 2, 3, 4, 5, 6, 7}
            OBVIOUS
        <3>2. PICK k : k = IF 7 \in s THEN 7 ELSE IF 6 \in s THEN 6 ELSE IF 5 \in s THEN 5
                           ELSE IF 4 \in s THEN 4 ELSE IF 3 \in s THEN 3
                           ELSE IF 2 \in s THEN 2 ELSE 1
            OBVIOUS
        <3>3. k \in s
            BY <1>1, <3>1, <3>2
        <3>4. \A i \in s : i <= k
            BY <3>1, <3>2
        <3> QED BY <3>3, <3>4
    <2>2. PICK k \in s : \A i \in s : i <= k
        BY <2>1
    <2>3. s \subseteq Nat
        OBVIOUS
    <2>4. Max(s) = k
        BY <2>2, <2>3, MaxIs
    <2> QED BY <2>2, <2>4
<1>2. ASSUME NEW s \in SUBSET (1 .. n)
      PROVE  g[s] = IF s = {} THEN 0 ELSE g[s \ {Max(s)}] + Len(q[Max(s)])
    <2>2. CASE s = {}
        BY <2>2 DEF PartLen
    <2>3. CASE s # {}
        <3>1. PICK m : m = Max(s)
            OBVIOUS
        <3>2. m \in s /\ m \in 1 .. 7 /\ s \ {m} \in SUBSET (1 .. n)
            BY <1>1, <2>3, <3>1
        <3>5. /\ g[s] = T(1, s) + T(2, s) + T(5, s) + T(6, s)
              /\ g[s \ {m}] = T(1, s \ {m}) + T(2, s \ {m}) + T(5, s \ {m}) + T(6, s \ {m})
            BY <3>2
        <3> HIDE DEF g
        <3>6. g[s] = g[s \ {m}] + PartLen(m)
            <4>1. CASE m = 1
                BY <3>2, <3>5, <4>1 DEF PartLen
            <4>2. CASE m = 2
                BY <3>2, <3>5, <4>2 DEF PartLen
            <4>3. CASE m = 3
                BY <3>2, <3>5, <4>3 DEF PartLen
            <4>4. CASE m = 4
                BY <3>2, <3>5, <4>4 DEF PartLen
            <4>5. CASE m = 5
                BY <3>2, <3>5, <4>5 DEF PartLen
            <4>6. CASE m = 6
                BY <3>2, <3>5, <4>6 DEF PartLen
            <4>7. CASE m = 7
                BY <3>2, <3>5, <4>7 DEF PartLen
            <4> QED BY <3>2, <4>1, <4>2, <4>3, <4>4, <4>5, <4>6, <4>7
        <3>7. Len(q[m]) = PartLen(m)
            BY <3>2
        <3> QED BY <2>3, <3>1, <3>6, <3>7
    <2> QED BY <2>2, <2>3
<1> HIDE DEF T
<1>3. g = [s \in SUBSET (1 .. n) |->
              IF s = {} THEN 0 ELSE g[s \ {Max(s)}] + Len(q[Max(s)])]
    <2>1. g = [s \in SUBSET (1 .. n) |-> g[s]]
        OBVIOUS
    <2> HIDE DEF g
    <2> QED BY <1>2, <2>1
<1> HIDE DEF g
<1> QED BY <1>3

(* What stands before each part.                                           *)
PartsBefore(k) == IF k = 0 THEN 0 ELSE IF k = 1 THEN 1 ELSE IF k \in {2, 3, 4} THEN 2
        ELSE IF k = 5 THEN 4 ELSE 5

LEMMA SizeOfParts ==
    ASSUME NEW x, NEW y, NEW z, NEW c, NEW h, NEW n \in 0 .. 7
    PROVE  SizeOf(<<<<c>>, <<h>>, <<>>, <<>>, <<x, y>>, <<z>>, <<>>>>, n) = PartsBefore(n)
<1>1. PICK p : p = <<<<c>>, <<h>>, <<>>, <<>>, <<x, y>>, <<z>>, <<>>>>
    OBVIOUS
<1>2. /\ Len(p) = 7 /\ Len(p[1]) = 1 /\ Len(p[2]) = 1 /\ Len(p[3]) = 0 /\ Len(p[4]) = 0
      /\ Len(p[5]) = 2 /\ Len(p[6]) = 1 /\ Len(p[7]) = 0
    BY <1>1
<1>3. \A i \in 1 .. 7 : Len(p[i]) = PartLen(i)
    <2>1. /\ PartLen(1) = 1 /\ PartLen(2) = 1 /\ PartLen(3) = 0 /\ PartLen(4) = 0 /\ PartLen(5) = 2 /\ PartLen(6) = 1
          /\ PartLen(7) = 0
        BY DEF PartLen
    <2>2. 1 .. 7 = {1, 2, 3, 4, 5, 6, 7}
        OBVIOUS
    <2> QED BY <1>2, <2>1, <2>2
<1>4. PICK S : p \in Seq(S)
    <2>1. PICK S : <<c>> \in S /\ <<h>> \in S /\ <<>> \in S /\ <<x, y>> \in S /\ <<z>> \in S
        <3>1. PICK S : S = {<<c>>, <<h>>, <<>>, <<x, y>>, <<z>>}
            OBVIOUS
        <3> QED BY <3>1
    <2> QED BY <1>1, <2>1
<1>5. PICK q : q = SubSeq(p, 1, n)
    OBVIOUS
<1>6. DOMAIN q = 1 .. n /\ \A i \in 1 .. n : q[i] = p[i]
    BY <1>2, <1>4, <1>5
<1>7. \A i \in 1 .. n : Len(q[i]) = PartLen(i)
    <2>1. \A i \in 1 .. n : i \in 1 .. 7
        OBVIOUS
    <2> QED BY <1>3, <1>6, <2>1
<1>8. SizeOf(p, n) = (CHOOSE f : f = [s \in SUBSET (1 .. n) |->
                          IF s = {} THEN 0 ELSE f[s \ {Max(s)}] + Len(q[Max(s)])])[1 .. n]
    BY <1>5, <1>6 DEF SizeOf, FoldLeft, MapThenFoldSet
<1>9. PICK f : /\ f = [s \in SUBSET (1 .. n) |->
                          IF s = {} THEN 0 ELSE f[s \ {Max(s)}] + Len(q[Max(s)])]
               /\ SizeOf(p, n) = f[1 .. n]
    <2>1. \E f : f = [s \in SUBSET (1 .. n) |->
                          IF s = {} THEN 0 ELSE f[s \ {Max(s)}] + Len(q[Max(s)])]
        BY <1>7, SizeFolds
    <2> QED BY <1>8, <2>1
<1>10. f[{}] = 0
    BY <1>9
<1>11. ASSUME NEW k \in 1 .. n, NEW j \in 0 .. n, k = j + 1
       PROVE  f[1 .. k] = f[1 .. j] + PartLen(k)
    <2>1. k \in 1 .. k /\ 1 .. k \subseteq Nat /\ \A i \in 1 .. k : i <= k
        OBVIOUS
    <2>2. Max(1 .. k) = k
        BY <2>1, MaxIs
    <2>3. 1 .. k \in SUBSET (1 .. n) /\ 1 .. k # {} /\ (1 .. k) \ {k} = 1 .. j
        BY <1>11
    <2>4. f[1 .. k] = f[(1 .. k) \ {k}] + Len(q[k])
        BY <1>9, <2>2, <2>3
    <2> QED BY <1>7, <2>3, <2>4
<1>12. f[1 .. n] = PartsBefore(n)
    <2>0. f[1 .. 0] = PartsBefore(0)
        <3>1. 1 .. 0 = {}
            OBVIOUS
        <3> QED BY <1>10, <3>1 DEF PartsBefore
    <2> DEFINE Q(k) == k <= n => f[1 .. k] = PartsBefore(k)
    <2>1. Q(1)
        <3> SUFFICES ASSUME 1 <= n PROVE f[1 .. 1] = PartsBefore(1)
            OBVIOUS
        <3>0. 1 \in 1 .. n /\ 0 \in 0 .. n /\ 1 = 0 + 1
            OBVIOUS
        <3>1. f[1 .. 1] = f[1 .. 0] + PartLen(1)
            BY <1>11, <3>0
        <3>2. f[1 .. 0] = PartsBefore(0)
            BY <2>0
        <3>3. PartsBefore(0) + PartLen(1) = PartsBefore(1)
            BY DEF PartLen, PartsBefore
        <3> QED BY <3>1, <3>2, <3>3
    <2>2. Q(2)
        <3> SUFFICES ASSUME 2 <= n PROVE f[1 .. 2] = PartsBefore(2)
            OBVIOUS
        <3>0. 2 \in 1 .. n /\ 1 \in 0 .. n /\ 2 = 1 + 1
            OBVIOUS
        <3>1. f[1 .. 2] = f[1 .. 1] + PartLen(2)
            BY <1>11, <3>0
        <3>2. f[1 .. 1] = PartsBefore(1)
            BY <2>1
        <3>3. PartsBefore(1) + PartLen(2) = PartsBefore(2)
            BY DEF PartLen, PartsBefore
        <3> QED BY <3>1, <3>2, <3>3
    <2>3. Q(3)
        <3> SUFFICES ASSUME 3 <= n PROVE f[1 .. 3] = PartsBefore(3)
            OBVIOUS
        <3>0. 3 \in 1 .. n /\ 2 \in 0 .. n /\ 3 = 2 + 1
            OBVIOUS
        <3>1. f[1 .. 3] = f[1 .. 2] + PartLen(3)
            BY <1>11, <3>0
        <3>2. f[1 .. 2] = PartsBefore(2)
            BY <2>2
        <3>3. PartsBefore(2) + PartLen(3) = PartsBefore(3)
            BY DEF PartLen, PartsBefore
        <3> QED BY <3>1, <3>2, <3>3
    <2>4. Q(4)
        <3> SUFFICES ASSUME 4 <= n PROVE f[1 .. 4] = PartsBefore(4)
            OBVIOUS
        <3>0. 4 \in 1 .. n /\ 3 \in 0 .. n /\ 4 = 3 + 1
            OBVIOUS
        <3>1. f[1 .. 4] = f[1 .. 3] + PartLen(4)
            BY <1>11, <3>0
        <3>2. f[1 .. 3] = PartsBefore(3)
            BY <2>3
        <3>3. PartsBefore(3) + PartLen(4) = PartsBefore(4)
            BY DEF PartLen, PartsBefore
        <3> QED BY <3>1, <3>2, <3>3
    <2>5. Q(5)
        <3> SUFFICES ASSUME 5 <= n PROVE f[1 .. 5] = PartsBefore(5)
            OBVIOUS
        <3>0. 5 \in 1 .. n /\ 4 \in 0 .. n /\ 5 = 4 + 1
            OBVIOUS
        <3>1. f[1 .. 5] = f[1 .. 4] + PartLen(5)
            BY <1>11, <3>0
        <3>2. f[1 .. 4] = PartsBefore(4)
            BY <2>4
        <3>3. PartsBefore(4) + PartLen(5) = PartsBefore(5)
            BY DEF PartLen, PartsBefore
        <3> QED BY <3>1, <3>2, <3>3
    <2>6. Q(6)
        <3> SUFFICES ASSUME 6 <= n PROVE f[1 .. 6] = PartsBefore(6)
            OBVIOUS
        <3>0. 6 \in 1 .. n /\ 5 \in 0 .. n /\ 6 = 5 + 1
            OBVIOUS
        <3>1. f[1 .. 6] = f[1 .. 5] + PartLen(6)
            BY <1>11, <3>0
        <3>2. f[1 .. 5] = PartsBefore(5)
            BY <2>5
        <3>3. PartsBefore(5) + PartLen(6) = PartsBefore(6)
            BY DEF PartLen, PartsBefore
        <3> QED BY <3>1, <3>2, <3>3
    <2>7. Q(7)
        <3> SUFFICES ASSUME 7 <= n PROVE f[1 .. 7] = PartsBefore(7)
            OBVIOUS
        <3>0. 7 \in 1 .. n /\ 6 \in 0 .. n /\ 7 = 6 + 1
            OBVIOUS
        <3>1. f[1 .. 7] = f[1 .. 6] + PartLen(7)
            BY <1>11, <3>0
        <3>2. f[1 .. 6] = PartsBefore(6)
            BY <2>6
        <3>3. PartsBefore(6) + PartLen(7) = PartsBefore(7)
            BY DEF PartLen, PartsBefore
        <3> QED BY <3>1, <3>2, <3>3
    <2>8. n \in {0, 1, 2, 3, 4, 5, 6, 7} /\ n <= n
        OBVIOUS
    <2> QED BY <2>0, <2>1, <2>2, <2>3, <2>4, <2>5, <2>6, <2>7, <2>8, ZenonT(30) DEF PartsBefore
<1> QED
    BY <1>1, <1>9, <1>12

LEMMA BytesOfParts ==
    ASSUME NEW x, NEW y, NEW z, NEW c, NEW h
    PROVE  FlattenSeq(<<<<c>>, <<h>>, <<>>, <<>>, <<x, y>>, <<z>>, <<>>>>) = <<c, h, x, y, z>>
<1>1. PICK p : p = <<<<c>>, <<h>>, <<>>, <<>>, <<x, y>>, <<z>>, <<>>>>
    OBVIOUS
<1>2. /\ Len(p) = 7 /\ p[1] = <<c>> /\ p[2] = <<h>> /\ p[3] = <<>> /\ p[4] = <<>>
      /\ p[5] = <<x, y>> /\ p[6] = <<z>> /\ p[7] = <<>>
    BY <1>1
<1> DEFINE Flat(f) == [i \in 1 .. 7 |-> IF i = 1 THEN p[i] ELSE f[i - 1] \o p[i]]
<1>3. FlattenSeq(p) = (CHOOSE f : f = Flat(f))[7]
    BY <1>2 DEF FlattenSeq
<1>4. PICK a2, a3, a4, a5, a6, a7 :
         /\ a2 = p[1] \o p[2] /\ a3 = a2 \o p[3] /\ a4 = a3 \o p[4] /\ a5 = a4 \o p[5]
         /\ a6 = a5 \o p[6] /\ a7 = a6 \o p[7]
    OBVIOUS
<1>5. \E f : f = Flat(f)
    <2>1. PICK f : f = [i \in 1 .. 7 |->
             IF i = 1 THEN p[1] ELSE IF i = 2 THEN a2 ELSE IF i = 3 THEN a3
             ELSE IF i = 4 THEN a4 ELSE IF i = 5 THEN a5 ELSE IF i = 6 THEN a6 ELSE a7]
        OBVIOUS
    <2>2. \A i \in 1 .. 7 : f[i] = IF i = 1 THEN p[i] ELSE f[i - 1] \o p[i]
        <3>1. /\ f[1] = p[1] /\ f[2] = a2 /\ f[3] = a3 /\ f[4] = a4 /\ f[5] = a5
              /\ f[6] = a6 /\ f[7] = a7
            BY <2>1
        <3>2. /\ 1 .. 7 = {1, 2, 3, 4, 5, 6, 7} /\ 2 - 1 = 1 /\ 3 - 1 = 2 /\ 4 - 1 = 3
              /\ 5 - 1 = 4 /\ 6 - 1 = 5 /\ 7 - 1 = 6
            OBVIOUS
        <3>3. /\ f[2] = f[1] \o p[2] /\ f[3] = f[2] \o p[3] /\ f[4] = f[3] \o p[4]
              /\ f[5] = f[4] \o p[5] /\ f[6] = f[5] \o p[6] /\ f[7] = f[6] \o p[7]
            BY ONLY <1>4, <3>1, Zenon
        <3> SUFFICES ASSUME NEW i \in 1 .. 7
                     PROVE  f[i] = IF i = 1 THEN p[i] ELSE f[i - 1] \o p[i]
            OBVIOUS
        <3>4. CASE i = 1
            BY ONLY <3>1, <3>4
        <3>5. CASE i = 2
            <4>1. f[2] = f[1] \o p[2]
                BY ONLY <3>3, Zenon
            <4>2. i # 1 /\ i - 1 = 1
                BY ONLY <3>5
            <4> QED BY ONLY <3>5, <4>1, <4>2, Zenon
        <3>6. CASE i = 3
            <4>1. f[3] = f[2] \o p[3]
                BY ONLY <3>3, Zenon
            <4>2. i # 1 /\ i - 1 = 2
                BY ONLY <3>6
            <4> QED BY ONLY <3>6, <4>1, <4>2, Zenon
        <3>7. CASE i = 4
            <4>1. f[4] = f[3] \o p[4]
                BY ONLY <3>3, Zenon
            <4>2. i # 1 /\ i - 1 = 3
                BY ONLY <3>7
            <4> QED BY ONLY <3>7, <4>1, <4>2, Zenon
        <3>8. CASE i = 5
            <4>1. f[5] = f[4] \o p[5]
                BY ONLY <3>3, Zenon
            <4>2. i # 1 /\ i - 1 = 4
                BY ONLY <3>8
            <4> QED BY ONLY <3>8, <4>1, <4>2, Zenon
        <3>9. CASE i = 6
            <4>1. f[6] = f[5] \o p[6]
                BY ONLY <3>3, Zenon
            <4>2. i # 1 /\ i - 1 = 5
                BY ONLY <3>9
            <4> QED BY ONLY <3>9, <4>1, <4>2, Zenon
        <3>10. CASE i = 7
            <4>1. f[7] = f[6] \o p[7]
                BY ONLY <3>3, Zenon
            <4>2. i # 1 /\ i - 1 = 6
                BY ONLY <3>10
            <4> QED BY ONLY <3>10, <4>1, <4>2, Zenon
        <3>11. i = 1 \/ i = 2 \/ i = 3 \/ i = 4 \/ i = 5 \/ i = 6 \/ i = 7
            BY ONLY i \in 1 .. 7
        <3> QED BY ONLY <3>4, <3>5, <3>6, <3>7, <3>8, <3>9, <3>10, <3>11, Zenon
    <2>3. f = [i \in 1 .. 7 |-> f[i]]
        BY <2>1
    <2> DEFINE E(i) == IF i = 1 THEN p[i] ELSE f[i - 1] \o p[i]
    <2>4. f = [i \in 1 .. 7 |-> E(i)]
        <3>1. \A i \in 1 .. 7 : f[i] = E(i)
            BY ONLY <2>2, Zenon
        <3> HIDE DEF E
        <3> QED BY ONLY <2>3, <3>1
    <2> QED BY ONLY <2>4, Zenon
<1>6. PICK f : f = Flat(f) /\ FlattenSeq(p) = f[7]
    <2> HIDE DEF Flat
    <2> QED BY <1>3, <1>5
<1>7. /\ f[1] = p[1] /\ f[2] = f[1] \o p[2] /\ f[3] = f[2] \o p[3]
      /\ f[4] = f[3] \o p[4] /\ f[5] = f[4] \o p[5] /\ f[6] = f[5] \o p[6]
      /\ f[7] = f[6] \o p[7]
    <2>0. \A i \in 1 .. 7 : f[i] = IF i = 1 THEN p[i] ELSE f[i - 1] \o p[i]
        BY <1>6
    <2>1. ASSUME NEW i \in 2 .. 7, NEW j \in 1 .. 6, i = j + 1 PROVE f[i] = f[j] \o p[i]
        <3>1. i \in 1 .. 7 /\ i # 1 /\ i - 1 = j
            BY <2>1
        <3>2. f[i] = f[i - 1] \o p[i]
            BY <2>0, <3>1
        <3> QED BY <3>1, <3>2
    <2>2. f[2] = f[1] \o p[2]
        <3> 2 \in 2 .. 7 /\ 1 \in 1 .. 6 /\ 2 = 1 + 1
            OBVIOUS
        <3> QED BY <2>1
    <2>3. f[3] = f[2] \o p[3]
        <3> 3 \in 2 .. 7 /\ 2 \in 1 .. 6 /\ 3 = 2 + 1
            OBVIOUS
        <3> QED BY <2>1
    <2>4. f[4] = f[3] \o p[4]
        <3> 4 \in 2 .. 7 /\ 3 \in 1 .. 6 /\ 4 = 3 + 1
            OBVIOUS
        <3> QED BY <2>1
    <2>5. f[5] = f[4] \o p[5]
        <3> 5 \in 2 .. 7 /\ 4 \in 1 .. 6 /\ 5 = 4 + 1
            OBVIOUS
        <3> QED BY <2>1
    <2>6. f[6] = f[5] \o p[6]
        <3> 6 \in 2 .. 7 /\ 5 \in 1 .. 6 /\ 6 = 5 + 1
            OBVIOUS
        <3> QED BY <2>1
    <2>7. f[7] = f[6] \o p[7]
        <3> 7 \in 2 .. 7 /\ 6 \in 1 .. 6 /\ 7 = 6 + 1
            OBVIOUS
        <3> QED BY <2>1
    <2> QED BY <2>0, <2>2, <2>3, <2>4, <2>5, <2>6, <2>7
<1>8. PICK S : c \in S /\ h \in S /\ x \in S /\ y \in S /\ z \in S
    <2>1. PICK S : S = {c, h, x, y, z}
        OBVIOUS
    <2> QED BY <2>1
<1>9. f[1] = <<c>>
    BY <1>2, <1>7
<1>10. f[2] = <<c, h>>
    <2>1. f[2] = <<c>> \o <<h>>
        BY <1>2, <1>7, <1>9
    <2>2. f[2] \in Seq(S) /\ Len(f[2]) = 2 /\ f[2][1] = c /\ f[2][2] = h
        BY <1>8, <2>1
    <2> QED BY <2>2
<1>11. f[3] = <<c, h>> /\ f[4] = <<c, h>>
    <2>1. f[3] = f[2] \o <<>> /\ f[4] = f[3] \o <<>>
        BY <1>2, <1>7
    <2>2. <<c, h>> \in Seq(S)
        BY <1>8
    <2> QED BY <1>10, <2>1, <2>2, ConcatEmptySeq
<1>12. f[5] = <<c, h, x, y>>
    <2>1. f[5] = <<c, h>> \o <<x, y>>
        BY <1>2, <1>7, <1>11
    <2>2. /\ f[5] \in Seq(S) /\ Len(f[5]) = 4
          /\ f[5][1] = c /\ f[5][2] = h /\ f[5][3] = x /\ f[5][4] = y
        BY <1>8, <2>1
    <2> QED BY <2>2
<1>13. f[6] = <<c, h, x, y, z>>
    <2>1. f[6] = <<c, h, x, y>> \o <<z>>
        BY <1>2, <1>7, <1>12
    <2>2. /\ f[6] \in Seq(S) /\ Len(f[6]) = 5
          /\ f[6][1] = c /\ f[6][2] = h /\ f[6][3] = x /\ f[6][4] = y /\ f[6][5] = z
        BY <1>8, <2>1
    <2> QED BY <2>2
<1>14. f[7] = <<c, h, x, y, z>>
    <2>1. f[7] = f[6] \o <<>>
        BY <1>2, <1>7
    <2>2. <<c, h, x, y, z>> \in Seq(S)
        BY <1>8
    <2> QED BY <1>13, <2>1, <2>2, ConcatEmptySeq
<1> QED
    BY <1>1, <1>6, <1>14

(* Protocol v1 carries a comm_msg with its buffers, whatever its fields.   *)
LEMMA CarriedV1 ==
    ASSUME NEW x, NEW y, NEW z, NEW c, NEW h
    PROVE  LET w == Message(<<h>>, <<x, y>>, <<<<z>>, <<>>>>)
           IN decodeV1(encodeV1(w, <<c>>)) = {w}
<1>1. PICK p : p = <<<<c>>, <<h>>, <<>>, <<>>, <<x, y>>, <<z>>, <<>>>>
    OBVIOUS
<1>2. PICK w : w = Message(<<h>>, <<x, y>>, <<<<z>>, <<>>>>)
    OBVIOUS
<1>3. w = [header |-> <<h>>, parent_header |-> <<>>, metadata |-> <<>>,
           content |-> <<x, y>>, buffers |-> <<<<z>>, <<>>>>]
    BY <1>2 DEF Message
<1>4. Parts(w, <<c>>) = p
    <2>1. PICK S : <<c>> \in S /\ <<h>> \in S /\ <<>> \in S /\ <<x, y>> \in S /\ <<z>> \in S
        <3>1. PICK S : S = {<<c>>, <<h>>, <<>>, <<x, y>>, <<z>>}
            OBVIOUS
        <3> QED BY <3>1
    <2>2. PICK a, b : a = <<<<c>>, <<h>>, <<>>, <<>>, <<x, y>>>> /\ b = <<<<z>>, <<>>>>
        OBVIOUS
    <2>3. Parts(w, <<c>>) = a \o b
        BY <1>3, <2>2 DEF Parts
    <2>4. /\ a \in Seq(S) /\ b \in Seq(S) /\ Len(a) = 5 /\ Len(b) = 2
          /\ a[1] = <<c>> /\ a[2] = <<h>> /\ a[3] = <<>> /\ a[4] = <<>> /\ a[5] = <<x, y>>
          /\ b[1] = <<z>> /\ b[2] = <<>>
        BY <2>1, <2>2
    <2>5. PICK q : q = a \o b
        OBVIOUS
    <2>6. /\ q \in Seq(S) /\ Len(q) = 7
          /\ \A i \in 1 .. 7 : q[i] = IF i <= 5 THEN a[i] ELSE b[i - 5]
        <3>1. /\ q \in Seq(S) /\ Len(q) = Len(a) + Len(b)
              /\ \A i \in 1 .. Len(a) + Len(b) :
                    q[i] = IF i <= Len(a) THEN a[i] ELSE b[i - Len(a)]
            BY <2>4, <2>5, ConcatProperties
        <3>2. Len(a) + Len(b) = 7
            BY <2>4
        <3> QED BY <2>4, <3>1, <3>2
    <2>7. q[6] = b[1] /\ q[7] = b[2]
        <3>1. 6 \in 1 .. 7 /\ 7 \in 1 .. 7 /\ 6 - 5 = 1 /\ 7 - 5 = 2 /\ ~(6 <= 5) /\ ~(7 <= 5)
            OBVIOUS
        <3> QED BY <2>6, <3>1
    <2>8. q[1] = a[1] /\ q[2] = a[2] /\ q[3] = a[3] /\ q[4] = a[4] /\ q[5] = a[5]
        <3>1. /\ 1 \in 1 .. 7 /\ 2 \in 1 .. 7 /\ 3 \in 1 .. 7 /\ 4 \in 1 .. 7 /\ 5 \in 1 .. 7
              /\ 1 <= 5 /\ 2 <= 5 /\ 3 <= 5 /\ 4 <= 5 /\ 5 <= 5
            OBVIOUS
        <3> QED BY <2>6, <3>1
    <2>9. /\ p[1] = q[1] /\ p[2] = q[2] /\ p[3] = q[3] /\ p[4] = q[4] /\ p[5] = q[5]
          /\ p[6] = q[6] /\ p[7] = q[7]
        BY <1>1, <2>4, <2>7, <2>8
    <2>10. p = [i \in 1 .. 7 |-> p[i]] /\ q = [i \in 1 .. 7 |-> q[i]]
        <3>1. p \in Seq(S) /\ Len(p) = 7
            BY <1>1, <2>1
        <3> QED BY <2>6, <3>1
    <2>11. 1 .. 7 = {1, 2, 3, 4, 5, 6, 7}
        OBVIOUS
    <2>12. \A i \in 1 .. 7 : p[i] = q[i]
        BY <2>9, <2>11
    <2>13. q = p
        BY <2>10, <2>12
    <2> QED BY <2>3, <2>5, <2>13
<1>5. Len(p) = 7
    BY <1>1
<1>6. PICK frame : frame = encodeV1(w, <<c>>)
    OBVIOUS
<1>7. PICK tab : tab = [i \in 1 .. 8 |-> 72 + SizeOf(p, i - 1)]
    OBVIOUS
<1>8. frame = [words |-> <<8>> \o tab, bytes |-> <<c, h, x, y, z>>]
    <2>1. FlattenSeq(p) = <<c, h, x, y, z>>
        BY <1>1, BytesOfParts
    <2>2. frame = [words |-> <<Len(p) + 1>>
                      \o [i \in 1 .. Len(p) + 1 |-> 8 * (2 + Len(p)) + SizeOf(p, i - 1)],
                   bytes |-> FlattenSeq(p)]
        BY <1>4, <1>6 DEF encodeV1, Word
    <2>3. Len(p) + 1 = 8 /\ 8 * (2 + Len(p)) = 72
        BY <1>5
    <2> QED BY <1>7, <2>1, <2>2, <2>3
<1>9. tab = [i \in 1 .. 8 |-> 72 + PartsBefore(i - 1)]
    <2>1. \A i \in 1 .. 8 : SizeOf(p, i - 1) = PartsBefore(i - 1)
        BY <1>1, SizeOfParts
    <2> QED BY <1>7, <2>1
<1>10. /\ tab \in Seq(Nat) /\ Len(tab) = 8
       /\ tab[1] = 72 /\ tab[2] = 73 /\ tab[3] = 74 /\ tab[4] = 74 /\ tab[5] = 74
       /\ tab[6] = 76 /\ tab[7] = 77 /\ tab[8] = 77
    BY <1>9 DEF PartsBefore
<1>11. PICK words : words = <<8>> \o tab
    OBVIOUS
<1>12. /\ words \in Seq(Nat) /\ Len(words) = 9 /\ words[1] = 8
       /\ words[2] = 72 /\ words[3] = 73 /\ words[4] = 74 /\ words[5] = 74 /\ words[6] = 74
       /\ words[7] = 76 /\ words[8] = 77 /\ words[9] = 77
    <2>1. <<8>> \in Seq(Nat) /\ Len(<<8>>) = 1 /\ <<8>>[1] = 8
        OBVIOUS
    <2>2. /\ words \in Seq(Nat) /\ Len(words) = 9
          /\ \A i \in 1 .. 9 : words[i] = IF i <= 1 THEN <<8>>[i] ELSE tab[i - 1]
        <3>1. PICK a : a = <<8>>
            OBVIOUS
        <3>2. /\ words \in Seq(Nat) /\ Len(words) = Len(a) + Len(tab)
              /\ \A i \in 1 .. Len(a) + Len(tab) :
                    words[i] = IF i <= Len(a) THEN a[i] ELSE tab[i - Len(a)]
            <4>1. a \in Seq(Nat) /\ tab \in Seq(Nat) /\ words = a \o tab
                BY <1>10, <1>11, <2>1, <3>1
            <4> QED BY <4>1, ConcatProperties
        <3>3. Len(a) + Len(tab) = 9 /\ Len(a) = 1
            BY <1>10, <2>1, <3>1
        <3> QED BY <3>1, <3>2, <3>3
    <2>3. /\ 1 .. 9 = {1, 2, 3, 4, 5, 6, 7, 8, 9} /\ 2 - 1 = 1 /\ 3 - 1 = 2 /\ 4 - 1 = 3
          /\ 5 - 1 = 4 /\ 6 - 1 = 5 /\ 7 - 1 = 6 /\ 8 - 1 = 7 /\ 9 - 1 = 8
          /\ 1 <= 1 /\ ~(2 <= 1) /\ ~(3 <= 1) /\ ~(4 <= 1) /\ ~(5 <= 1) /\ ~(6 <= 1)
          /\ ~(7 <= 1) /\ ~(8 <= 1) /\ ~(9 <= 1)
        OBVIOUS
    <2> QED BY <1>10, <2>1, <2>2, <2>3
<1>13. PICK S : c \in S /\ h \in S /\ x \in S /\ y \in S /\ z \in S
    <2>1. PICK S : S = {c, h, x, y, z}
        OBVIOUS
    <2> QED BY <2>1
<1>14. PICK b : b = <<c, h, x, y, z>>
    OBVIOUS
<1>15. /\ b \in Seq(S) /\ Len(b) = 5
       /\ b[1] = c /\ b[2] = h /\ b[3] = x /\ b[4] = y /\ b[5] = z
    BY <1>13, <1>14
<1>16. frame.words = words /\ frame.bytes = b
    BY <1>8, <1>11, <1>14
<1>160. /\ Len(frame.words) = 9 /\ frame.words[1] = 8 /\ Len(frame.bytes) = 5
        /\ frame.words # <<>> /\ 8 * 9 = 72 /\ 8 + 8 * 8 = 72
    <2>1. words # <<>>
        <3>1. Len(<<>>) = 0 /\ 9 # 0
            OBVIOUS
        <3>2. Len(words) = 9
            BY <1>12
        <3> QED BY <3>1, <3>2
    <2>2. Len(words) = 9 /\ words[1] = 8 /\ Len(b) = 5
        BY <1>12, <1>15
    <2> QED BY <1>16, <2>1, <2>2
<1> DEFINE Offset(i) == frame.words[i + 2] - Word * Len(frame.words)
           Slice(i) == SubSeq(frame.bytes, Offset(i) + 1, Offset(i + 1))
<1>17. /\ Offset(1) = 1 /\ Offset(2) = 2 /\ Offset(3) = 2 /\ Offset(4) = 2
       /\ Offset(5) = 4 /\ Offset(6) = 5 /\ Offset(7) = 5
    <2>1. Word * Len(frame.words) = 72
        BY <1>160 DEF Word
    <2>2. /\ 1 + 2 = 3 /\ 2 + 2 = 4 /\ 3 + 2 = 5 /\ 4 + 2 = 6 /\ 5 + 2 = 7 /\ 6 + 2 = 8
          /\ 7 + 2 = 9
        OBVIOUS
    <2>3. /\ Offset(1) = words[3] - 72 /\ Offset(2) = words[4] - 72 /\ Offset(3) = words[5] - 72
          /\ Offset(4) = words[6] - 72 /\ Offset(5) = words[7] - 72 /\ Offset(6) = words[8] - 72
          /\ Offset(7) = words[9] - 72
        BY <1>16, <2>1, <2>2
    <2> HIDE DEF Offset
    <2> QED BY <1>12, <2>3
<1>18. /\ Slice(1) = SubSeq(b, 2, 2) /\ Slice(2) = SubSeq(b, 3, 2) /\ Slice(3) = SubSeq(b, 3, 2)
       /\ Slice(4) = SubSeq(b, 3, 4) /\ Slice(5) = SubSeq(b, 5, 5) /\ Slice(6) = SubSeq(b, 6, 5)
    <2> HIDE DEF Offset
    <2> QED BY <1>16, <1>17
<1>19. /\ SubSeq(b, 2, 2) = <<h>> /\ SubSeq(b, 3, 2) = <<>> /\ SubSeq(b, 3, 4) = <<x, y>>
       /\ SubSeq(b, 5, 5) = <<z>> /\ SubSeq(b, 6, 5) = <<>>
    <2>1. PICK s1 : s1 = SubSeq(b, 2, 2)
        OBVIOUS
    <2>2. s1 \in Seq(S) /\ Len(s1) = 1 /\ s1[1] = h
        BY <1>15, <2>1
    <2>3. PICK s2 : s2 = SubSeq(b, 3, 4)
        OBVIOUS
    <2>4. s2 \in Seq(S) /\ Len(s2) = 2 /\ s2[1] = x /\ s2[2] = y
        BY <1>15, <2>3, SMTT(30)
    <2>5. PICK s3 : s3 = SubSeq(b, 5, 5)
        OBVIOUS
    <2>6. s3 \in Seq(S) /\ Len(s3) = 1 /\ s3[1] = z
        <3>1. s3 \in Seq(S) /\ Len(s3) = 5 - 5 + 1 /\ \A k \in 1 .. 5 - 5 + 1 : s3[k] = b[5 + k - 1]
            <4>1. 5 \in Int /\ 5 <= 5 /\ 5 .. 5 = {5}
                OBVIOUS
            <4>2. \A i \in 5 .. 5 : b[i] \in S
                BY <1>13, <1>15, <4>1
            <4> QED BY <2>5, <4>1, <4>2, SubSeqProperties
        <3>2. 5 - 5 + 1 = 1 /\ 1 \in 1 .. 1 /\ 5 + 1 - 1 = 5
            OBVIOUS
        <3>3. Len(s3) = 1 /\ s3[1] = b[5]
            BY <3>1, <3>2
        <3> QED BY <1>15, <3>1, <3>3
    <2>7. SubSeq(b, 3, 2) = <<>> /\ SubSeq(b, 6, 5) = <<>>
        BY <1>15
    <2>8. s1 = <<h>> /\ s2 = <<x, y>> /\ s3 = <<z>>
        BY <2>2, <2>4, <2>6
    <2> QED BY <2>1, <2>3, <2>5, <2>7, <2>8
<1>20. ~(frame.words = <<>> \/ FrameSize(frame) < Word + frame.words[1] * Word)
    BY <1>160 DEF FrameSize, Word
<1>21. decodeV1(frame) = {[header |-> Slice(1), parent_header |-> Slice(2), metadata |-> Slice(3),
              content |-> Slice(4), buffers |-> [i \in 1 .. frame.words[1] - 6 |-> Slice(i + 4)]]}
    BY <1>20 DEF decodeV1
<1>22. [i \in 1 .. frame.words[1] - 6 |-> Slice(i + 4)] = <<Slice(5), Slice(6)>>
    <2> HIDE DEF Slice
    <2>1. frame.words[1] - 6 = 2 /\ 1 + 4 = 5 /\ 2 + 4 = 6
        BY <1>12, <1>16
    <2> QED BY <2>1
<1> HIDE DEF Slice
<1> QED
    BY <1>2, <1>3, <1>6, <1>18, <1>19, <1>21, <1>22

-----------------------------------------------------------------------------
(* What subscribers get.                                                   *)

(* What the protocol of the socket, v1 or not, brings of a message.        *)
Brought(v, wire) == IF v THEN wire ELSE [wire EXCEPT !.buffers = <<>>]

LEMMA DecodedIs ==
    ASSUME NEW id, NEW n
    PROVE  Decoded(Nth(id, n)) = {Brought(v1, Nth(id, n).wire)}
<1>1. PICK m : m = Nth(id, n)
    OBVIOUS
<1>2. m.wire = Message(<<"msg">>, <<id, n>>, <<<<n>>, <<>>>>)
    BY <1>1 DEF Nth, Msg
<1>3. decodeDefault(encodeDefault(m.wire)) = {[m.wire EXCEPT !.buffers = <<>>]}
    BY <1>2, CarriedDefault
<1>4. decodeV1(encodeV1(m.wire, <<"iopub">>)) = {m.wire}
    BY <1>2, CarriedV1
<1> QED
    BY <1>1, <1>3, <1>4 DEF Decoded, Brought

LEMMA NthPosition ==
    ASSUME NEW v, NEW id, NEW n
    PROVE  Position(Nth(id, n).wire) = n /\ Position(Brought(v, Nth(id, n).wire)) = n
<1>1. PICK w : w = Nth(id, n).wire
    OBVIOUS
<1>2. w = [header |-> <<"msg">>, parent_header |-> <<>>, metadata |-> <<>>,
           content |-> <<id, n>>, buffers |-> <<<<n>>, <<>>>>]
    BY <1>1 DEF Nth, Msg, Message
<1>3. w.content = <<id, n>> /\ Brought(v, w).content = <<id, n>>
    BY <1>2 DEF Brought
<1> QED
    BY <1>1, <1>3 DEF Position

Mine(m, id) == m.type = "msg" /\ m.id = id

(* What has been told of a comm, t, what is under way, s, and what the     *)
(* kernel has said, n messages.                                            *)
Flow(v, id, t, s, n) ==
    /\ n \in Nat /\ IsSeq(t)
    /\ \A k \in 1 .. Len(t) : \E m \in 1 .. n : t[k] = Brought(v, Nth(id, m).wire)
    /\ \A k, l \in 1 .. Len(t) : k < l => Position(t[k]) < Position(t[l])
    /\ \A i \in 1 .. Len(s) : Mine(s[i], id) => \E m \in 1 .. n : s[i] = Nth(id, m)
    /\ \A i, j \in 1 .. Len(s) :
          Mine(s[i], id) /\ Mine(s[j], id) /\ i < j =>
             Position(s[i].wire) < Position(s[j].wire)
    /\ \A k \in 1 .. Len(t), i \in 1 .. Len(s) :
          Mine(s[i], id) => Position(t[k]) < Position(s[i].wire)

(* Nothing of it is lost.                                                  *)
Whole(v, id, t, s, n) ==
    /\ \A k \in 1 .. Len(t) : t[k] = Brought(v, Nth(id, k).wire)
    /\ \A m \in 1 .. n : m <= Len(t) \/ \E i \in 1 .. Len(s) : s[i] = Nth(id, m)

(* The kernel says its next message of the comm.                           *)
LEMMA FlowSays ==
    ASSUME NEW v, NEW id, NEW t, NEW s, IsSeq(s), NEW n, Flow(v, id, t, s, n), NEW o, o = n + 1
    PROVE  /\ Flow(v, id, t, Append(s, Nth(id, o)), o)
           /\ Whole(v, id, t, s, n) => Whole(v, id, t, Append(s, Nth(id, o)), o)
<1>1. PICK q, e : e = Nth(id, o) /\ q = Append(s, e)
    OBVIOUS
<1>2. /\ Len(s) \in Nat /\ Len(q) = Len(s) + 1 /\ q[Len(s) + 1] = e
      /\ \A i \in 1 .. Len(s) : q[i] = s[i]
    BY <1>1, Appended
<1>3. \A i \in 1 .. Len(q) : i \in 1 .. Len(s) \/ (i = Len(s) + 1 /\ q[i] = e)
    BY <1>2
<1>4. n \in Nat /\ o \in 1 .. o /\ \A m \in 1 .. n : m \in 1 .. o /\ m < o
    BY DEF Flow
<1>5. Position(e.wire) = o
    BY <1>1, NthPosition
<1>6. \A k \in 1 .. Len(t) : Position(t[k]) \in 1 .. n
    <2> SUFFICES ASSUME NEW k \in 1 .. Len(t) PROVE Position(t[k]) \in 1 .. n
        OBVIOUS
    <2>1. PICK m \in 1 .. n : t[k] = Brought(v, Nth(id, m).wire)
        BY DEF Flow
    <2> QED BY <2>1, NthPosition
<1>7. \A i \in 1 .. Len(s) : Mine(s[i], id) => Position(s[i].wire) \in 1 .. n
    <2> SUFFICES ASSUME NEW i \in 1 .. Len(s), Mine(s[i], id)
                 PROVE  Position(s[i].wire) \in 1 .. n
        OBVIOUS
    <2>1. PICK m \in 1 .. n : s[i] = Nth(id, m)
        BY DEF Flow
    <2> QED BY <2>1, NthPosition
<1>8. Flow(v, id, t, q, o)
    <2>1. o \in Nat /\ IsSeq(t)
        BY <1>4 DEF Flow
    <2>2. \A k \in 1 .. Len(t) : \E m \in 1 .. o : t[k] = Brought(v, Nth(id, m).wire)
        BY <1>4 DEF Flow
    <2>3. \A k, l \in 1 .. Len(t) : k < l => Position(t[k]) < Position(t[l])
        BY DEF Flow
    <2>4. \A i \in 1 .. Len(q) : Mine(q[i], id) => \E m \in 1 .. o : q[i] = Nth(id, m)
        BY <1>1, <1>2, <1>3, <1>4 DEF Flow
    <2>5. ASSUME NEW i \in 1 .. Len(q), NEW j \in 1 .. Len(q),
                 Mine(q[i], id), Mine(q[j], id), i < j
          PROVE  Position(q[i].wire) < Position(q[j].wire)
        <3>1. i \in 1 .. Len(s)
            BY <1>2, <2>5
        <3>2. CASE j \in 1 .. Len(s)
            BY <1>2, <2>5, <3>1, <3>2 DEF Flow
        <3>3. CASE q[j] = e
            BY <1>2, <1>4, <1>5, <1>7, <2>5, <3>1, <3>3
        <3> QED BY <1>3, <3>2, <3>3
    <2>6. ASSUME NEW k \in 1 .. Len(t), NEW i \in 1 .. Len(q), Mine(q[i], id)
          PROVE  Position(t[k]) < Position(q[i].wire)
        <3>1. CASE i \in 1 .. Len(s)
            BY <1>2, <2>6, <3>1 DEF Flow
        <3>2. CASE q[i] = e
            BY <1>4, <1>5, <1>6, <3>2
        <3> QED BY <1>3, <3>1, <3>2
    <2> QED BY <2>1, <2>2, <2>3, <2>4, <2>5, <2>6 DEF Flow
<1>9. ASSUME Whole(v, id, t, s, n) PROVE Whole(v, id, t, q, o)
    <2>1. ASSUME NEW m \in 1 .. o
          PROVE  m <= Len(t) \/ \E i \in 1 .. Len(q) : q[i] = Nth(id, m)
        <3>1. CASE m \in 1 .. n
            <4>1. \A i \in 1 .. Len(s) : i \in 1 .. Len(q)
                BY <1>2
            <4> QED BY <1>2, <1>9, <3>1, <4>1 DEF Whole
        <3>2. CASE m = o
            <4>1. Len(s) + 1 \in 1 .. Len(q)
                BY <1>2
            <4> QED BY <1>1, <1>2, <3>2, <4>1
        <3> QED BY <1>4, <3>1, <3>2
    <2> QED BY <1>9, <2>1 DEF Whole
<1> QED
    BY <1>1, <1>8, <1>9

(* It says its next message, which is lost.                                *)
LEMMA FlowMisses ==
    ASSUME NEW v, NEW id, NEW t, NEW s, NEW n, Flow(v, id, t, s, n), NEW o, o = n + 1
    PROVE  Flow(v, id, t, s, o)
<1>1. n \in Nat /\ o \in Nat /\ \A m \in 1 .. n : m \in 1 .. o
    BY DEF Flow
<1> QED
    BY <1>1 DEF Flow

(* It says something else.                                                 *)
LEMMA FlowHears ==
    ASSUME NEW v, NEW id, NEW t, NEW s, IsSeq(s), NEW n, Flow(v, id, t, s, n),
           NEW e, ~Mine(e, id)
    PROVE  /\ Flow(v, id, t, Append(s, e), n)
           /\ Whole(v, id, t, s, n) => Whole(v, id, t, Append(s, e), n)
<1>1. PICK q : q = Append(s, e)
    OBVIOUS
<1>2. /\ Len(s) \in Nat /\ Len(q) = Len(s) + 1 /\ q[Len(s) + 1] = e
      /\ \A i \in 1 .. Len(s) : q[i] = s[i] /\ i \in 1 .. Len(q)
    <2>1. /\ Len(s) \in Nat /\ Len(q) = Len(s) + 1 /\ q[Len(s) + 1] = e
          /\ \A i \in 1 .. Len(s) : q[i] = s[i]
        BY <1>1, Appended
    <2> QED BY <2>1
<1>3. \A i \in 1 .. Len(q) : Mine(q[i], id) => i \in 1 .. Len(s) /\ q[i] = s[i]
    <2>1. \A i \in 1 .. Len(q) : i \in 1 .. Len(s) \/ q[i] = e
        BY <1>2
    <2> QED BY <1>2, <2>1
<1>4. Flow(v, id, t, q, n)
    BY <1>3 DEF Flow
<1>5. Whole(v, id, t, s, n) => Whole(v, id, t, q, n)
    <2> SUFFICES ASSUME Whole(v, id, t, s, n), NEW m \in 1 .. n
                 PROVE  m <= Len(t) \/ \E i \in 1 .. Len(q) : q[i] = Nth(id, m)
        BY DEF Whole
    <2>1. m <= Len(t) \/ \E i \in 1 .. Len(s) : s[i] = Nth(id, m)
        BY DEF Whole
    <2> QED BY <1>2, <2>1
<1> QED
    BY <1>1, <1>4, <1>5

(* What is under way is lost.                                              *)
LEMMA FlowLoses ==
    ASSUME NEW v, NEW id, NEW t, NEW s, NEW n, Flow(v, id, t, s, n)
    PROVE  /\ Flow(v, id, t, <<>>, n)
           /\ Whole(v, id, t, s, n) /\ (\A i \in 1 .. Len(s) : ~Mine(s[i], id))
                 => Whole(v, id, t, <<>>, n)
<1>1. Len(<<>>) = 0 /\ 1 .. 0 = {}
    OBVIOUS
<1>2. Flow(v, id, t, <<>>, n)
    BY <1>1 DEF Flow
<1>3. ASSUME Whole(v, id, t, s, n), \A i \in 1 .. Len(s) : ~Mine(s[i], id)
      PROVE  Whole(v, id, t, <<>>, n)
    <2>1. \A m : Mine(Nth(id, m), id)
        BY NthIs DEF Mine
    <2>2. \A m \in 1 .. n : m <= Len(t)
        BY <1>3, <2>1 DEF Whole
    <2> QED BY <1>3, <2>2 DEF Whole
<1> QED
    BY <1>2, <1>3

(* What waits in the grace queue is dropped.                               *)
LEMMA FlowDrops ==
    ASSUME NEW v, NEW id, NEW g, NEW q, NEW s, NEW n, IsSeq(g), IsSeq(q),
           Flow(v, id, g \o q, s, n)
    PROVE  Flow(v, id, g, s, n)
<1>1. PICK t : t = g \o q
    OBVIOUS
<1>2. \A k \in 1 .. Len(g) : k \in 1 .. Len(t) /\ t[k] = g[k]
    <2>1. PICK S, T : g \in Seq(S) /\ q \in Seq(T)
        BY DEF IsSeq
    <2>2. g \in Seq(S \cup T) /\ q \in Seq(S \cup T)
        BY <2>1
    <2> QED BY <1>1, <2>2, ConcatProperties
<1>3. Flow(v, id, t, s, n)
    BY <1>1
<1> QED
    BY <1>2, <1>3 DEF Flow

(* Where the rest of a sequence comes from when an element is removed.     *)
From(at, s, i, q) ==
    /\ \A k \in 1 .. Len(q) : at[k] \in 1 .. Len(s) /\ at[k] # i /\ q[k] = s[at[k]]
    /\ \A k, l \in 1 .. Len(q) : k < l => at[k] < at[l]
    /\ \A j \in 1 .. Len(s) : j # i => \E k \in 1 .. Len(q) : at[k] = j

LEMMA RemovedFrom ==
    ASSUME NEW s, IsSeq(s), NEW i \in 1 .. Len(s)
    PROVE  \E at : From(at, s, i, RemoveAt(s, i))
<1>1. PICK q : q = RemoveAt(s, i)
    OBVIOUS
<1>2. /\ Len(s) \in Nat /\ Len(q) = Len(s) - 1
      /\ \A k \in 1 .. Len(s) - 1 : q[k] = IF k < i THEN s[k] ELSE s[k + 1]
    BY <1>1, Removed
<1>3. PICK at : at = [k \in 1 .. Len(q) |-> IF k < i THEN k ELSE k + 1]
    OBVIOUS
<1>4. \A k \in 1 .. Len(q) : at[k] \in 1 .. Len(s) /\ at[k] # i /\ q[k] = s[at[k]]
    <2> SUFFICES ASSUME NEW k \in 1 .. Len(q)
                 PROVE  at[k] \in 1 .. Len(s) /\ at[k] # i /\ q[k] = s[at[k]]
        OBVIOUS
    <2>1. CASE k < i
        BY <1>2, <1>3, <2>1
    <2>2. CASE ~(k < i)
        BY <1>2, <1>3, <2>2
    <2> QED BY <2>1, <2>2
<1>5. \A k, l \in 1 .. Len(q) : k < l => at[k] < at[l]
    BY <1>2, <1>3
<1>6. ASSUME NEW j \in 1 .. Len(s), j # i PROVE \E k \in 1 .. Len(q) : at[k] = j
    <2>1. CASE j < i
        BY <1>2, <1>3, <2>1
    <2>2. CASE j > i
        <3>1. j - 1 \in 1 .. Len(q) /\ ~(j - 1 < i) /\ j - 1 + 1 = j
            BY <1>2, <2>2
        <3>2. at[j - 1] = j
            BY <1>3, <3>1
        <3> QED BY <3>1, <3>2
    <2> QED BY <1>2, <1>6, <2>1, <2>2
<1> QED
    BY <1>1, <1>4, <1>5, <1>6 DEF From

(* A message of another comm, or of another type, arrives.                 *)
LEMMA FlowSkips ==
    ASSUME NEW v, NEW id, NEW t, NEW s, IsSeq(s), NEW n, Flow(v, id, t, s, n),
           NEW i \in 1 .. Len(s), ~Mine(s[i], id)
    PROVE  /\ Flow(v, id, t, RemoveAt(s, i), n)
           /\ Whole(v, id, t, s, n) => Whole(v, id, t, RemoveAt(s, i), n)
<1>1. PICK q : q = RemoveAt(s, i)
    OBVIOUS
<1>0. PICK at : From(at, s, i, q)
    BY <1>1, RemovedFrom
<1>2. /\ \A k \in 1 .. Len(q) : at[k] \in 1 .. Len(s) /\ at[k] # i /\ q[k] = s[at[k]]
      /\ \A k, l \in 1 .. Len(q) : k < l => at[k] < at[l]
      /\ \A j \in 1 .. Len(s) : j # i => \E k \in 1 .. Len(q) : at[k] = j
    BY <1>0 DEF From
<1>3. Flow(v, id, t, q, n)
    <2>1. /\ n \in Nat /\ IsSeq(t)
          /\ \A k \in 1 .. Len(t) : \E m \in 1 .. n : t[k] = Brought(v, Nth(id, m).wire)
          /\ \A k, l \in 1 .. Len(t) : k < l => Position(t[k]) < Position(t[l])
        BY DEF Flow
    <2>2. ASSUME NEW k \in 1 .. Len(q), Mine(q[k], id)
          PROVE  \E m \in 1 .. n : q[k] = Nth(id, m)
        <3>1. at[k] \in 1 .. Len(s) /\ q[k] = s[at[k]]
            BY <1>2
        <3>2. PICK j \in 1 .. Len(s) : q[k] = s[j]
            BY <3>1
        <3> QED BY <2>2, <3>2 DEF Flow
    <2>3. ASSUME NEW k \in 1 .. Len(q), NEW l \in 1 .. Len(q),
                 Mine(q[k], id), Mine(q[l], id), k < l
          PROVE  Position(q[k].wire) < Position(q[l].wire)
        <3>1. PICK j \in 1 .. Len(s) : j = at[k] /\ q[k] = s[j]
            BY <1>2
        <3>2. PICK h \in 1 .. Len(s) : h = at[l] /\ q[l] = s[h]
            BY <1>2
        <3>3. j < h
            BY <1>2, <2>3, <3>1, <3>2
        <3> QED BY <2>3, <3>1, <3>2, <3>3 DEF Flow
    <2>4. ASSUME NEW k \in 1 .. Len(t), NEW l \in 1 .. Len(q), Mine(q[l], id)
          PROVE  Position(t[k]) < Position(q[l].wire)
        <3>1. PICK j \in 1 .. Len(s) : q[l] = s[j]
            BY <1>2
        <3> QED BY <2>4, <3>1 DEF Flow
    <2> QED BY <2>1, <2>2, <2>3, <2>4 DEF Flow
<1>4. Whole(v, id, t, s, n) => Whole(v, id, t, q, n)
    <2> SUFFICES ASSUME Whole(v, id, t, s, n), NEW m \in 1 .. n
                 PROVE  m <= Len(t) \/ \E k \in 1 .. Len(q) : q[k] = Nth(id, m)
        BY DEF Whole
    <2>1. m <= Len(t) \/ \E j \in 1 .. Len(s) : s[j] = Nth(id, m)
        BY DEF Whole
    <2>2. Mine(Nth(id, m), id)
        BY NthIs DEF Mine
    <2>3. ASSUME NEW j \in 1 .. Len(s), s[j] = Nth(id, m)
          PROVE  \E k \in 1 .. Len(q) : q[k] = Nth(id, m)
        <3>1. j # i
            BY <2>2, <2>3
        <3>2. PICK k \in 1 .. Len(q) : at[k] = j
            BY <1>2, <3>1
        <3>3. q[k] = s[j]
            BY <1>2, <3>2
        <3> QED BY <2>3, <3>3
    <2> QED BY <2>1, <2>3
<1> QED
    BY <1>1, <1>3, <1>4

(* The next message of the comm arrives: none of them is before it.        *)
LEMMA FlowTakes ==
    ASSUME NEW v, NEW id, NEW t, NEW s, IsSeq(s), NEW n, Flow(v, id, t, s, n),
           NEW i \in 1 .. Len(s), Mine(s[i], id), \A j \in 1 .. i - 1 : ~Mine(s[j], id),
           NEW e, e = Brought(v, s[i].wire)
    PROVE  /\ Flow(v, id, Append(t, e), RemoveAt(s, i), n)
           /\ Whole(v, id, t, s, n) => Whole(v, id, Append(t, e), RemoveAt(s, i), n)
<1>1. PICK q, u : q = RemoveAt(s, i) /\ u = Append(t, e)
    OBVIOUS
<1>0. PICK at : From(at, s, i, q)
    BY <1>1, RemovedFrom
<1>2. /\ \A k \in 1 .. Len(q) : at[k] \in 1 .. Len(s) /\ at[k] # i /\ q[k] = s[at[k]]
      /\ \A k, l \in 1 .. Len(q) : k < l => at[k] < at[l]
      /\ \A j \in 1 .. Len(s) : j # i => \E k \in 1 .. Len(q) : at[k] = j
    BY <1>0 DEF From
<1>3. PICK o \in 1 .. n : s[i] = Nth(id, o)
    BY DEF Flow
<1>4. e = Brought(v, Nth(id, o).wire) /\ Position(e) = o /\ Position(s[i].wire) = o
    BY <1>3, NthPosition
<1>5. /\ IsSeq(u) /\ Len(t) \in Nat /\ Len(u) = Len(t) + 1 /\ u[Len(t) + 1] = e
      /\ \A k \in 1 .. Len(t) : u[k] = t[k]
    BY <1>1, Appended DEF Flow
<1>6. \A k \in 1 .. Len(u) : k \in 1 .. Len(t) \/ (k = Len(t) + 1 /\ u[k] = e)
    BY <1>5
<1>7. \A k \in 1 .. Len(q) : Mine(q[k], id) => at[k] > i
    <2> SUFFICES ASSUME NEW k \in 1 .. Len(q), Mine(q[k], id) PROVE at[k] > i
        OBVIOUS
    <2>1. PICK j \in 1 .. Len(s) : j = at[k] /\ j # i /\ q[k] = s[j]
        BY <1>2
    <2>2. ~(j < i)
        <3> SUFFICES ASSUME j < i PROVE FALSE
            OBVIOUS
        <3>1. j \in 1 .. i - 1
            OBVIOUS
        <3> QED BY <2>1, <3>1
    <2> QED BY <2>1, <2>2
<1>8. \A j \in 1 .. Len(s) : Mine(s[j], id) /\ j > i => o < Position(s[j].wire)
    BY <1>4 DEF Flow
<1>9. Flow(v, id, u, q, n)
    <2>1. n \in Nat
        BY DEF Flow
    <2>2. \A k \in 1 .. Len(u) : \E m \in 1 .. n : u[k] = Brought(v, Nth(id, m).wire)
        BY <1>4, <1>5, <1>6 DEF Flow
    <2>3. ASSUME NEW k \in 1 .. Len(u), NEW l \in 1 .. Len(u), k < l
          PROVE  Position(u[k]) < Position(u[l])
        <3>1. k \in 1 .. Len(t)
            BY <1>5, <2>3
        <3>2. CASE l \in 1 .. Len(t)
            BY <1>5, <2>3, <3>1, <3>2 DEF Flow
        <3>3. CASE u[l] = e
            BY <1>4, <1>5, <3>1, <3>3 DEF Flow
        <3> QED BY <1>6, <3>2, <3>3
    <2>4. ASSUME NEW k \in 1 .. Len(q), Mine(q[k], id)
          PROVE  \E m \in 1 .. n : q[k] = Nth(id, m)
        <3>1. PICK j \in 1 .. Len(s) : q[k] = s[j]
            BY <1>2
        <3> QED BY <2>4, <3>1 DEF Flow
    <2>5. ASSUME NEW k \in 1 .. Len(q), NEW l \in 1 .. Len(q),
                 Mine(q[k], id), Mine(q[l], id), k < l
          PROVE  Position(q[k].wire) < Position(q[l].wire)
        <3>1. PICK j \in 1 .. Len(s) : j = at[k] /\ q[k] = s[j]
            BY <1>2
        <3>2. PICK h \in 1 .. Len(s) : h = at[l] /\ q[l] = s[h]
            BY <1>2
        <3>3. j < h
            BY <1>2, <2>5, <3>1, <3>2
        <3> QED BY <2>5, <3>1, <3>2, <3>3 DEF Flow
    <2>6. ASSUME NEW k \in 1 .. Len(u), NEW l \in 1 .. Len(q), Mine(q[l], id)
          PROVE  Position(u[k]) < Position(q[l].wire)
        <3>1. at[l] \in 1 .. Len(s) /\ q[l] = s[at[l]] /\ at[l] > i
            BY <1>2, <1>7, <2>6
        <3>2. CASE k \in 1 .. Len(t)
            BY <1>5, <2>6, <3>1, <3>2 DEF Flow
        <3>3. CASE u[k] = e
            BY <1>4, <1>8, <2>6, <3>1, <3>3
        <3> QED BY <1>6, <3>2, <3>3
    <2> QED BY <1>5, <2>1, <2>2, <2>3, <2>4, <2>5, <2>6 DEF Flow
<1>10. ASSUME Whole(v, id, t, s, n) PROVE Whole(v, id, u, q, n)
    <2>1. \A k \in 1 .. Len(t) : t[k] = Brought(v, Nth(id, k).wire) /\ Position(t[k]) = k
        <3> SUFFICES ASSUME NEW k \in 1 .. Len(t)
                     PROVE  t[k] = Brought(v, Nth(id, k).wire) /\ Position(t[k]) = k
            OBVIOUS
        <3>1. t[k] = Brought(v, Nth(id, k).wire)
            BY <1>10 DEF Whole
        <3>2. Position(Brought(v, Nth(id, k).wire)) = k
            BY NthPosition
        <3> QED BY <3>1, <3>2
    <2>2. \A k \in 1 .. Len(t) : k < o
        BY <1>4, <2>1 DEF Flow
    <2>3. o = Len(t) + 1
        <3>1. n \in Nat /\ o \in 1 .. n /\ o > Len(t)
            <4>1. n \in Nat
                BY DEF Flow
            <4>2. CASE Len(t) = 0
                BY <4>1, <4>2
            <4>3. CASE Len(t) # 0
                <5>1. Len(t) \in 1 .. Len(t)
                    BY <1>5, <4>3
                <5> QED BY <2>2, <4>1, <5>1
            <4> QED BY <4>2, <4>3
        <3>2. PICK m : m = Len(t) + 1
            OBVIOUS
        <3>3. m \in 1 .. n /\ ~(m <= Len(t)) /\ m <= o
            BY <1>5, <3>1, <3>2
        <3>4. PICK j \in 1 .. Len(s) : s[j] = Nth(id, m)
            BY <1>10, <3>3 DEF Whole
        <3>5. Mine(s[j], id) /\ Position(s[j].wire) = m
            BY <3>4, NthIs, NthPosition DEF Mine
        <3>6. ~(j < i)
            BY <3>5
        <3>7. ~(j > i)
            BY <1>8, <3>1, <3>3, <3>5
        <3>8. j = i
            BY <3>6, <3>7
        <3> QED BY <1>4, <3>2, <3>5, <3>8
    <2>4. \A k \in 1 .. Len(u) : u[k] = Brought(v, Nth(id, k).wire)
        BY <1>4, <1>5, <1>6, <2>1, <2>3
    <2>5. ASSUME NEW m \in 1 .. n
          PROVE  m <= Len(u) \/ \E k \in 1 .. Len(q) : q[k] = Nth(id, m)
        <3>1. CASE m <= Len(t)
            BY <1>5, <3>1
        <3>2. CASE ~(m <= Len(t))
            <4>1. PICK j \in 1 .. Len(s) : s[j] = Nth(id, m)
                BY <1>10, <3>2 DEF Whole
            <4>2. CASE j = i
                <5>1. m = o
                    BY <1>4, <4>1, <4>2, NthPosition
                <5> QED BY <1>5, <2>3, <5>1
            <4>3. CASE j # i
                <5>1. PICK k \in 1 .. Len(q) : at[k] = j
                    BY <1>2, <4>3
                <5>2. q[k] = s[j]
                    BY <1>2, <5>1
                <5> QED BY <4>1, <5>2
            <4> QED BY <4>2, <4>3
        <3> QED BY <3>1, <3>2
    <2> QED BY <2>4, <2>5 DEF Whole
<1> QED
    BY <1>1, <1>9, <1>10

LEMMA Joined ==
    ASSUME NEW g, NEW q, NEW e, IsSeq(g), IsSeq(q)
    PROVE  /\ g \o <<>> = g /\ <<>> \o q = q /\ Append(g, e) \o <<>> = Append(g, e)
           /\ g \o Append(q, e) = Append(g \o q, e) /\ IsSeq(g \o q)
           /\ g \o <<e>> = Append(g, e)
<1>1. PICK S, T : g \in Seq(S) /\ q \in Seq(T)
    BY DEF IsSeq
<1>2. PICK U : U = S \cup T \cup {e}
    OBVIOUS
<1>3. g \in Seq(U) /\ q \in Seq(U) /\ e \in U
    BY <1>1, <1>2
<1>4. Append(g, e) \in Seq(U) /\ g \o q \in Seq(U) /\ <<e>> \in Seq(U)
    BY <1>3, AppendProperties, ConcatProperties
<1>5. g \o <<>> = g /\ <<>> \o q = q /\ Append(g, e) \o <<>> = Append(g, e)
    BY <1>3, <1>4, ConcatEmptySeq
<1>6. g \o <<e>> = Append(g, e)
    BY <1>3, <1>4
<1>7. g \o Append(q, e) = Append(g \o q, e)
    BY <1>3, <1>4
<1>8. IsSeq(g \o q)
    BY <1>4 DEF IsSeq
<1> QED
    BY <1>5, <1>6, <1>7, <1>8

-----------------------------------------------------------------------------
(* The invariant of what is told.                                          *)

(* What waits for the comm_open.                                           *)
Aside(id) == IF id \in DOMAIN grace THEN grace[id] ELSE <<>>

Queues ==
    /\ grace = [id \in DOMAIN grace |-> grace[id]] /\ DOMAIN grace \subseteq used \ registry
    /\ \A id \in Ids : IsSeq(handle[id].got) /\ IsSeq(Aside(id))

(* A comm without a handle, or whose comm_open was refused, gives nothing. *)
Untold ==
    \A id \in Ids : handle[id].state = "none" \/ Refused(id) => handle[id].got = <<>>

Good(v, id, t, s, n, gap) ==
    Flow(v, id, t, s, n) /\ (~gap => Whole(v, id, t, s, n))

Flows ==
    /\ said = [id \in Ids |-> said[id]]
    /\ \A id \in Ids : Good(v1, id, Told(id), inbound, said[id], id \in gaps)

OInv == SInv /\ Queues /\ Untold /\ Flows

LEMMA ToldIs == \A id : Told(id) = handle[id].got \o Aside(id)
BY DEF Told, Aside

(* _fireOnClose keeps what the subscribers have got.                       *)
LEMMA FireKeepsGot ==
    ASSUME NEW h, IsHandle(h)
    PROVE  FireOnClose(h).got = h.got
<1>1. PICK state, got, closes : h = [state |-> state, got |-> got, closes |-> closes]
    BY DEF IsHandle
<1>2. CASE state = "closed"
    BY <1>1, <1>2 DEF FireOnClose
<1>3. CASE state # "closed"
    <2>1. FireOnClose(h) = [state |-> "closed", got |-> got, closes |-> closes + 1]
        BY <1>1, <1>3 DEF FireOnClose
    <2> QED BY <1>1, <2>1
<1> QED
    BY <1>2, <1>3

(* Handles that give nothing, and queues that stay.                        *)
Steady ==
    /\ grace' = grace /\ used \subseteq used'
    /\ \A id \in registry' : id \in registry \/ id \notin used
    /\ \A id \in Ids :
          /\ handle'[id].got = handle[id].got
          /\ handle'[id].state = "none" => handle[id].state = "none" \/ Refused(id)
          /\ Refused(id)' => Refused(id) \/ handle[id].state = "none"

LEMMA SteadyKeeps ==
    ASSUME OInv, Steady
    PROVE  Queues' /\ Untold' /\ \A id \in Ids : Told(id)' = Told(id)
<1> USE DEF OInv, Steady
<1>1. \A id \in Ids : Aside(id)' = Aside(id) /\ handle'[id].got = handle[id].got
    BY DEF Aside
<1>2. Queues'
    BY <1>1 DEF Queues
<1>3. Untold'
    BY DEF Untold
<1>4. ASSUME NEW id \in Ids PROVE Told(id)' = Told(id)
    BY <1>1, ToldIs DEF Told, Aside
<1> QED
    BY <1>2, <1>3, <1>4

(* Queues that are dropped.                                                *)
LEMMA DropKeeps ==
    ASSUME OInv, NEW D, D \subseteq DOMAIN grace, grace' = [i \in D |-> grace[i]],
           used' = used, tasks' = tasks, registry' \subseteq registry,
           DOMAIN grace \ D \subseteq gaps',
           \A id \in Ids : /\ handle'[id].got = handle[id].got
                           /\ handle'[id].state = "none" => handle[id].state = "none"
    PROVE  /\ Queues' /\ Untold'
           /\ \A id \in Ids : \/ Told(id)' = Told(id)
                              \/ Told(id)' = handle[id].got /\ id \in gaps'
<1> USE DEF OInv
<1>1. \A id \in Ids : IsSeq(handle[id].got) /\ IsSeq(Aside(id))
    BY DEF Queues
<1>2. \A id \in Ids : \/ Aside(id)' = Aside(id)
                      \/ Aside(id)' = <<>> /\ id \in gaps'
    BY DEF Aside
<1>3. IsSeq(<<>>)
    BY DEF IsSeq
<1>4. Queues'
    BY <1>1, <1>2, <1>3 DEF Queues
<1>5. Untold'
    BY DEF Untold, Refused
<1>6. ASSUME NEW id \in Ids
      PROVE  Told(id)' = Told(id) \/ (Told(id)' = handle[id].got /\ id \in gaps')
    <2>1. Told(id)' = handle[id].got \o Aside(id)'
        BY DEF Told, Aside
    <2>2. handle[id].got \o <<>> = handle[id].got
        BY <1>1, Joined
    <2> QED BY <1>2, <2>1, <2>2, ToldIs
<1> QED
    BY <1>4, <1>5, <1>6

(* What is under way stays, or is lost.                                    *)
LEMMA FlowsLose ==
    ASSUME OInv, v1' = v1, said' = said, gaps \subseteq gaps',
           \A id \in Ids : \/ Told(id)' = Told(id)
                           \/ Told(id)' = handle[id].got /\ id \in gaps',
           \/ inbound' = inbound
           \/ /\ inbound' = <<>>
              /\ \A i \in 1 .. Len(inbound) :
                    inbound[i].type = "msg" => inbound[i].id \in gaps'
    PROVE  Flows'
<1> USE DEF OInv
<1>1. ASSUME NEW id \in Ids
      PROVE  Good(v1', id, Told(id)', inbound', said'[id], id \in gaps')
    <2>1. PICK t, u, s, n : t = Told(id) /\ u = Told(id)' /\ s = inbound /\ n = said[id]
        OBVIOUS
    <2>2. Flow(v1, id, t, s, n) /\ (id \notin gaps => Whole(v1, id, t, s, n))
        BY <2>1 DEF Flows, Good
    <2>3. Flow(v1, id, u, s, n) /\ (id \notin gaps' => u = t)
        <3>1. CASE u = t
            BY <2>2, <3>1
        <3>2. CASE u = handle[id].got /\ id \in gaps'
            <4>1. IsSeq(handle[id].got) /\ IsSeq(Aside(id)) /\ t = handle[id].got \o Aside(id)
                BY <2>1, ToldIs DEF Queues
            <4> QED BY <2>2, <3>2, <4>1, FlowDrops
        <3> QED BY <2>1, <3>1, <3>2
    <2>4. CASE inbound' = inbound
        BY <2>1, <2>2, <2>3, <2>4 DEF Good
    <2>5. CASE /\ inbound' = <<>>
               /\ \A i \in 1 .. Len(inbound) :
                     inbound[i].type = "msg" => inbound[i].id \in gaps'
        <3>1. id \notin gaps' => \A i \in 1 .. Len(s) : ~Mine(s[i], id)
            BY <2>1, <2>5 DEF Mine
        <3>2. Flow(v1, id, u, <<>>, n)
            BY <2>3, FlowLoses
        <3>3. id \notin gaps' => Whole(v1, id, u, <<>>, n)
            BY <2>2, <2>3, <3>1, FlowLoses
        <3> QED BY <2>1, <2>5, <3>2, <3>3 DEF Good
    <2> QED BY <2>4, <2>5
<1>2. said' = [id \in Ids |-> said'[id]]
    BY DEF Flows
<1> QED
    BY <1>1, <1>2 DEF Flows

(* Discard says what is lost.                                              *)
LEMMA Discarded ==
    ASSUME OInv, NEW dropped, Discard(dropped)
    PROVE  /\ inbound' = <<>> /\ gaps \subseteq gaps' /\ dropped \subseteq gaps'
           /\ \A i \in 1 .. Len(inbound) :
                 inbound[i].type = "msg" => inbound[i].id \in gaps'
<1>1. DOMAIN inbound = 1 .. Len(inbound)
    BY DEF OInv, SInv, IInv, Shapes, IsSeq
<1> QED
    BY <1>1 DEF Discard

-----------------------------------------------------------------------------
(* The steps.                                                              *)

(* The kernel says something that is not a comm_msg.                       *)
LEMMA SaysOther ==
    ASSUME OInv, NEW type, type # "msg", NEW i, NEW n, NEW buffers,
           KernelSays(Msg(type, i, n, buffers)), v1' = v1, said' = said,
           \A id \in Ids : Told(id)' = Told(id)
    PROVE  Flows'
<1> USE DEF OInv
<1>1. PICK m : m = Msg(type, i, n, buffers)
    OBVIOUS
<1>2. m.type # "msg" /\ KernelSays(m)
    BY <1>1, MsgIs
<1>3. CASE ~Heard
    <2>1. inbound' = inbound /\ gaps' = gaps
        BY <1>2, <1>3 DEF KernelSays
    <2> QED BY <2>1, FlowsLose
<1>4. CASE Heard
    <2>1. inbound' = Append(inbound, m) /\ gaps' = gaps /\ IsSeq(inbound)
        BY <1>2, <1>4 DEF KernelSays, SInv, IInv, Shapes
    <2>2. ASSUME NEW id \in Ids
          PROVE  Good(v1', id, Told(id)', inbound', said'[id], id \in gaps')
        <3>1. PICK t, s, o : t = Told(id) /\ s = inbound /\ o = said[id]
            OBVIOUS
        <3>2. Flow(v1, id, t, s, o) /\ (id \notin gaps => Whole(v1, id, t, s, o))
            BY <3>1 DEF Flows, Good
        <3>3. ~Mine(m, id)
            BY <1>2 DEF Mine
        <3>4. /\ Flow(v1, id, t, Append(s, m), o)
              /\ id \notin gaps => Whole(v1, id, t, Append(s, m), o)
            BY <2>1, <3>1, <3>2, <3>3, FlowHears
        <3> QED BY <2>1, <3>1, <3>4 DEF Good
    <2>3. said' = [id \in Ids |-> said'[id]]
        BY DEF Flows
    <2> QED BY <2>2, <2>3 DEF Flows
<1> QED
    BY <1>3, <1>4

(* The kernel speaks on a comm.                                            *)
LEMMA SpeaksKept ==
    ASSUME OInv, NEW c \in Ids, KernelSends(c)
    PROVE  Queues' /\ Untold' /\ Flows'
<1> USE DEF OInv
<1>1. /\ v1' = v1 /\ UNCHANGED <<registry, handle, grace, used, tasks>>
      /\ said' = [said EXCEPT ![c] = @ + 1] /\ KernelSays(Nth(c, said[c] + 1))
    BY DEF KernelSends, comms, flow
<1>2. Steady
    BY <1>1 DEF Steady, Refused
<1>3. Queues' /\ Untold' /\ \A id \in Ids : Told(id)' = Told(id)
    BY <1>2, SteadyKeeps
<1>4. PICK n, o : n = said[c] /\ o = n + 1
    OBVIOUS
<1>5. PICK m : m = Nth(c, o)
    OBVIOUS
<1>6. m.type = "msg" /\ m.id = c /\ KernelSays(m)
    BY <1>1, <1>4, <1>5, NthIs
<1>7. /\ said' = [id \in Ids |-> said'[id]] /\ said'[c] = o
      /\ \A id \in Ids \ {c} : said'[id] = said[id]
    BY <1>1, <1>4 DEF Flows
<1>8. IsSeq(inbound)
    BY DEF SInv, IInv, Shapes
<1>9. ASSUME NEW id \in Ids
      PROVE  Good(v1', id, Told(id)', inbound', said'[id], id \in gaps')
    <2>1. PICK t, s, k : t = Told(id) /\ s = inbound /\ k = said[id]
        OBVIOUS
    <2>2. Flow(v1, id, t, s, k) /\ (id \notin gaps => Whole(v1, id, t, s, k))
        BY <2>1 DEF Flows, Good
    <2>3. CASE Heard
        <3>1. inbound' = Append(s, m) /\ gaps' = gaps
            BY <1>6, <2>1, <2>3 DEF KernelSays
        <3>2. CASE id = c
            <4>1. Flow(v1, c, t, s, n)
                BY <1>4, <2>1, <2>2, <3>2
            <4>2. /\ Flow(v1, c, t, Append(s, Nth(c, o)), o)
                  /\ Whole(v1, c, t, s, n) => Whole(v1, c, t, Append(s, Nth(c, o)), o)
                BY <1>4, <1>8, <2>1, <4>1, FlowSays
            <4> QED BY <1>1, <1>3, <1>4, <1>5, <1>7, <2>1, <2>2, <3>1, <3>2, <4>2 DEF Good
        <3>3. CASE id # c
            <4>1. ~Mine(m, id)
                BY <1>6, <3>3 DEF Mine
            <4>2. /\ Flow(v1, id, t, Append(s, m), k)
                  /\ Whole(v1, id, t, s, k) => Whole(v1, id, t, Append(s, m), k)
                BY <1>8, <2>1, <2>2, <4>1, FlowHears
            <4> QED BY <1>1, <1>3, <1>7, <2>1, <2>2, <3>1, <3>3, <4>2 DEF Good
        <3> QED BY <3>2, <3>3
    <2>4. CASE ~Heard
        <3>1. inbound' = s /\ gaps' = gaps \cup {c}
            BY <1>6, <2>1, <2>4 DEF KernelSays
        <3>2. CASE id = c
            <4>1. Flow(v1, c, t, s, o)
                BY <1>4, <2>1, <2>2, <3>2, FlowMisses
            <4> QED BY <1>1, <1>3, <1>7, <2>1, <3>1, <3>2, <4>1 DEF Good
        <3>3. CASE id # c
            BY <1>1, <1>3, <1>7, <2>1, <2>2, <3>1, <3>3 DEF Good
        <3> QED BY <3>2, <3>3
    <2> QED BY <2>3, <2>4
<1> QED
    BY <1>3, <1>7, <1>9 DEF Flows

(* The kernel, and what leaves handles and queues alone.                   *)
LEMMA KernelKept ==
    ASSUME OInv, \/ \E id \in KernelIds : KernelOpens(id)
                 \/ \E id \in Ids : KernelCloses(id)
                 \/ KernelReads
    PROVE  Queues' /\ Untold' /\ Flows'
<1> USE DEF OInv
<1>1. /\ v1' = v1 /\ said' = said /\ UNCHANGED <<registry, handle, grace, tasks>>
      /\ used \subseteq used'
    BY DEF KernelOpens, KernelCloses, KernelReads, comms, flow
<1>2. Steady
    BY <1>1 DEF Steady, Refused
<1>3. Queues' /\ Untold' /\ \A id \in Ids : Told(id)' = Told(id)
    BY <1>2, SteadyKeeps
<1>4. \/ inbound' = inbound /\ gaps' = gaps
      \/ \E id : KernelSays(Msg("open", id, 0, <<>>)) \/ KernelSays(Msg("close", id, 0, <<>>))
    BY DEF KernelOpens, KernelCloses, KernelReads
<1>5. CASE inbound' = inbound /\ gaps' = gaps
    BY <1>1, <1>3, <1>5, FlowsLose
<1>6. ASSUME NEW id, KernelSays(Msg("open", id, 0, <<>>)) PROVE Flows'
    <2>1. "open" # "msg"
        OBVIOUS
    <2> QED BY <1>1, <1>3, <1>6, <2>1, SaysOther
<1>7. ASSUME NEW id, KernelSays(Msg("close", id, 0, <<>>)) PROVE Flows'
    <2>1. "close" # "msg"
        OBVIOUS
    <2> QED BY <1>1, <1>3, <1>7, <2>1, SaysOther
<1> QED
    BY <1>3, <1>4, <1>5, <1>6, <1>7

LEMMA QuietKept ==
    ASSUME OInv, \/ \E id \in Ids : Send(id)
                 \/ Register \/ Reconnect \/ GivesUp \/ RestartBegins \/ RestartRefused
                 \/ Disconnect \/ RestartTimesOut \/ RestartReopens \/ RestartBreaks \/ Shutdown
    PROVE  Queues' /\ Untold' /\ Flows'
<1> USE DEF OInv
<1>1. /\ v1' = v1 /\ said' = said /\ UNCHANGED <<registry, handle, grace, tasks, used>>
    BY DEF Send, Register, Reconnect, GivesUp, RestartBegins, RestartRefused, Disconnect,
           RestartTimesOut, RestartReopens, RestartBreaks, Shutdown, comms, flow, wires, kernelSide
<1>2. Steady
    BY <1>1 DEF Steady, Refused
<1>3. Queues' /\ Untold' /\ \A id \in Ids : Told(id)' = Told(id)
    BY <1>2, SteadyKeeps
<1>4. \/ inbound' = inbound /\ gaps' = gaps
      \/ Discard({})
    <2>1. CASE \/ \E id \in Ids : Send(id)
               \/ Register \/ Reconnect \/ GivesUp \/ RestartBegins \/ RestartRefused
        BY <2>1 DEF Send, Register, Reconnect, GivesUp, RestartBegins, RestartRefused, wires, aux
    <2>2. CASE Disconnect \/ RestartTimesOut \/ RestartReopens \/ RestartBreaks \/ Shutdown
        BY <2>2 DEF Disconnect, RestartTimesOut, RestartReopens, RestartBreaks, Shutdown
    <2> QED BY <2>1, <2>2
<1>5. CASE inbound' = inbound /\ gaps' = gaps
    BY <1>1, <1>3, <1>5, FlowsLose
<1>6. CASE Discard({})
    BY <1>1, <1>3, <1>6, Discarded, FlowsLose
<1> QED
    BY <1>3, <1>4, <1>5, <1>6

(* What leaves the wire alone, and the messages with it.                   *)
LEMMA SteadyKept ==
    ASSUME OInv, Steady, v1' = v1, said' = said, inbound' = inbound, gaps' = gaps
    PROVE  Queues' /\ Untold' /\ Flows'
<1>1. Queues' /\ Untold' /\ \A id \in Ids : Told(id)' = Told(id)
    BY SteadyKeeps
<1> QED
    BY <1>1, FlowsLose

(* A handle is closed, by itself or by a restart that succeeds.            *)
LEMMA CloseKept ==
    ASSUME OInv, (\E id \in Ids : Close(id)) \/ CloseReturns \/ RestartSucceeds
    PROVE  Queues' /\ Untold' /\ Flows'
<1> USE DEF OInv
<1>1. /\ v1' = v1 /\ said' = said /\ inbound' = inbound /\ gaps' = gaps
      /\ used' = used /\ grace' = grace /\ registry' \subseteq registry
    BY DEF Close, CloseReturns, RestartSucceeds, kernelSide, wires, aux
<1>2. \A i \in Ids : Refused(i)' => Refused(i)
    <2>1. ASSUME NEW id \in Ids, Close(id) PROVE \A i \in Ids : ~Refused(i)'
        <3>1. PICK t : t = [call |-> "close", id |-> id, ok |-> Sendable(<<>>)]
            OBVIOUS
        <3>2. tasks' = <<t>>
            BY <2>1, <3>1 DEF Close
        <3>3. Len(tasks') = 1 /\ tasks'[1] = t /\ 1 .. 1 = {1} /\ t.call # "open"
            BY <3>1, <3>2
        <3> QED BY <3>3 DEF Refused
    <2>2. ASSUME CloseReturns PROVE \A i \in Ids : ~Refused(i)'
        <3>1. PICK t : tasks = <<t>>
            BY <2>2 DEF SInv, IInv, Shapes, CloseReturns, Idle
        <3>2. tasks' = <<>>
            BY <2>2, <3>1 DEF CloseReturns
        <3>3. Len(<<>>) = 0 /\ 1 .. 0 = {}
            OBVIOUS
        <3> QED BY <3>2, <3>3 DEF Refused
    <2>3. CASE RestartSucceeds
        BY <2>3 DEF RestartSucceeds, Refused
    <2> QED BY <2>1, <2>2, <2>3
<1>3. \A i \in Ids : IsHandle(handle[i])
    BY DEF SInv, IInv, Shapes
<1>4. \A i \in Ids : handle'[i].got = handle[i].got /\
                     (handle'[i].state = "none" => handle[i].state = "none")
    <2>1. ASSUME NEW id \in Ids, NEW state \in {"open", "closing"},
                 handle' = [handle EXCEPT ![id].state = state], NEW i \in Ids
          PROVE  handle'[i].got = handle[i].got /\
                 (handle'[i].state = "none" => handle[i].state = "none")
        <3>1. PICK st, got, closes : handle[i] = [state |-> st, got |-> got, closes |-> closes]
            BY <1>3 DEF IsHandle
        <3>2. CASE i = id
            <4>1. handle'[i] = [handle[i] EXCEPT !.state = state]
                BY <2>1, <3>2 DEF SInv, IInv, Shapes
            <4> QED BY <3>1, <4>1
        <3>3. CASE i # id
            <4>1. handle'[i] = handle[i]
                BY <2>1, <3>3 DEF SInv, IInv, Shapes
            <4> QED BY <4>1
        <3> QED BY <3>2, <3>3
    <2>2. ASSUME NEW id \in Ids, Close(id)
          PROVE  handle' = [handle EXCEPT ![id].state = "closing"]
        BY <2>2 DEF Close
    <2>3. ASSUME CloseReturns
          PROVE  \E id \in Ids : \/ handle' = handle
                                 \/ handle' = [handle EXCEPT ![id].state = "open"]
                                 \/ handle' = [handle EXCEPT ![id] = FireOnClose(@)]
        <3>1. PICK t : tasks = <<t>> /\ t.id \in Ids
            BY <2>3 DEF SInv, IInv, Shapes, CloseReturns, Idle
        <3>2. Head(tasks) = t
            BY <3>1
        <3> QED BY <2>3, <3>1, <3>2 DEF CloseReturns
    <2>4. ASSUME NEW ids, NEW i \in Ids,
                 handle'[i] = IF i \in ids THEN FireOnClose(handle[i]) ELSE handle[i]
          PROVE  handle'[i].got = handle[i].got /\
                 (handle'[i].state = "none" => handle[i].state = "none")
        BY <1>3, <2>4, Fires, FireKeepsGot
    <2>5. ASSUME NEW id \in Ids, handle' = [handle EXCEPT ![id] = FireOnClose(@)], NEW i \in Ids
          PROVE  handle'[i] = IF i \in {id} THEN FireOnClose(handle[i]) ELSE handle[i]
        BY <2>5 DEF SInv, IInv, Shapes
    <2>6. ASSUME RestartSucceeds, NEW i \in Ids
          PROVE  handle'[i] = IF i \in restart.before THEN FireOnClose(handle[i]) ELSE handle[i]
        BY <2>6 DEF RestartSucceeds, Fired
    <2>7. CASE \E id \in Ids : Close(id)
        BY <2>1, <2>2, <2>7
    <2>8. CASE CloseReturns
        <3>1. PICK id \in Ids : \/ handle' = handle
                                \/ handle' = [handle EXCEPT ![id].state = "open"]
                                \/ handle' = [handle EXCEPT ![id] = FireOnClose(@)]
            BY <2>3, <2>8
        <3>2. CASE handle' = handle
            BY <3>2
        <3>3. CASE handle' = [handle EXCEPT ![id].state = "open"]
            BY <2>1, <3>3
        <3>4. CASE handle' = [handle EXCEPT ![id] = FireOnClose(@)]
            <4>1. ASSUME NEW i \in Ids
                  PROVE  handle'[i].got = handle[i].got /\
                         (handle'[i].state = "none" => handle[i].state = "none")
                BY <2>4, <2>5, <3>4
            <4> QED BY <4>1
        <3> QED BY <3>1, <3>2, <3>3, <3>4
    <2>9. CASE RestartSucceeds
        BY <2>4, <2>6, <2>9
    <2> QED BY <2>7, <2>8, <2>9
<1>5. Steady
    BY <1>1, <1>2, <1>4 DEF Steady
<1> QED
    BY <1>1, <1>5, SteadyKept

(* openComm, and what is left of it.                                       *)
LEMMA OpenKept ==
    ASSUME OInv, (\E id \in FrontIds : OpenComm(id)) \/ OpenReturns
    PROVE  Queues' /\ Untold' /\ Flows'
<1> USE DEF OInv
<1>1. /\ v1' = v1 /\ said' = said /\ inbound' = inbound /\ gaps' = gaps
      /\ used \subseteq used' /\ grace' = grace
    BY DEF OpenComm, OpenReturns, kernelSide, wires, aux
<1>2. ASSUME NEW id \in FrontIds, OpenComm(id) PROVE Steady
    <2>1. /\ id \in Ids /\ id \notin used
          /\ registry' = registry \cup {id} /\ handle' = [handle EXCEPT ![id].state = "open"]
        BY <1>2 DEF OpenComm, Ids
    <2>2. handle[id].state = "none" /\ IsHandle(handle[id])
        BY <2>1 DEF SInv, IInv, Fresh, Shapes
    <2>3. PICK st, got, closes : handle[id] = [state |-> st, got |-> got, closes |-> closes]
        BY <2>2 DEF IsHandle
    <2>4. /\ \A i \in Ids \ {id} : handle'[i] = handle[i]
          /\ handle'[id] = [handle[id] EXCEPT !.state = "open"]
        BY <2>1 DEF SInv, IInv, Shapes
    <2>5. handle'[id].got = handle[id].got /\ handle'[id].state = "open"
        BY <2>3, <2>4
    <2>6. \A i \in Ids : Refused(i)' => i = id
        <3>1. PICK t : t = [call |-> "open", id |-> id, ok |-> Sendable(<<>>)]
            OBVIOUS
        <3>2. Len(tasks') = 1 /\ tasks'[1] = t /\ 1 .. 1 = {1} /\ t.id = id
            BY <1>2, <3>1 DEF OpenComm
        <3> QED BY <3>2 DEF Refused
    <2> QED BY <1>1, <2>1, <2>2, <2>4, <2>5, <2>6 DEF Steady
<1>3. ASSUME OpenReturns PROVE Steady
    <2>1. PICK t : tasks = <<t>> /\ t.id \in Ids /\ t.call = "open"
        <3>1. PICK t : tasks = <<t>> /\ t.id \in Ids
            BY <1>3 DEF SInv, IInv, Shapes, OpenReturns, Idle
        <3>2. Head(tasks) = t
            BY <3>1
        <3> QED BY <1>3, <3>1, <3>2 DEF OpenReturns
    <2>2. Head(tasks) = t /\ tasks' = <<>>
        BY <1>3, <2>1 DEF OpenReturns
    <2>3. \A i : ~Refused(i)'
        <3>1. Len(<<>>) = 0 /\ 1 .. 0 = {}
            OBVIOUS
        <3> QED BY <2>2, <3>1 DEF Refused
    <2>4. \/ UNCHANGED <<registry, handle>>
          \/ /\ ~t.ok /\ registry' = registry \ {t.id}
             /\ handle' = [handle EXCEPT ![t.id] = NoHandle]
        BY <1>3, <2>2 DEF OpenReturns
    <2>5. CASE UNCHANGED <<registry, handle>>
        BY <1>1, <2>3, <2>5 DEF Steady
    <2>6. CASE /\ ~t.ok /\ registry' = registry \ {t.id}
               /\ handle' = [handle EXCEPT ![t.id] = NoHandle]
        <3>1. Refused(t.id)
            <4>1. Len(tasks) = 1 /\ tasks[1] = t /\ 1 \in 1 .. 1
                BY <2>1
            <4> QED BY <2>1, <2>6, <4>1 DEF Refused
        <3>2. handle[t.id].got = <<>>
            BY <2>1, <3>1 DEF Untold
        <3>3. /\ \A i \in Ids \ {t.id} : handle'[i] = handle[i]
              /\ handle'[t.id].got = <<>>
            BY <2>1, <2>6 DEF SInv, IInv, Shapes, NoHandle
        <3> QED BY <1>1, <2>3, <2>6, <3>1, <3>2, <3>3 DEF Steady
    <2> QED BY <2>4, <2>5, <2>6
<1> QED
    BY <1>1, <1>2, <1>3, SteadyKept

(* closeAll.                                                               *)
LEMMA EndKept ==
    ASSUME OInv, RestartFails \/ End
    PROVE  Queues' /\ Untold' /\ Flows'
<1> USE DEF OInv
<1>1. /\ registry' = {} /\ grace' = <<>> /\ handle' = Fired(registry)
      /\ UNCHANGED <<v1, said, used, tasks>>
    BY DEF RestartFails, End, CloseAll, kernelSide, wires
<1>2. /\ gaps \subseteq gaps' /\ DOMAIN grace \subseteq gaps'
      /\ \/ inbound' = inbound
         \/ /\ inbound' = <<>>
            /\ \A i \in 1 .. Len(inbound) :
                  inbound[i].type = "msg" => inbound[i].id \in gaps'
    <2>1. CASE RestartFails
        BY <2>1, Discarded DEF RestartFails
    <2>2. CASE End
        BY <2>2 DEF End, wires
    <2> QED BY <2>1, <2>2
<1>3. \A i \in Ids : /\ handle'[i].got = handle[i].got
                     /\ handle'[i].state = "none" => handle[i].state = "none"
    <2> SUFFICES ASSUME NEW i \in Ids
                 PROVE  /\ handle'[i].got = handle[i].got
                        /\ handle'[i].state = "none" => handle[i].state = "none"
        OBVIOUS
    <2>1. handle'[i] = IF i \in registry THEN FireOnClose(handle[i]) ELSE handle[i]
        BY <1>1 DEF Fired
    <2>2. IsHandle(handle[i])
        BY DEF SInv, IInv, Shapes
    <2> QED BY <2>1, <2>2, Fires, FireKeepsGot
<1>4. /\ {} \subseteq DOMAIN grace /\ grace' = [i \in {} |-> grace[i]]
      /\ DOMAIN grace \ {} \subseteq gaps' /\ registry' \subseteq registry
    <2>1. <<>> = [i \in {} |-> grace[i]]
        OBVIOUS
    <2> QED BY <1>1, <1>2, <2>1
<1>5. /\ Queues' /\ Untold'
      /\ \A id \in Ids : Told(id)' = Told(id) \/ (Told(id)' = handle[id].got /\ id \in gaps')
    BY <1>1, <1>3, <1>4, DropKeeps
<1> QED
    BY <1>1, <1>2, <1>5, FlowsLose

(* The timer of the grace queue.                                           *)
LEMMA TimerKept ==
    ASSUME OInv, NEW c \in Ids, GraceEnds(c)
    PROVE  Queues' /\ Untold' /\ Flows'
<1>1. /\ grace' = [i \in DOMAIN grace \ {c} |-> grace[i]] /\ gaps' = gaps \cup {c}
      /\ UNCHANGED <<v1, said, registry, handle, used, tasks, inbound>>
    BY DEF GraceEnds, Without, kernelSide, wires, flow
<1>2. PICK D : D = DOMAIN grace \ {c}
    OBVIOUS
<1>3. D \subseteq DOMAIN grace /\ grace' = [i \in D |-> grace[i]] /\ DOMAIN grace \ D \subseteq gaps'
    BY <1>1, <1>2
<1>4. /\ Queues' /\ Untold'
      /\ \A id \in Ids : Told(id)' = Told(id) \/ (Told(id)' = handle[id].got /\ id \in gaps')
    BY <1>1, <1>3, DropKeeps
<1> QED
    BY <1>1, <1>4, FlowsLose

(* Another message than a comm_msg arrives.                                *)
LEMMA FlowsSkip ==
    ASSUME OInv, v1' = v1, said' = said, gaps \subseteq gaps',
           NEW n \in 1 .. Len(inbound), inbound[n].type # "msg", inbound' = RemoveAt(inbound, n),
           \A id \in Ids : \/ Told(id)' = Told(id)
                           \/ Told(id)' = handle[id].got /\ id \in gaps'
    PROVE  Flows'
<1> USE DEF OInv
<1>1. ASSUME NEW id \in Ids
      PROVE  Good(v1', id, Told(id)', inbound', said'[id], id \in gaps')
    <2>1. PICK t, u, s, o : t = Told(id) /\ u = Told(id)' /\ s = inbound /\ o = said[id]
        OBVIOUS
    <2>2. Flow(v1, id, t, s, o) /\ (id \notin gaps => Whole(v1, id, t, s, o))
        BY <2>1 DEF Flows, Good
    <2>3. Flow(v1, id, u, s, o) /\ (id \notin gaps' => u = t)
        <3>1. CASE u = t
            BY <2>2, <3>1
        <3>2. CASE u = handle[id].got /\ id \in gaps'
            <4>1. IsSeq(handle[id].got) /\ IsSeq(Aside(id)) /\ t = handle[id].got \o Aside(id)
                BY <2>1, ToldIs DEF Queues
            <4> QED BY <2>2, <3>2, <4>1, FlowDrops
        <3> QED BY <2>1, <3>1, <3>2
    <2>4. n \in 1 .. Len(s) /\ IsSeq(s) /\ ~Mine(s[n], id)
        BY <2>1 DEF Mine, SInv, IInv, Shapes
    <2>5. /\ Flow(v1, id, u, RemoveAt(s, n), o)
          /\ Whole(v1, id, u, s, o) => Whole(v1, id, u, RemoveAt(s, n), o)
        BY <2>3, <2>4, FlowSkips
    <2> QED BY <2>1, <2>2, <2>3, <2>5 DEF Good
<1>2. said' = [id \in Ids |-> said'[id]]
    BY DEF Flows
<1> QED
    BY <1>1, <1>2 DEF Flows

(* A comm that is taken gives its subscribers what has come of it.         *)
LEMMA AcceptKept ==
    ASSUME OInv, NEW c \in Ids, handle[c].state = "none", Accept(c), c \in used,
           used' = used, tasks = <<>>, tasks' = tasks
    PROVE  Queues' /\ Untold' /\ \A id \in Ids : Told(id)' = Told(id)
<1> USE DEF OInv
<1>1. PICK queue : queue = Aside(c)
    OBVIOUS
<1>2. /\ registry' = registry \cup {c}
      /\ grace' = [i \in DOMAIN grace \ {c} |-> grace[i]]
      /\ handle' = [handle EXCEPT ![c] = [@ EXCEPT !.state = "open", !.got = queue]]
    BY <1>1 DEF Accept, Without, Aside
<1>3. /\ \A i \in Ids \ {c} : handle'[i] = handle[i]
      /\ handle'[c] = [handle[c] EXCEPT !.state = "open", !.got = queue]
    BY <1>2 DEF SInv, IInv, Shapes
<1>4. handle'[c].state = "open" /\ handle'[c].got = queue
    <2>1. IsHandle(handle[c])
        BY DEF SInv, IInv, Shapes
    <2>2. PICK state, got, closes : handle[c] = [state |-> state, got |-> got, closes |-> closes]
        BY <2>1 DEF IsHandle
    <2> QED BY <1>3, <2>2
<1>5. \A id \in Ids : IsSeq(handle[id].got) /\ IsSeq(Aside(id))
    BY DEF Queues
<1>6. Aside(c)' = <<>> /\ \A id \in Ids \ {c} : Aside(id)' = Aside(id)
    BY <1>2 DEF Aside
<1>7. IsSeq(<<>>)
    BY DEF IsSeq
<1>8. Queues'
    <2>1. ASSUME NEW id \in Ids PROVE IsSeq(handle'[id].got) /\ IsSeq(Aside(id)')
        <3>1. CASE id = c
            BY <1>1, <1>4, <1>5, <1>6, <1>7, <3>1
        <3>2. CASE id # c
            BY <1>3, <1>5, <1>6, <3>2
        <3> QED BY <3>1, <3>2
    <2>2. grace' = [id \in DOMAIN grace' |-> grace'[id]] /\ DOMAIN grace' \subseteq used' \ registry'
        BY <1>2 DEF Queues
    <2> QED BY <2>1, <2>2 DEF Queues
<1>9. \A i : ~Refused(i)'
    <2>1. Len(<<>>) = 0 /\ 1 .. 0 = {}
        OBVIOUS
    <2> QED BY <2>1 DEF Refused
<1>10. Untold'
    BY <1>3, <1>4, <1>9 DEF Untold
<1>11. ASSUME NEW id \in Ids PROVE Told(id)' = Told(id)
    <2>1. Told(id)' = handle'[id].got \o Aside(id)'
        BY DEF Told, Aside
    <2>2. CASE id = c
        <3>1. handle[c].got = <<>>
            BY DEF Untold
        <3>2. Told(c) = <<>> \o queue /\ Told(c)' = queue \o <<>>
            BY <1>1, <1>4, <1>6, <2>1, <2>2, <3>1, ToldIs
        <3>3. <<>> \o queue = queue /\ queue \o <<>> = queue
            BY <1>1, <1>5, Joined
        <3> QED BY <2>2, <3>2, <3>3
    <2>3. CASE id # c
        BY <1>3, <1>6, <2>1, <2>3, ToldIs
    <2> QED BY <2>2, <2>3
<1> QED
    BY <1>8, <1>10, <1>11

(* A comm_msg goes to the subscribers, or waits.                           *)
LEMMA MsgTold ==
    ASSUME OInv, NEW c \in Ids, NEW e, handleMsg(c, e), c \in used,
           used' = used, tasks = <<>>, tasks' = tasks
    PROVE  /\ Queues' /\ Untold' /\ Told(c)' = Append(Told(c), e)
           /\ \A id \in Ids \ {c} : Told(id)' = Told(id)
<1> USE DEF OInv
<1>1. \A id \in Ids : IsSeq(handle[id].got) /\ IsSeq(Aside(id))
    BY DEF Queues
<1>2. \A i : ~Refused(i)'
    <2>1. Len(<<>>) = 0 /\ 1 .. 0 = {}
        OBVIOUS
    <2> QED BY <2>1 DEF Refused
<1>3. registry' = registry
    BY DEF handleMsg
<1>4. \A id : Told(id)' = handle'[id].got \o Aside(id)'
    BY DEF Told, Aside
<1>5. CASE c \in registry
    <2>1. handle' = [handle EXCEPT ![c].got = Append(@, e)] /\ grace' = grace
        BY <1>5 DEF handleMsg
    <2>2. /\ \A i \in Ids \ {c} : handle'[i] = handle[i]
          /\ handle'[c] = [handle[c] EXCEPT !.got = Append(@, e)]
        BY <2>1 DEF SInv, IInv, Shapes
    <2>3. handle'[c].state = handle[c].state /\ handle'[c].got = Append(handle[c].got, e)
        <3>1. IsHandle(handle[c])
            BY DEF SInv, IInv, Shapes
        <3>2. PICK state, got, closes : handle[c] = [state |-> state, got |-> got, closes |-> closes]
            BY <3>1 DEF IsHandle
        <3> QED BY <2>2, <3>2
    <2>4. handle[c].state # "none"
        BY <1>5 DEF SInv, IInv, ClosedOnce
    <2>5. \A id \in Ids : Aside(id)' = Aside(id)
        BY <2>1 DEF Aside
    <2>6. Aside(c) = <<>>
        BY <1>5 DEF Queues, Aside
    <2>7. IsSeq(handle'[c].got)
        BY <1>1, <2>3, Appended
    <2>8. Queues'
        <3>1. \A id \in Ids : IsSeq(handle'[id].got) /\ IsSeq(Aside(id)')
            BY <1>1, <2>2, <2>5, <2>7
        <3>2. grace' = [id \in DOMAIN grace' |-> grace'[id]] /\ DOMAIN grace' \subseteq used' \ registry'
            BY <1>3, <2>1 DEF Queues
        <3> QED BY <3>1, <3>2 DEF Queues
    <2>9. Untold'
        BY <1>2, <2>2, <2>3, <2>4 DEF Untold
    <2>10. Told(c)' = Append(Told(c), e)
        <3>1. PICK g : g = handle[c].got
            OBVIOUS
        <3>2. g \o <<>> = g /\ Append(g, e) \o <<>> = Append(g, e)
            <4>1. IsSeq(<<>>)
                BY DEF IsSeq
            <4> QED BY <1>1, <3>1, <4>1, Joined
        <3> QED BY <1>4, <2>3, <2>5, <2>6, <3>1, <3>2, ToldIs
    <2>11. \A id \in Ids \ {c} : Told(id)' = Told(id)
        BY <1>4, <2>2, <2>5, ToldIs
    <2> QED BY <2>8, <2>9, <2>10, <2>11
<1>6. CASE c \notin registry
    <2>1. PICK queue : queue = IF c \in DOMAIN grace THEN Append(grace[c], e) ELSE <<e>>
        OBVIOUS
    <2>2. handle' = handle /\ grace' = [i \in DOMAIN grace \cup {c} |->
                                           IF i # c THEN grace[i] ELSE queue]
        BY <1>6, <2>1 DEF handleMsg
    <2>3. Aside(c)' = queue /\ \A id \in Ids \ {c} : Aside(id)' = Aside(id)
        BY <2>2 DEF Aside
    <2>4. queue = Append(Aside(c), e)
        <3>1. Append(<<>>, e) = <<e>>
            OBVIOUS
        <3> QED BY <2>1, <3>1 DEF Aside
    <2>5. IsSeq(queue)
        BY <1>1, <2>4, Appended
    <2>6. Queues'
        <3>1. \A id \in Ids : IsSeq(handle'[id].got) /\ IsSeq(Aside(id)')
            BY <1>1, <2>2, <2>3, <2>5
        <3>2. grace' = [id \in DOMAIN grace' |-> grace'[id]] /\ DOMAIN grace' \subseteq used' \ registry'
            BY <1>3, <1>6, <2>2 DEF Queues
        <3> QED BY <3>1, <3>2 DEF Queues
    <2>7. Untold'
        BY <1>2, <2>2 DEF Untold
    <2>8. Told(c)' = Append(Told(c), e)
        <3>1. PICK g, q : g = handle[c].got /\ q = Aside(c)
            OBVIOUS
        <3>2. IsSeq(g) /\ IsSeq(q)
            BY <1>1, <3>1
        <3>3. g \o Append(q, e) = Append(g \o q, e)
            BY ONLY <3>2, Joined
        <3> QED BY <1>4, <2>2, <2>3, <2>4, <3>1, <3>3, ToldIs
    <2>9. \A id \in Ids \ {c} : Told(id)' = Told(id)
        BY <1>4, <2>2, <2>3, ToldIs
    <2> QED BY <2>6, <2>7, <2>8, <2>9
<1> QED
    BY <1>5, <1>6

(* A comm_msg arrives: the first one of its comm that is under way.        *)
LEMMA FlowsTake ==
    ASSUME OInv, v1' = v1, said' = said, gaps' = gaps, NEW c \in Ids, NEW e,
           NEW n \in 1 .. Len(inbound), Mine(inbound[n], c), inbound' = RemoveAt(inbound, n),
           \A j \in 1 .. n - 1 : ~Mine(inbound[j], c), e = Brought(v1, inbound[n].wire),
           Told(c)' = Append(Told(c), e), \A id \in Ids \ {c} : Told(id)' = Told(id)
    PROVE  Flows'
<1> USE DEF OInv
<1>1. ASSUME NEW id \in Ids
      PROVE  Good(v1', id, Told(id)', inbound', said'[id], id \in gaps')
    <2>1. PICK t, s, o : t = Told(id) /\ s = inbound /\ o = said[id]
        OBVIOUS
    <2>2. Flow(v1, id, t, s, o) /\ (id \notin gaps => Whole(v1, id, t, s, o))
        BY <2>1 DEF Flows, Good
    <2>3. n \in 1 .. Len(s) /\ IsSeq(s)
        BY <2>1 DEF SInv, IInv, Shapes
    <2>4. CASE id = c
        <3>1. Mine(s[n], id) /\ (\A j \in 1 .. n - 1 : ~Mine(s[j], id)) /\ e = Brought(v1, s[n].wire)
            BY <2>1, <2>4
        <3>2. /\ Flow(v1, id, Append(t, e), RemoveAt(s, n), o)
              /\ Whole(v1, id, t, s, o) => Whole(v1, id, Append(t, e), RemoveAt(s, n), o)
            BY ONLY <2>2, <2>3, <3>1, FlowTakes
        <3> QED BY <2>1, <2>2, <2>4, <3>2 DEF Good
    <2>5. CASE id # c
        <3>1. ~Mine(s[n], id)
            BY <2>1, <2>5 DEF Mine
        <3>2. /\ Flow(v1, id, t, RemoveAt(s, n), o)
              /\ Whole(v1, id, t, s, o) => Whole(v1, id, t, RemoveAt(s, n), o)
            BY <2>2, <2>3, <3>1, FlowSkips
        <3> QED BY <2>1, <2>2, <2>5, <3>2 DEF Good
    <2> QED BY <2>4, <2>5
<1>2. said' = [id \in Ids |-> said'[id]]
    BY DEF Flows
<1> QED
    BY <1>1, <1>2 DEF Flows

(* A frame arrives.                                                        *)
LEMMA InboundKept ==
    ASSUME OInv, Inbound
    PROVE  Queues' /\ Untold' /\ Flows'
<1> USE DEF OInv
<1>1. PICK n \in 1 .. Len(inbound) :
         /\ \A j \in 1 .. n - 1 : Overtakes(inbound[n], inbound[j])
         /\ inbound' = RemoveAt(inbound, n)
         /\ \E msg \in Decoded(inbound[n]) :
               CASE inbound[n].type = "open"  -> handleOpen(inbound[n].id)
                 [] inbound[n].type = "msg"   -> handleMsg(inbound[n].id, msg)
                 [] inbound[n].type = "close" -> handleClose(inbound[n].id)
    <2>1. DOMAIN inbound = 1 .. Len(inbound)
        BY DEF SInv, IInv, Shapes, IsSeq
    <2> QED BY <2>1 DEF Inbound
<1>2. PICK c, type : c = inbound[n].id /\ type = inbound[n].type
    OBVIOUS
<1>3. c \in Ids /\ type \in {"open", "msg", "close"} /\ IsHandle(handle[c])
    BY <1>2 DEF SInv, IInv, Shapes
<1>4. /\ tasks = <<>> /\ tasks' = tasks /\ used' = used /\ v1' = v1 /\ said' = said
    BY DEF Inbound, Idle, kernelSide, flow
<1>5. c \in used
    BY <1>2, <1>3 DEF SInv, Spoken, In, Has
<1>6. \A i : ~Refused(i)'
    <2>1. Len(<<>>) = 0 /\ 1 .. 0 = {}
        OBVIOUS
    <2> QED BY <1>4, <2>1 DEF Refused
<1>7. CASE type = "open"
    <2>1. handleOpen(c) /\ gaps' = gaps
        BY <1>1, <1>2, <1>7 DEF handleOpen
    <2>2. CASE Refuse(c)
        <3>1. UNCHANGED <<registry, handle, grace>>
            BY <2>2 DEF Refuse, comms
        <3>2. Steady
            BY <1>4, <1>6, <3>1 DEF Steady
        <3> QED BY <1>1, <1>2, <1>4, <1>7, <2>1, <3>2, SteadyKeeps, FlowsSkip
    <2>3. CASE Accept(c)
        <3>1. handle[c].state = "none"
            BY <1>2, <1>7 DEF SInv, IInv, OpensOnce
        <3>2. Queues' /\ Untold' /\ \A id \in Ids : Told(id)' = Told(id)
            BY <1>3, <1>4, <1>5, <2>3, <3>1, AcceptKept
        <3> QED BY <1>1, <1>2, <1>4, <1>7, <2>1, <3>2, FlowsSkip
    <2> QED BY <2>1, <2>2, <2>3 DEF handleOpen
<1>8. CASE type = "msg"
    <2>1. Mine(inbound[n], c)
        BY <1>2, <1>8 DEF Mine
    <2>2. \A j \in 1 .. n - 1 : ~Mine(inbound[j], c)
        BY <1>1, <1>2 DEF Overtakes, Mine
    <2>3. \E m : inbound[n] = Nth(c, m)
        <3>1. Flow(v1, c, Told(c), inbound, said[c])
            BY <1>3 DEF Flows, Good
        <3> QED BY <2>1, <3>1 DEF Flow
    <2>4. Decoded(inbound[n]) = {Brought(v1, inbound[n].wire)}
        BY <2>3, DecodedIs
    <2>5. PICK e : e = Brought(v1, inbound[n].wire)
        OBVIOUS
    <2>6. handleMsg(c, e) /\ gaps' = gaps
        BY <1>1, <1>2, <1>8, <2>4, <2>5 DEF handleMsg, aux
    <2>7. /\ Queues' /\ Untold' /\ Told(c)' = Append(Told(c), e)
          /\ \A id \in Ids \ {c} : Told(id)' = Told(id)
        BY <1>3, <1>4, <1>5, <2>6, MsgTold
    <2> QED BY <1>1, <1>3, <1>4, <2>1, <2>2, <2>5, <2>6, <2>7, FlowsTake
<1>9. CASE type = "close"
    <2>1. handleClose(c)
        BY <1>1, <1>2, <1>9
    <2>2. CASE c \in registry
        <3>1. /\ handle' = [handle EXCEPT ![c] = FireOnClose(@)] /\ registry' = registry \ {c}
              /\ grace' = grace /\ gaps' = gaps
            BY <2>1, <2>2 DEF handleClose
        <3>2. /\ \A i \in Ids \ {c} : handle'[i] = handle[i]
              /\ handle'[c] = FireOnClose(handle[c])
            BY <1>3, <3>1 DEF SInv, IInv, Shapes
        <3>3. handle'[c].state = "closed" /\ handle'[c].got = handle[c].got
            BY <1>3, <3>2, Fires, FireKeepsGot
        <3>4. Steady
            BY <1>4, <1>6, <3>1, <3>2, <3>3 DEF Steady
        <3> QED BY <1>1, <1>2, <1>4, <1>9, <3>1, <3>4, SteadyKeeps, FlowsSkip
    <2>3. CASE c \notin registry
        <3>1. /\ grace' = [i \in DOMAIN grace \ {c} |-> grace[i]]
              /\ gaps' = gaps \cup ({c} \cap DOMAIN grace) /\ UNCHANGED <<registry, handle>>
            BY <2>1, <2>3 DEF handleClose, Without
        <3>2. PICK D : D = DOMAIN grace \ {c}
            OBVIOUS
        <3>3. /\ D \subseteq DOMAIN grace /\ grace' = [i \in D |-> grace[i]]
              /\ DOMAIN grace \ D \subseteq gaps' /\ gaps \subseteq gaps'
            BY <3>1, <3>2
        <3>4. /\ Queues' /\ Untold'
              /\ \A id \in Ids : \/ Told(id)' = Told(id)
                                 \/ Told(id)' = handle[id].got /\ id \in gaps'
            BY <1>4, <3>1, <3>3, DropKeeps
        <3> QED BY <1>1, <1>2, <1>4, <1>9, <3>3, <3>4, FlowsSkip
    <2> QED BY <2>2, <2>3
<1> QED
    BY <1>3, <1>7, <1>8, <1>9

LEMMA InitKept == Init => Queues /\ Untold /\ Flows
<1> SUFFICES ASSUME Init PROVE Queues /\ Untold /\ Flows
    OBVIOUS
<1>1. /\ DOMAIN <<>> = {} /\ <<>> = [i \in {} |-> <<>>[i]] /\ IsSeq(<<>>)
      /\ Len(<<>>) = 0 /\ 1 .. 0 = {} /\ <<>> \o <<>> = <<>>
    BY DEF IsSeq
<1>2. /\ registry = {} /\ grace = <<>> /\ inbound = <<>> /\ said = [i \in Ids |-> 0]
      /\ handle = [i \in Ids |-> NoHandle]
    BY DEF Init
<1>3. \A i \in Ids : handle[i].got = <<>> /\ Aside(i) = <<>>
    BY <1>1, <1>2 DEF NoHandle, Aside
<1>4. Queues
    BY <1>1, <1>2, <1>3 DEF Queues
<1>5. Untold
    BY <1>3 DEF Untold
<1>6. \A i \in Ids : Told(i) = <<>> /\ said[i] = 0
    BY <1>1, <1>2, <1>3, ToldIs
<1>7. \A v, i : Flow(v, i, <<>>, <<>>, 0) /\ Whole(v, i, <<>>, <<>>, 0)
    BY <1>1 DEF Flow, Whole
<1>8. Flows
    BY <1>2, <1>6, <1>7 DEF Flows, Good
<1> QED
    BY <1>4, <1>5, <1>8

LEMMA NextKept == OInv /\ [Next]_vars => Queues' /\ Untold' /\ Flows'
<1> SUFFICES ASSUME OInv, [Next]_vars PROVE Queues' /\ Untold' /\ Flows'
    OBVIOUS
<1>1. CASE \/ \E id \in KernelIds : KernelOpens(id)
           \/ \E id \in Ids : KernelCloses(id)
           \/ KernelReads
    BY <1>1, KernelKept
<1>2. CASE \E id \in Ids : KernelSends(id)
    BY <1>2, SpeaksKept
<1>3. CASE \/ \E id \in Ids : Send(id)
           \/ Register \/ Reconnect \/ GivesUp \/ RestartBegins \/ RestartRefused
           \/ Disconnect \/ RestartTimesOut \/ RestartReopens \/ RestartBreaks \/ Shutdown
    BY <1>3, QuietKept
<1>4. CASE (\E id \in Ids : Close(id)) \/ CloseReturns \/ RestartSucceeds
    BY <1>4, CloseKept
<1>5. CASE (\E id \in FrontIds : OpenComm(id)) \/ OpenReturns
    BY <1>5, OpenKept
<1>6. CASE \E id \in Ids : GraceEnds(id)
    BY <1>6, TimerKept
<1>7. CASE Inbound
    BY <1>7, InboundKept
<1>8. CASE RestartFails \/ End
    BY <1>8, EndKept
<1>9. CASE UNCHANGED vars
    <2>1. UNCHANGED <<v1, said, used, inbound, registry, handle, grace, tasks, gaps>>
        BY <1>9 DEF vars, kernelSide, wires, comms, flow, aux
    <2>2. Steady
        BY <2>1 DEF Steady, Refused
    <2> QED BY <2>1, <2>2, SteadyKept
<1> QED
    BY <1>1, <1>2, <1>3, <1>4, <1>5, <1>6, <1>7, <1>8, <1>9 DEF Next

(* The positions say that nothing is missing.                              *)
LEMMA AllTold ==
    ASSUME NEW v, NEW id, NEW t, NEW s, NEW n, Flow(v, id, t, s, n), Whole(v, id, t, s, n),
           \A i \in 1 .. Len(s) : ~Mine(s[i], id)
    PROVE  Len(t) = n
<1>1. n \in Nat /\ Len(t) \in Nat
    BY DEF Flow, IsSeq
<1>2. \A m : Mine(Nth(id, m), id)
    BY NthIs DEF Mine
<1>3. \A m \in 1 .. n : m <= Len(t)
    BY <1>2 DEF Whole
<1>4. n <= Len(t)
    <2>1. CASE n = 0
        BY <1>1, <2>1
    <2>2. CASE n # 0
        <3>1. n \in 1 .. n
            BY <1>1, <2>2
        <3> QED BY <1>3, <3>1
    <2> QED BY <2>1, <2>2
<1>5. Len(t) <= n
    <2>1. CASE Len(t) = 0
        BY <1>1, <2>1
    <2>2. CASE Len(t) # 0
        <3>1. PICK k : k = Len(t)
            OBVIOUS
        <3>2. k \in 1 .. Len(t)
            BY <1>1, <2>2, <3>1
        <3>3. t[k] = Brought(v, Nth(id, k).wire)
            BY <3>2 DEF Whole
        <3>4. PICK m \in 1 .. n : t[k] = Brought(v, Nth(id, m).wire)
            BY <3>2 DEF Flow
        <3>5. Position(Brought(v, Nth(id, k).wire)) = k
            BY NthPosition
        <3>6. Position(Brought(v, Nth(id, m).wire)) = m
            BY NthPosition
        <3>7. k = m
            BY <3>3, <3>4, <3>5, <3>6
        <3> QED BY <1>1, <3>1, <3>4, <3>7
    <2> QED BY <2>1, <2>2
<1> QED
    BY <1>1, <1>4, <1>5

LEMMA OrderHolds == OInv => InOrder
<1> SUFFICES ASSUME OInv, NEW id \in Ids
             PROVE  /\ \A k \in DOMAIN Told(id) :
                          \E n \in 1 .. said[id] : Told(id)[k] = Carried(Nth(id, n).wire)
                    /\ \A k, l \in DOMAIN Told(id) :
                          k < l => Position(Told(id)[k]) < Position(Told(id)[l])
                    /\ id \notin gaps /\ ~Awaited(id) => Len(Told(id)) = said[id]
    BY DEF InOrder
<1> USE DEF OInv
<1>1. PICK t, s, o : t = Told(id) /\ s = inbound /\ o = said[id]
    OBVIOUS
<1>2. Flow(v1, id, t, s, o) /\ (id \notin gaps => Whole(v1, id, t, s, o))
    BY <1>1 DEF Flows, Good
<1>3. DOMAIN t = 1 .. Len(t)
    BY <1>2 DEF Flow, IsSeq
<1>4. \A wire : Carried(wire) = Brought(v1, wire)
    BY DEF Carried, Brought
<1>5. \A k \in DOMAIN t : \E n \in 1 .. o : t[k] = Carried(Nth(id, n).wire)
    BY <1>2, <1>3, <1>4 DEF Flow
<1>6. \A k, l \in DOMAIN t : k < l => Position(t[k]) < Position(t[l])
    BY <1>2, <1>3 DEF Flow
<1>7. ~Awaited(id) => \A i \in 1 .. Len(s) : ~Mine(s[i], id)
    <2>1. DOMAIN inbound = 1 .. Len(inbound)
        BY DEF SInv, IInv, Shapes, IsSeq
    <2> QED BY <1>1, <2>1 DEF Awaited, Mine, Range
<1>8. id \notin gaps /\ ~Awaited(id) => Len(t) = o
    BY <1>2, <1>7, AllTold
<1> QED
    BY <1>1, <1>5, <1>6, <1>8

(* What subscribers get of a comm is what the kernel has said of it, in    *)
(* order and nothing twice, as the protocol of the socket carries it, the  *)
(* messages that came before the comm_open included (comm/dispatch.ts,     *)
(* wire/protocol-v1.ts), whatever restarts and losses there are; and all   *)
(* of it, unless a message went down with a socket or expired in the grace *)
(* queue.                                                                  *)
THEOREM SubscribersGetAll == Spec => []InOrder
<1>1. Init => OInv
    BY InitInv, InitSync, InitKept DEF OInv, SInv
<1>2. OInv /\ [Next]_vars => OInv'
    BY NextInv, NextSync, NextKept DEF OInv, SInv
<1> QED
    BY <1>1, <1>2, OrderHolds, PTL DEF Spec

=============================================================================

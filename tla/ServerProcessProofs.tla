------------------------ MODULE ServerProcessProofs ------------------------
(***************************************************************************)
(* Proofs about ServerProcess, for any number of lines before the banner,  *)
(* any chunks, and any moment at which a process dies.                     *)
(***************************************************************************)
EXTENDS ServerProcess, FiniteSetTheorems, SequenceTheorems, TLAPS

-----------------------------------------------------------------------------
(* The first and the last place of a sequence.                              *)

(* A place of a sequence with the fewest places before it is the first.     *)
LEMMA MinIn ==
    ASSUME NEW n \in Nat, NEW I, I \subseteq 0 .. n, I # {}
    PROVE  Min(I) \in I /\ \A i \in I : Min(I) <= i
<1> DEFINE Below(x) == {i \in 0 .. n : i < x}
           T == {Below(x) : x \in I}
<1>1. IsFiniteSet(0 .. n)
    BY FS_Interval
<1>2. T \subseteq FiniteSubsetsOf(0 .. n) /\ T # {}
    <2>1. FiniteSubsetsOf(0 .. n) = SUBSET (0 .. n)
        BY <1>1, FS_FiniteSubsetsOfFinite
    <2>2. \A x : Below(x) \in SUBSET (0 .. n)
        OBVIOUS
    <2>3. ASSUME NEW t \in T PROVE t \in FiniteSubsetsOf(0 .. n)
        <3>1. PICK x \in I : t = Below(x)
            OBVIOUS
        <3> QED BY <3>1, <2>1, <2>2
    <2>4. T # {}
        <3>1. PICK x : x \in I
            OBVIOUS
        <3>2. Below(x) \in T
            BY <3>1
        <3> HIDE DEF T
        <3> QED BY <3>2
    <2> HIDE DEF T
    <2> QED BY <2>3, <2>4
<1>3. IsWellFoundedOn(StrictSubsetOrdering(0 .. n), FiniteSubsetsOf(0 .. n))
    BY FS_StrictSubsetOrderingWellFounded
<1>4. PICK t \in T : \A u \in T : ~(<<u, t>> \in StrictSubsetOrdering(0 .. n))
    <2> HIDE DEF T
    <2> QED BY <1>2, <1>3, WFMin
<1>5. PICK x \in I : t = Below(x)
    OBVIOUS
<1>6. ASSUME NEW y \in I, y < x PROVE FALSE
    <2>1. Below(y) \in T /\ Below(y) \subseteq Below(x)
        BY <1>6
    <2>2. y \in Below(x) /\ y \notin Below(y)
        BY <1>6
    <2>3. <<Below(y), t>> \in StrictSubsetOrdering(0 .. n)
        BY <2>1, <2>2, <1>5 DEF StrictSubsetOrdering
    <2> QED BY <2>1, <2>3, <1>4
<1>7. \A y \in I : x <= y
    BY <1>6
<1> QED
    BY <1>7 DEF Min

LEMMA MaxIn ==
    ASSUME NEW n \in Nat, NEW I, I \subseteq 1 .. n, I # {}
    PROVE  Max(I) \in I /\ \A i \in I : i <= Max(I)
<1> DEFINE J == {j \in 0 .. n : n - j \in I}
<1>1. \A i \in I : i \in 1 .. n /\ n - i \in 0 .. n /\ n - (n - i) = i
    OBVIOUS
<1>2. \A i \in I : n - i \in J
    BY <1>1
<1>3. Min(J) \in J /\ \A j \in J : Min(J) <= j
    <2>1. J # {} /\ J \subseteq 0 .. n
        BY <1>2
    <2> HIDE DEF J
    <2> QED BY <2>1, MinIn
<1>4. \A y \in I : y <= n - Min(J)
    BY <1>1, <1>2, <1>3
<1>5. n - Min(J) \in I
    BY <1>3
<1> QED
    BY <1>4, <1>5 DEF Max

-----------------------------------------------------------------------------
(* What the operators on text compute.                                      *)

Marks == Ports \cup {"text", "nl"}

LEMMA Distinct == "nl" \notin Ports /\ "text" \notin Ports /\ NoPort \notin Ports
BY DEF Ports, NoPort

(* The end of the last complete line.                                       *)
LEMMA LastLine ==
    ASSUME NEW text \in Seq(Marks)
    PROVE  /\ Lines(text) \in 0 .. Len(text)
           /\ Lines(text) # 0 => text[Lines(text)] = "nl"
           /\ \A i \in Lines(text) + 1 .. Len(text) : text[i] # "nl"
<1> DEFINE I == {i \in 1 .. Len(text) : text[i] = "nl"}
<1>1. Lines(text) = IF I # {} THEN Max(I) ELSE 0
    BY DEF Lines, SelectLastInSeq
<1>2. Len(text) \in Nat
    OBVIOUS
<1>3. CASE I = {}
    BY <1>1, <1>2, <1>3
<1>4. CASE I # {}
    <2>1. Max(I) \in I /\ \A i \in I : i <= Max(I)
        <3>1. I \subseteq 1 .. Len(text)
            OBVIOUS
        <3> HIDE DEF I
        <3> QED BY <1>2, <1>4, <3>1, MaxIn
    <2>2. PICK m \in I : m = Lines(text) /\ \A i \in I : i <= m
        <3> HIDE DEF I
        <3> QED BY <1>1, <1>4, <2>1
    <2>3. m \in 1 .. Len(text) /\ text[m] = "nl"
        BY <2>2
    <2>4. ASSUME NEW i \in m + 1 .. Len(text) PROVE text[i] # "nl"
        <3>1. i \notin I
            BY <2>2, <2>3, <1>2
        <3> QED BY <3>1, <2>3, <1>2
    <2> QED BY <1>2, <2>2, <2>3, <2>4
<1> QED
    BY <1>3, <1>4

(* A remainder is what comes after it.                                      *)
LEMMA RemainderIs ==
    ASSUME NEW text \in Seq(Marks)
    PROVE  /\ Remainder(text) \in Seq(Marks)
           /\ Len(Remainder(text)) = Len(text) - Lines(text)
           /\ \A i \in 1 .. Len(text) - Lines(text) :
                 Remainder(text)[i] = text[Lines(text) + i]
<1>1. Lines(text) \in 0 .. Len(text) /\ Len(text) \in Nat
    BY LastLine
<1> HIDE DEF Lines
<1> QED
    BY <1>1 DEF Remainder

(* A banner is a port before the end of a line.                             *)
LEMMA BannerIs ==
    ASSUME NEW text \in Seq(Marks)
    PROVE  /\ Banner(text) = NoPort =>
                 \A i, j \in 1 .. Len(text) :
                    i < j /\ text[i] \in Ports => text[j] # "nl"
           /\ Banner(text) # NoPort =>
                 \E i, j \in 1 .. Len(text) :
                    i < j /\ text[i] = Banner(text) /\ text[i] \in Ports /\ text[j] = "nl"
<1> DEFINE n == Lines(text)
           lines == SubSeq(text, 1, n)
           I == {i \in 1 .. Len(lines) : lines[i] \in Ports}
           at == IF I # {} THEN Min(I) ELSE 0
<1>1. /\ n \in 0 .. Len(text) /\ Len(text) \in Nat
      /\ n # 0 => text[n] = "nl"
      /\ \A i \in n + 1 .. Len(text) : text[i] # "nl"
    BY LastLine
<1>2. Banner(text) = IF at = 0 THEN NoPort ELSE text[at]
    BY DEF Banner, SelectInSeq
<1> HIDE DEF n
<1>3. Len(lines) = n /\ \A i \in 1 .. n : lines[i] = text[i]
    BY <1>1
<1>4. I = {i \in 1 .. n : text[i] \in Ports}
    BY <1>3
<1>5. CASE I = {}
    <2>1. Banner(text) = NoPort
        BY <1>2, <1>5
    <2>2. \A i \in 1 .. n : text[i] \notin Ports
        BY <1>4, <1>5
    <2>3. ASSUME NEW i \in 1 .. Len(text), NEW j \in 1 .. Len(text),
                 i < j, text[i] \in Ports
          PROVE  text[j] # "nl"
        <3>1. ~(i <= n)
            BY <2>2, <2>3, <1>1
        <3> QED BY <3>1, <2>3, <1>1
    <2> QED BY <2>1, <2>3
<1>6. CASE I # {}
    <2>1. I \subseteq 0 .. n
        BY <1>1, <1>4
    <2>2. Min(I) \in I
        <3>1. n \in Nat
            BY <1>1
        <3> HIDE DEF I
        <3> QED BY <3>1, <1>6, <2>1, MinIn
    <2>3. PICK k \in I : k = at
        <3> HIDE DEF I
        <3> QED BY <1>6, <2>2
    <2>4. k \in 1 .. n /\ k \in 1 .. Len(text) /\ text[k] \in Ports
        BY <1>1, <1>4
    <2>5. k # 0
        BY <2>4, <1>1
    <2>6. Banner(text) = text[k]
        <3> HIDE DEF at
        <3> QED BY <1>2, <2>3, <2>5
    <2>7. n \in 1 .. Len(text) /\ text[n] = "nl" /\ k < n
        BY <1>1, <2>4, Distinct
    <2> QED BY <2>4, <2>6, <2>7, Distinct
<1> QED
    BY <1>5, <1>6

-----------------------------------------------------------------------------
(* What a reader keeps between two chunks.  w is all that was written to   *)
(* its stream, p what it has read of it, and b the text after the last     *)
(* line end.                                                               *)

NoBanner(w, p) ==
    \A i, j \in 1 .. p : i < j /\ w[i] \in Ports => w[j] # "nl"

Reads(w, b, p) ==
    /\ \E k \in 0 .. p :
          /\ Len(b) = p - k
          /\ \A i \in 1 .. p - k : b[i] = w[k + i]
          /\ k = 0 \/ w[k] = "nl"
    /\ NoBanner(w, p)

(* A chunk joined to the rest of the last one is a piece of the stream.    *)
LEMMA Joined ==
    ASSUME NEW w \in Seq(Marks), NEW b \in Seq(Marks),
           NEW p \in 0 .. Len(w), NEW k \in 0 .. p, Len(b) = p - k,
           \A i \in 1 .. p - k : b[i] = w[k + i],
           NEW n \in p + 1 .. Len(w)
    PROVE  /\ b \o SubSeq(w, p + 1, n) \in Seq(Marks)
           /\ Len(b \o SubSeq(w, p + 1, n)) = n - k
           /\ \A i \in 1 .. n - k : (b \o SubSeq(w, p + 1, n))[i] = w[k + i]
<1> DEFINE chunk == SubSeq(w, p + 1, n)
<1>0. p \in Nat /\ k \in Nat /\ n \in Nat /\ Len(w) \in Nat
    OBVIOUS
<1>1. /\ chunk \in Seq(Marks) /\ Len(chunk) = n - (p + 1) + 1
      /\ \A i \in 1 .. n - (p + 1) + 1 : chunk[i] = w[p + 1 + i - 1]
    BY <1>0, SubSeqProperties, SMTT(30)
<1> DEFINE text == b \o chunk
<1> HIDE DEF chunk
<1>3. /\ text \in Seq(Marks) /\ Len(text) = Len(b) + Len(chunk)
      /\ \A i \in 1 .. Len(b) + Len(chunk) :
            text[i] = IF i <= Len(b) THEN b[i] ELSE chunk[i - Len(b)]
    BY <1>1, ConcatProperties
<1> HIDE DEF text
<1>4. ASSUME NEW i \in 1 .. n - k PROVE text[i] = w[k + i]
    <2>1. CASE i <= p - k
        BY <2>1, <1>0, <1>1, <1>3
    <2>2. CASE i > p - k
        <3>1. text[i] = chunk[i - (p - k)]
            BY <2>2, <1>0, <1>1, <1>3
        <3>2. /\ i - (p - k) \in 1 .. n - (p + 1) + 1
              /\ p + 1 + (i - (p - k)) - 1 = k + i
            BY <2>2, <1>0
        <3> QED BY <3>1, <3>2, <1>1
    <2> QED BY <2>1, <2>2, <1>0
<1> QED
    BY <1>0, <1>1, <1>3, <1>4, SMTT(30) DEF text, chunk

(* A chunk without a banner leaves the reader in step with the stream.     *)
LEMMA ReadsOn ==
    ASSUME NEW w \in Seq(Marks), NEW b \in Seq(Marks),
           NEW p \in 0 .. Len(w), Reads(w, b, p),
           NEW n \in p + 1 .. Len(w),
           Banner(b \o SubSeq(w, p + 1, n)) = NoPort
    PROVE  LET rest == Remainder(b \o SubSeq(w, p + 1, n)) IN
           rest \in Seq(Marks) /\ Reads(w, rest, n)
<1> DEFINE text == b \o SubSeq(w, p + 1, n)
<1>1. PICK k \in 0 .. p :
         /\ Len(b) = p - k
         /\ \A i \in 1 .. p - k : b[i] = w[k + i]
         /\ k = 0 \/ w[k] = "nl"
    BY DEF Reads
<1>2. /\ text \in Seq(Marks) /\ Len(text) = n - k
      /\ \A i \in 1 .. n - k : text[i] = w[k + i]
    BY <1>1, Joined
<1>text. text = b \o SubSeq(w, p + 1, n)
    OBVIOUS
<1> HIDE DEF text
<1>3. /\ Lines(text) \in 0 .. n - k
      /\ Lines(text) # 0 => text[Lines(text)] = "nl"
    BY <1>2, LastLine
<1>4. /\ Remainder(text) \in Seq(Marks)
      /\ Len(Remainder(text)) = n - k - Lines(text)
      /\ \A i \in 1 .. n - k - Lines(text) :
            Remainder(text)[i] = text[Lines(text) + i]
    BY <1>2, RemainderIs
<1>5. NoBanner(w, n)
    <2>1. SUFFICES ASSUME NEW i \in 1 .. n, NEW j \in 1 .. n,
                          i < j, w[i] \in Ports, w[j] = "nl"
                   PROVE  FALSE
        BY DEF NoBanner
    <2>2. CASE i <= k
        <3>1. k # 0 /\ i # k /\ w[k] = "nl"
            BY <2>1, <2>2, <1>1, Distinct
        <3>2. i < k /\ k \in 1 .. p /\ i \in 1 .. p
            BY <2>2, <3>1
        <3> QED BY <2>1, <3>1, <3>2 DEF Reads, NoBanner
    <2>3. CASE i > k
        <3>1. i - k \in 1 .. n - k /\ j - k \in 1 .. n - k /\ i - k < j - k
            BY <2>1, <2>3
        <3>2. text[i - k] = w[i] /\ text[j - k] = w[j]
            BY <3>1, <1>2
        <3>3. \A x, y \in 1 .. n - k : x < y /\ text[x] \in Ports => text[y] # "nl"
            BY <1>2, <1>text, BannerIs
        <3> QED BY <2>1, <3>1, <3>2, <3>3
    <2> QED BY <2>2, <2>3
<1>6. \E m \in 0 .. n :
         /\ Len(Remainder(text)) = n - m
         /\ \A i \in 1 .. n - m : Remainder(text)[i] = w[m + i]
         /\ m = 0 \/ w[m] = "nl"
    <2> DEFINE m == k + Lines(text)
    <2>1. m \in 0 .. n /\ Len(Remainder(text)) = n - m
        BY <1>3, <1>4
    <2>2. ASSUME NEW i \in 1 .. n - m PROVE Remainder(text)[i] = w[m + i]
        <3>1. i \in 1 .. n - k - Lines(text) /\ Lines(text) + i \in 1 .. n - k
            BY <1>3
        <3>2. Remainder(text)[i] = text[Lines(text) + i]
            BY <3>1, <1>4
        <3>3. text[Lines(text) + i] = w[k + (Lines(text) + i)]
            BY <3>1, <1>2
        <3>4. k + (Lines(text) + i) = m + i
            BY <1>3
        <3> QED BY <3>2, <3>3, <3>4
    <2>3. m = 0 \/ w[m] = "nl"
        <3>1. CASE Lines(text) = 0
            BY <3>1, <1>1
        <3>2. CASE Lines(text) # 0
            BY <3>2, <1>2, <1>3
        <3> QED BY <3>1, <3>2
    <2> HIDE DEF m
    <2> QED BY <2>1, <2>2, <2>3
<1> QED
    BY <1>4, <1>5, <1>6, <1>text DEF Reads

(* A banner found in a chunk was written to the stream.                    *)
LEMMA FindsWritten ==
    ASSUME NEW w \in Seq(Marks), NEW b \in Seq(Marks),
           NEW p \in 0 .. Len(w), Reads(w, b, p),
           NEW n \in p + 1 .. Len(w),
           Banner(b \o SubSeq(w, p + 1, n)) # NoPort
    PROVE  \E i \in 1 .. Len(w) :
              w[i] = Banner(b \o SubSeq(w, p + 1, n)) /\ w[i] \in Ports
<1> DEFINE text == b \o SubSeq(w, p + 1, n)
<1>1. PICK k \in 0 .. p :
         /\ Len(b) = p - k
         /\ \A i \in 1 .. p - k : b[i] = w[k + i]
    BY DEF Reads
<1>2. /\ text \in Seq(Marks) /\ Len(text) = n - k
      /\ \A i \in 1 .. n - k : text[i] = w[k + i]
    BY <1>1, Joined
<1>text. text = b \o SubSeq(w, p + 1, n)
    OBVIOUS
<1> HIDE DEF text
<1>3. PICK i \in 1 .. n - k : text[i] = Banner(text) /\ text[i] \in Ports
    BY <1>2, <1>text, BannerIs
<1>4. k + i \in 1 .. Len(w) /\ w[k + i] = text[i]
    BY <1>2
<1> QED
    BY <1>3, <1>4, <1>text

(* What is written later does not change what was read.                    *)
LEMMA WriteKeeps ==
    ASSUME NEW w \in Seq(Marks), NEW more \in Seq(Marks), NEW b \in Seq(Marks),
           NEW p \in 0 .. Len(w), Reads(w, b, p)
    PROVE  Reads(w \o more, b, p)
<1>1. \A i \in 1 .. Len(w) : (w \o more)[i] = w[i]
    OBVIOUS
<1>2. p \in Nat /\ p <= Len(w) /\ Len(w) \in Nat
    OBVIOUS
<1>3. PICK k \in 0 .. p :
         /\ Len(b) = p - k
         /\ \A i \in 1 .. p - k : b[i] = w[k + i]
         /\ k = 0 \/ w[k] = "nl"
    BY DEF Reads
<1> DEFINE v == w \o more
<1> HIDE DEF v
<1>4. \A i \in 1 .. Len(w) : v[i] = w[i]
    BY <1>1 DEF v
<1>5. \A i \in 1 .. p - k : b[i] = v[k + i]
    BY <1>2, <1>3, <1>4
<1>6. k = 0 \/ v[k] = "nl"
    BY <1>2, <1>3, <1>4, SMTT(30)
<1>7. NoBanner(v, p)
    <2>1. NoBanner(w, p)
        BY DEF Reads
    <2>2. \A i \in 1 .. p : v[i] = w[i]
        BY <1>2, <1>4
    <2> QED BY <2>1, <2>2 DEF NoBanner
<1> QED
    BY <1>3, <1>5, <1>6, <1>7 DEF Reads, v

-----------------------------------------------------------------------------
(* The invariant.                                                          *)

Ranges ==
    /\ said \in [Streams -> Seq(Marks)] /\ buf \in [Streams -> Seq(Marks)]
    /\ pos \in [Streams -> Nat]
    /\ \A s \in Streams : pos[s] <= Len(said[s])
    /\ bound \in Ports \cup {NoPort}

(* Jupyter names one port, the one it has bound, when it has bound it.     *)
OnePort ==
    /\ \A s \in Streams : \A i \in 1 .. Len(said[s]) :
          said[s][i] \in Ports => said[s][i] = bound
    /\ bound = "asked" => ~taken
    /\ jupyter \in {"none", "starting"} => bound = NoPort
    /\ call = "idle" => dog = "none"
    /\ dog \in {"none", "boot"} => jupyter = "none" /\ ~told

InStep ==
    /\ call \in {"idle", "reading"} =>
          \A s \in Streams : Reads(said[s], buf[s], pos[s])
    /\ call = "probing" => found \in Ports /\ found = bound

IInv == Ranges /\ OnePort /\ InStep

LEMMA InitInv == Init => IInv
<1> SUFFICES ASSUME Init PROVE IInv
    OBVIOUS
<1>1. \A s \in Streams : said[s] = <<>> /\ buf[s] = <<>> /\ pos[s] = 0
    BY DEF Init
<1>2. Ranges
    BY <1>1 DEF Init, Ranges
<1>3. OnePort
    <2>1. \A s \in Streams : Len(said[s]) = 0
        BY <1>1
    <2>2. \A s \in Streams : \A i \in 1 .. Len(said[s]) : said[s][i] = bound
        BY <2>1
    <2> QED BY <2>2 DEF Init, OnePort, NoPort
<1>4. Reads(<<>>, <<>>, 0)
    <2>1. 0 \in 0 .. 0 /\ Len(<<>>) = 0 - 0 /\ 1 .. 0 - 0 = {} /\ 1 .. 0 = {}
        OBVIOUS
    <2>2. NoBanner(<<>>, 0)
        BY <2>1 DEF NoBanner
    <2> QED BY <2>1, <2>2 DEF Reads
<1>5. InStep
    BY <1>1, <1>4 DEF Init, InStep
<1> QED
    BY <1>2, <1>3, <1>5 DEF IInv

(* A chunk.                                                                *)
LEMMA ReadInv ==
    ASSUME IInv, NEW s \in Streams, Read(s)
    PROVE  IInv'
<1>1. PICK n \in pos[s] + 1 .. Len(said[s]) :
         /\ pos' = [pos EXCEPT ![s] = n]
         /\ buf' = [buf EXCEPT
               ![s] = Remainder(buf[s] \o SubSeq(said[s], pos[s] + 1, n))]
         /\ found' = Banner(buf[s] \o SubSeq(said[s], pos[s] + 1, n))
         /\ call' = IF Banner(buf[s] \o SubSeq(said[s], pos[s] + 1, n)) = NoPort
                    THEN "reading" ELSE "probing"
    BY DEF Read
<1> DEFINE text == buf[s] \o SubSeq(said[s], pos[s] + 1, n)
<1>2. /\ said[s] \in Seq(Marks) /\ buf[s] \in Seq(Marks)
      /\ pos[s] \in 0 .. Len(said[s]) /\ Len(said[s]) \in Nat
    BY DEF IInv, Ranges
<1>3. Reads(said[s], buf[s], pos[s]) /\ call = "reading"
    BY DEF IInv, InStep, Read
<1>4. UNCHANGED <<europa, pending, kill, dog, asked, jupyter, told, deaf, taken, bound, said>>
    BY DEF Read, watchdog, server
<1>5. Remainder(text) \in Seq(Marks)
    <2>1. PICK k \in 0 .. pos[s] :
             /\ Len(buf[s]) = pos[s] - k
             /\ \A i \in 1 .. pos[s] - k : buf[s][i] = said[s][k + i]
        BY <1>3 DEF Reads
    <2>2. text \in Seq(Marks)
        BY <1>2, <2>1, Joined
    <2> HIDE DEF text
    <2> QED BY <2>2, RemainderIs
<1>6. Ranges'
    <2> HIDE DEF text
    <2>1. buf' \in [Streams -> Seq(Marks)]
        BY <1>1, <1>5 DEF IInv, Ranges, text
    <2>2. pos' \in [Streams -> Nat] /\ \A t \in Streams : pos'[t] <= Len(said[t])
        BY <1>1, <1>2 DEF IInv, Ranges
    <2> QED BY <1>4, <2>1, <2>2 DEF IInv, Ranges
<1>7. OnePort'
    BY <1>1, <1>3, <1>4 DEF IInv, OnePort
<1>8. CASE Banner(text) = NoPort
    <2>1. Reads(said[s], Remainder(text), n)
        BY <1>1, <1>2, <1>3, <1>8, ReadsOn
    <2>2. call' = "reading" /\ buf'[s] = Remainder(text) /\ pos'[s] = n
        BY <1>1, <1>8 DEF IInv, Ranges
    <2>3. \A t \in Streams : t # s => buf'[t] = buf[t] /\ pos'[t] = pos[t]
        BY <1>1 DEF IInv, Ranges
    <2> HIDE DEF text
    <2>4. \A t \in Streams : Reads(said[t], buf'[t], pos'[t])
        BY <1>3, <2>1, <2>2, <2>3 DEF IInv, InStep
    <2>5. InStep'
        BY <1>4, <2>2, <2>4 DEF InStep
    <2> QED BY <1>6, <1>7, <2>5 DEF IInv
<1>9. CASE Banner(text) # NoPort
    <2>0. \E i \in 1 .. Len(said[s]) :
             said[s][i] = Banner(text) /\ said[s][i] \in Ports
        <3>1. n \in pos[s] + 1 .. Len(said[s]) /\ Reads(said[s], buf[s], pos[s])
            BY <1>3
        <3> QED BY ONLY <3>1, <1>2, <1>9, FindsWritten
    <2>1. PICK i \in 1 .. Len(said[s]) :
             said[s][i] = Banner(text) /\ said[s][i] \in Ports
        BY <2>0
    <2>2. call' = "probing" /\ found' = Banner(text)
        BY <1>1, <1>9
    <2> HIDE DEF text
    <2>3. found' \in Ports /\ found' = bound'
        BY <1>4, <2>1, <2>2 DEF IInv, OnePort
    <2>4. InStep'
        BY <2>2, <2>3 DEF InStep
    <2> QED BY <1>6, <1>7, <2>4 DEF IInv
<1> QED
    BY <1>8, <1>9

(* A write of Jupyter to one stream, all its marks of one port or none.    *)
LEMMA WriteInv ==
    ASSUME IInv, NEW s \in Streams, NEW text \in Seq(Marks),
           Writes(s, text), bound' \in Ports \cup {NoPort},
           \A i \in 1 .. Len(text) : text[i] \in Ports => text[i] = bound',
           bound = NoPort \/ bound' = bound,
           UNCHANGED <<call, buf, pos, found, dog, told, taken>>
    PROVE  /\ Ranges' /\ InStep'
           /\ \A t \in Streams : \A i \in 1 .. Len(said'[t]) :
                 said'[t][i] \in Ports => said'[t][i] = bound'
<1>1. /\ said[s] \in Seq(Marks) /\ said'[s] = said[s] \o text
      /\ \A t \in Streams : t # s => said'[t] = said[t]
    BY DEF IInv, Ranges, Writes
<1>2. /\ said'[s] \in Seq(Marks) /\ Len(said'[s]) = Len(said[s]) + Len(text)
      /\ \A i \in 1 .. Len(said[s]) + Len(text) : said'[s][i] =
            IF i <= Len(said[s]) THEN said[s][i] ELSE text[i - Len(said[s])]
    BY <1>1, ConcatProperties
<1>3. Len(said[s]) \in Nat /\ Len(text) \in Nat
    BY <1>1
<1>4. Ranges'
    BY <1>1, <1>2, <1>3 DEF IInv, Ranges, Writes
<1>5. InStep'
    <2>1. ASSUME call' \in {"idle", "reading"}, NEW t \in Streams
          PROVE  Reads(said'[t], buf'[t], pos'[t])
        <3>1. /\ Reads(said[t], buf[t], pos[t]) /\ buf[t] \in Seq(Marks)
              /\ pos[t] \in 0 .. Len(said[t]) /\ said[t] \in Seq(Marks)
            BY <2>1 DEF IInv, InStep, Ranges
        <3>2. CASE t = s
            BY <3>1, <3>2, <1>1, WriteKeeps
        <3>3. CASE t # s
            BY <3>1, <3>3, <1>1
        <3> QED BY <3>2, <3>3
    <2>2. ASSUME call' = "probing" PROVE found' \in Ports /\ found' = bound'
        BY <2>2, Distinct DEF IInv, InStep
    <2> QED BY <2>1, <2>2 DEF InStep
<1>6. ASSUME NEW t \in Streams, NEW i \in 1 .. Len(said'[t]), said'[t][i] \in Ports
      PROVE  said'[t][i] = bound'
    <2>1. CASE t = s /\ i > Len(said[s])
        <3>1. i - Len(said[s]) \in 1 .. Len(text)
            BY <1>2, <1>3, <1>6, <2>1
        <3> QED BY <3>1, <2>1, <1>2, <1>3, <1>6, SMTT(30)
    <2>2. CASE ~(t = s /\ i > Len(said[s]))
        <3>1. said'[t][i] = said[t][i] /\ i \in 1 .. Len(said[t])
            BY <1>1, <1>2, <1>3, <1>6, <2>2
        <3>2. said[t][i] = bound
            BY <3>1, <1>6 DEF IInv, OnePort
        <3> QED BY <3>1, <3>2, <1>6, Distinct
    <2> QED BY <2>1, <2>2
<1> QED
    BY <1>4, <1>5, <1>6

LEMMA JupyterInv == ASSUME IInv, Jupyter PROVE IInv'
<1>1. CASE Logs
    <2>1. PICK s \in Streams : Writes(s, <<"text", "nl">>)
        BY <1>1 DEF Logs
    <2>2. /\ UNCHANGED <<call, buf, pos, found, dog, told, taken, bound>>
          /\ jupyter = "starting" /\ jupyter' = jupyter
        BY <1>1 DEF Logs, spawning, watchdog
    <2>3. <<"text", "nl">> \in Seq(Marks)
        BY DEF Marks
    <2>4. \A i \in 1 .. Len(<<"text", "nl">>) : <<"text", "nl">>[i] \notin Ports
        BY Distinct
    <2>5. /\ Ranges' /\ InStep'
          /\ \A t \in Streams : \A i \in 1 .. Len(said'[t]) :
                said'[t][i] \in Ports => said'[t][i] = bound'
        BY <2>1, <2>2, <2>3, <2>4, WriteInv DEF IInv, Ranges
    <2>6. OnePort'
        BY <2>2, <2>5 DEF IInv, OnePort
    <2> QED BY <2>5, <2>6 DEF IInv
<1>2. CASE Announces
    <2>1. PICK s \in Streams : Writes(s, <<"text", bound', "nl">>)
        BY <1>2 DEF Announces
    <2>2. /\ UNCHANGED <<call, buf, pos, found, dog, told, taken>>
          /\ jupyter = "starting" /\ jupyter' = "announced"
          /\ bound' = IF taken THEN "other" ELSE "asked"
        BY <1>2 DEF Announces, spawning, watchdog
    <2>3. bound = NoPort /\ bound' \in Ports
        BY <2>2 DEF IInv, OnePort, Ports
    <2>4. <<"text", bound', "nl">> \in Seq(Marks)
        BY <2>3 DEF Marks
    <2>5. \A i \in 1 .. Len(<<"text", bound', "nl">>) :
             <<"text", bound', "nl">>[i] \in Ports => <<"text", bound', "nl">>[i] = bound'
        BY Distinct
    <2>6. /\ Ranges' /\ InStep'
          /\ \A t \in Streams : \A i \in 1 .. Len(said'[t]) :
                said'[t][i] \in Ports => said'[t][i] = bound'
        BY <2>1, <2>2, <2>3, <2>4, <2>5, WriteInv
    <2>7. OnePort'
        BY <2>2, <2>6 DEF IInv, OnePort
    <2> QED BY <2>6, <2>7 DEF IInv
<1>3. CASE Serves \/ Heeds \/ Crashes
    <2>1. /\ UNCHANGED <<call, buf, pos, found, dog, told, taken, bound, said>>
          /\ jupyter' \in {"serving", "dead"}
          /\ jupyter # "none" \/ told
        BY <1>3 DEF Serves, Heeds, Crashes, spawning, watchdog
    <2>2. Ranges' /\ InStep'
        BY <2>1 DEF IInv, Ranges, InStep
    <2>3. OnePort'
        BY <2>1 DEF IInv, OnePort
    <2> QED BY <2>2, <2>3 DEF IInv
<1> QED
    BY <1>1, <1>2, <1>3 DEF Jupyter

(* A call that ends, and the watchdog.                                     *)
LEMMA RestInv ==
    ASSUME IInv,
           \/ Spawn \/ StreamEnds \/ BothEnd \/ Abort \/ Probe \/ ProbeTimesOut
           \/ Kill \/ Killing \/ EuropaDies \/ Watchdog
    PROVE  IInv'
<1>1. /\ UNCHANGED <<buf, pos, found, taken, bound, said>>
      /\ call' = call \/ call' \in {"failed", "ready"} \/ (call = "idle" /\ call' = "reading")
    BY DEF Spawn, StreamEnds, BothEnd, Abort, Probe, ProbeTimesOut, Kill, Killing,
           Killed, KillTimesOut, EuropaDies, Watchdog, Fork, Listen, StopPolling,
           EndJupyter, Fail, spawning, watchdog, server
<1>2. Ranges' /\ InStep'
    BY <1>1 DEF IInv, Ranges, InStep
<1>3. /\ jupyter' \in {"none", "starting"} => bound' = NoPort
      /\ call' = "idle" => dog' = "none"
      /\ dog' \in {"none", "boot"} => jupyter' = "none" /\ ~told'
    <2>1. CASE Spawn
        BY <2>1 DEF Spawn, server, IInv, OnePort
    <2>2. CASE StreamEnds
        BY <2>2 DEF StreamEnds, watchdog, server, IInv, OnePort
    <2>3. CASE BothEnd \/ Abort \/ ProbeTimesOut
        BY <2>3 DEF BothEnd, Abort, ProbeTimesOut, Fail, Terminate, server, IInv, OnePort
    <2>4. CASE Probe
        BY <2>4 DEF Probe, watchdog, server, IInv, OnePort
    <2>5. CASE Kill
        BY <2>5 DEF Kill, Terminate, spawning, watchdog, server, IInv, OnePort
    <2>6. CASE Killing
        BY <2>6 DEF Killing, Killed, KillTimesOut, spawning, watchdog, server, IInv, OnePort
    <2>7. CASE EuropaDies
        BY <2>7 DEF EuropaDies, spawning, watchdog, server, IInv, OnePort
    <2>8. CASE Fork
        BY <2>8 DEF Fork, spawning, IInv, OnePort
    <2>9. CASE Listen \/ StopPolling \/ EndJupyter
        BY <2>9 DEF Listen, StopPolling, EndJupyter, spawning, server, IInv, OnePort
    <2> QED BY <2>1, <2>2, <2>3, <2>4, <2>5, <2>6, <2>7, <2>8, <2>9 DEF Watchdog
<1>4. OnePort'
    BY <1>1, <1>3 DEF IInv, OnePort
<1> QED
    BY <1>2, <1>4 DEF IInv

LEMMA NextInv == IInv /\ [Next]_vars => IInv'
<1> SUFFICES ASSUME IInv, [Next]_vars PROVE IInv'
    OBVIOUS
<1>1. CASE \E s \in Streams : Read(s)
    BY <1>1, ReadInv
<1>2. CASE Jupyter
    BY <1>2, JupyterInv
<1>3. CASE \/ Spawn \/ StreamEnds \/ BothEnd \/ Abort \/ Probe \/ ProbeTimesOut
           \/ Kill \/ Killing \/ EuropaDies \/ Watchdog
    BY <1>3, RestInv
<1>4. CASE UNCHANGED vars
    BY <1>4 DEF vars, spawning, watchdog, server, IInv, Ranges, OnePort, InStep
<1> QED
    BY <1>1, <1>2, <1>3, <1>4 DEF Next, Spawning, Reading, Probing

LEMMA SpecInv == FairSpec => []IInv
BY InitInv, NextInv, PTL DEF FairSpec

-----------------------------------------------------------------------------
(* However a banner is cut into chunks and whichever stream it comes on, a *)
(* call that still reads has not had all of one (server-process.ts,        *)
(* findStartupLine), for any text before and after it.                     *)
THEOREM NoBannerIsMissed == FairSpec => []BannerNotMissed
<1>1. IInv => BannerNotMissed
    <2> SUFFICES ASSUME IInv, call = "reading", NEW s \in Streams,
                        Banner(SubSeq(said[s], 1, pos[s])) # NoPort
                 PROVE  FALSE
        BY DEF BannerNotMissed
    <2> DEFINE text == SubSeq(said[s], 1, pos[s])
    <2>1. /\ said[s] \in Seq(Marks) /\ pos[s] \in 0 .. Len(said[s])
          /\ NoBanner(said[s], pos[s])
        BY DEF IInv, Ranges, InStep, Reads
    <2>2. /\ text \in Seq(Marks) /\ Len(text) = pos[s]
          /\ \A i \in 1 .. pos[s] : text[i] = said[s][i]
        BY <2>1
    <2> HIDE DEF text
    <2>3. PICK i, j \in 1 .. pos[s] : i < j /\ text[i] \in Ports /\ text[j] = "nl"
        BY <2>2, BannerIs DEF text
    <2> QED BY <2>1, <2>2, <2>3 DEF NoBanner
<1> QED
    BY <1>1, SpecInv, PTL

(* A handle is given for the server Jupyter listens on, and not before it  *)
(* answers (server-process.ts, waitForHttpReady).                          *)
THEOREM AHandleServes == FairSpec => ReadyServes
<1>1. IInv /\ [Next]_vars =>
         [call # "ready" /\ call' = "ready" => jupyter = "serving" /\ found = bound]_vars
    <2> SUFFICES ASSUME IInv, Next, call # "ready", call' = "ready"
                 PROVE  jupyter = "serving" /\ found = bound
        OBVIOUS
    <2>1. Probe
        <3>1. ~(\E s \in Streams : Read(s))
            BY DEF Read
        <3>2. ~Jupyter
            BY DEF Jupyter, Logs, Announces, Serves, Heeds, Crashes, spawning
        <3>3. ~Watchdog /\ ~Kill /\ ~Killing /\ ~EuropaDies
            BY DEF Watchdog, Fork, Listen, StopPolling, EndJupyter, Kill, Killing,
                   Killed, KillTimesOut, EuropaDies, spawning
        <3>4. ~Spawn /\ ~StreamEnds /\ ~BothEnd /\ ~Abort /\ ~ProbeTimesOut
            BY DEF Spawn, StreamEnds, BothEnd, Abort, ProbeTimesOut, Fail
        <3> QED BY <3>1, <3>2, <3>3, <3>4 DEF Next, Spawning, Reading, Probing
    <2>2. found \in Ports /\ found = bound /\ Answers(found)
        BY <2>1 DEF Probe, IInv, InStep
    <2> QED BY <2>2 DEF Answers, IInv, OnePort
<1> QED
    BY <1>1, SpecInv, PTL DEF FairSpec, ReadyServes
=============================================================================

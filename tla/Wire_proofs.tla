---------------------------- MODULE Wire_proofs ----------------------------
(***************************************************************************)
(* Proofs about Wire, for any lines of any client, in any chunks: first    *)
(* what the codecs make of any text, then what parsing and handling make   *)
(* of any line, which gives what every value that is sent has in common;   *)
(* then how the reading loop cuts the bytes of any lines, wherever chunks  *)
(* end, which gives that each line is answered; and last what becomes of a *)
(* login or a message, which gives that messages get through.              *)
(***************************************************************************)
EXTENDS Wire, SequenceLemmas, TLAPS

-----------------------------------------------------------------------------
(* What holds of the empty text and of a text with one more symbol in      *)
(* front holds of every text.                                              *)
LEMMA TextInduction ==
    ASSUME NEW T, NEW S, <<>> \in S, \A a \in T, z \in Seq(T) : z \in S => Cons(a, z) \in S
    PROVE  Seq(T) \subseteq S
<1> DEFINE N == {n \in Nat : \A w \in Seq(T) : Len(w) = n => w \in S}
<1>1. 0 \in N
  <2>1. \A w \in Seq(T) : Len(w) = 0 => w = <<>>
    OBVIOUS
  <2> QED
    BY <2>1
<1>2. ASSUME NEW n \in Nat, n \in N PROVE n + 1 \in N
  <2> SUFFICES ASSUME NEW w \in Seq(T), Len(w) = n + 1 PROVE w \in S
    OBVIOUS
  <2>1. IsSeq(w) /\ w # <<>>
    BY SeqIsSeq, EmptyIsSeq
  <2>2. Cons(Head(w), Tail(w)) = w
    BY <2>1, HeadAndTail DEF Cons
  <2>3. Head(w) \in T /\ Tail(w) \in Seq(T) /\ Len(Tail(w)) = n
    BY <2>1
  <2>4. Tail(w) \in S
    BY <1>2, <2>3
  <2> QED
    BY <2>2, <2>3, <2>4
<1> HIDE DEF N
<1>3. Nat \subseteq N
  BY <1>1, <1>2, Induct
<1> SUFFICES ASSUME NEW w \in Seq(T) PROVE w \in S
  OBVIOUS
<1>4. Len(w) \in N
  BY <1>3
<1> QED
  BY <1>4 DEF N

LEMMA FrontFacts ==
    ASSUME NEW T, NEW a \in T, NEW z \in Seq(T)
    PROVE  /\ Cons(a, z) \in Seq(T) /\ Len(Cons(a, z)) = Len(z) + 1 /\ Len(z) \in Nat
           /\ (Cons(a, z))[1] = a
           /\ \A i \in 1 .. Len(z) : (Cons(a, z))[i + 1] = z[i]
<1> DEFINE s == <<a>>
<1>1. s \in Seq(T) /\ Len(s) = 1 /\ s[1] = a
  OBVIOUS
<1> HIDE DEF s
<1>2. s \o z \in Seq(T) /\ IsJoin(s \o z, s, z)
  BY <1>1, JoinFacts
<1> DEFINE c == s \o z
<1> HIDE DEF c
<1>3. Len(z) \in Nat
  OBVIOUS
<1>4. c \in Seq(T) /\ Len(c) = Len(z) + 1 /\ c[1] = a /\ \A i \in 1 .. Len(z) : c[i + 1] = z[i]
  BY <1>1, <1>2, <1>3 DEF IsJoin, c
<1> QED
  BY <1>3, <1>4 DEF c, s, Cons

-----------------------------------------------------------------------------
(* PairsReplaced.  f is its recursive function for the text w, with P[c]   *)
(* for a backslash and c.                                                  *)
ScanStep(f, P, w, i) ==
    IF i = Len(w) + 1 THEN <<>>
    ELSE IF w[i] = BS /\ i < Len(w) THEN P[w[i + 1]] \o f[i + 2] ELSE <<w[i]>> \o f[i + 1]
Scans(f, P, w) == f = [i \in 1 .. Len(w) + 1 |-> ScanStep(f, P, w, i)]

(* f is the scan g of z, with the symbol a in front.                       *)
Grown(f, g, P, a, z) ==
    /\ Scans(f, P, Cons(a, z))
    /\ f[1] = (IF a = BS /\ z # <<>> THEN P[z[1]] \o g[2] ELSE <<a>> \o g[1])
    /\ \A i \in 1 .. Len(z) + 1 : f[i + 1] = g[i]

LEMMA ScanGrows ==
    ASSUME NEW T, NEW P, NEW a \in T, NEW z \in Seq(T), NEW g, Scans(g, P, z)
    PROVE  \E f : Grown(f, g, P, a, z)
<1> DEFINE w == Cons(a, z)
           n == Len(z)
           e == IF a = BS /\ z # <<>> THEN P[z[1]] \o g[2] ELSE <<a>> \o g[1]
           f == [i \in 1 .. n + 2 |-> IF i = 1 THEN e ELSE g[i - 1]]
<1>1. /\ Len(w) = n + 1 /\ n \in Nat /\ w[1] = a
      /\ \A i \in 1 .. n : w[i + 1] = z[i]
  BY FrontFacts
<1>2. z # <<>> <=> n # 0
  OBVIOUS
<1> HIDE DEF w, n, e
<1>3. f[1] = e /\ \A i \in 1 .. n + 1 : f[i + 1] = g[i]
  BY <1>1
<1>4. f = [i \in 1 .. n + 2 |-> f[i]]
  OBVIOUS
<1>5. \A i \in 1 .. n + 1 : g[i] = ScanStep(g, P, z, i)
  BY DEF Scans, n
<1> HIDE DEF f
<1>6. ASSUME NEW i \in 1 .. n + 2 PROVE f[i] = ScanStep(f, P, w, i)
  <2>1. CASE i = 1
    <3>1. i # Len(w) + 1 /\ (i < Len(w) <=> n # 0)
      BY <1>1, <2>1
    <3>2. n # 0 => (f[3] = g[2] /\ w[2] = z[1])
      <4>1. n # 0 => 2 \in 1 .. n + 1 /\ 1 \in 1 .. n
        BY <1>1
      <4> QED
        BY <1>1, <1>3, <4>1
    <3>3. f[2] = g[1]
      <4>1. 1 \in 1 .. n + 1
        BY <1>1
      <4> QED
        BY <1>3, <4>1
    <3>4. ScanStep(f, P, w, 1) =
             IF a = BS /\ n # 0 THEN P[w[2]] \o f[3] ELSE <<a>> \o f[2]
      BY <1>1, <2>1, <3>1 DEF ScanStep
    <3> QED
      BY <1>2, <1>3, <2>1, <3>2, <3>3, <3>4 DEF e
  <2>2. CASE i # 1
    <3> DEFINE j == i - 1
    <3>1. j \in 1 .. n + 1 /\ i = j + 1
      BY <1>1, <2>2
    <3>2. f[i] = ScanStep(g, P, z, j)
      BY <1>3, <1>5, <3>1
    <3> HIDE DEF j
    <3>3. CASE j = n + 1
      <4>1. i = Len(w) + 1 /\ j = Len(z) + 1
        BY <1>1, <3>1, <3>3 DEF n
      <4> QED
        BY <3>2, <4>1 DEF ScanStep
    <3>4. CASE j # n + 1
      <4>1. i # Len(w) + 1 /\ j # Len(z) + 1 /\ (i < Len(w) <=> j < Len(z)) /\ w[i] = z[j]
        BY <1>1, <3>1, <3>4 DEF n
      <4>2. f[i + 1] = g[j + 1]
        <5>1. j + 1 \in 1 .. n + 1
          BY <1>1, <3>1, <3>4
        <5> QED
          BY <1>3, <3>1, <5>1
      <4>3. j < Len(z) => w[i + 1] = z[j + 1] /\ f[i + 2] = g[j + 2]
        <5>1. j < Len(z) => j + 1 \in 1 .. n /\ j + 2 \in 1 .. n + 1
          BY <1>1, <3>1, <3>4 DEF n
        <5>2. i + 1 = (j + 1) + 1 /\ i + 2 = (j + 2) + 1
          BY <3>1
        <5> QED
          BY <1>1, <1>3, <5>1, <5>2
      <4> QED
        BY <3>2, <4>1, <4>2, <4>3 DEF ScanStep
    <3> QED
      BY <3>3, <3>4
  <2> QED
    BY <2>1, <2>2
<1>7. Scans(f, P, w)
  <2>1. n + 2 = Len(w) + 1
    BY <1>1
  <2>2. f = [i \in 1 .. n + 2 |-> ScanStep(f, P, w, i)]
    BY <1>4, <1>6
  <2> QED
    BY <2>1, <2>2 DEF Scans
<1> QED
  BY <1>3, <1>7 DEF w, n, e, Grown

LEMMA ScanExists ==
    ASSUME NEW T, NEW P, NEW w \in Seq(T)
    PROVE  \E f : Scans(f, P, w)
<1> DEFINE S == {v \in Seq(T) : \E f : Scans(f, P, v)}
<1>1. <<>> \in S
  <2> DEFINE f == [i \in 1 .. 1 |-> <<>>]
  <2>1. Len(<<>>) + 1 = 1 /\ <<>> \in Seq(T)
    OBVIOUS
  <2>2. \A i \in 1 .. 1 : ScanStep(f, P, <<>>, i) = <<>>
    BY <2>1 DEF ScanStep
  <2>3. f = [i \in 1 .. 1 |-> ScanStep(f, P, <<>>, i)]
    BY <2>2
  <2> HIDE DEF f
  <2>4. Scans(f, P, <<>>)
    BY <2>1, <2>3 DEF Scans
  <2> QED
    BY <2>1, <2>4
<1>2. ASSUME NEW a \in T, NEW z \in Seq(T), z \in S PROVE Cons(a, z) \in S
  BY <1>2, ScanGrows, FrontFacts DEF Grown
<1> HIDE DEF S
<1>3. Seq(T) \subseteq S
  BY <1>1, <1>2, TextInduction
<1> QED
  BY <1>3 DEF S

(* There is only one.                                                      *)
LEMMA ScanUnique ==
    ASSUME NEW T, NEW P, NEW w \in Seq(T), NEW f, NEW g, Scans(f, P, w), Scans(g, P, w)
    PROVE  f = g
<1> DEFINE n == Len(w)
           D == {k \in 0 .. n : f[n + 1 - k] # g[n + 1 - k]}
<1>1. n \in Nat
  OBVIOUS
<1>2. /\ \A i \in 1 .. n + 1 : f[i] = ScanStep(f, P, w, i) /\ g[i] = ScanStep(g, P, w, i)
      /\ f = [i \in 1 .. n + 1 |-> f[i]] /\ g = [i \in 1 .. n + 1 |-> g[i]]
  <2>1. f = [i \in 1 .. n + 1 |-> ScanStep(f, P, w, i)] /\ g = [i \in 1 .. n + 1 |-> ScanStep(g, P, w, i)]
    BY DEF Scans
  <2> QED
    BY <2>1
<1>3. D = {}
  <2> SUFFICES ASSUME D # {} PROVE FALSE
    OBVIOUS
  <2>1. PICK k \in D : \A l \in D : k <= l
    <3>1. D \subseteq Nat
      OBVIOUS
    <3> HIDE DEF D
    <3> QED
      BY <3>1, Smallest
  <2> DEFINE i == n + 1 - k
  <2>2. k \in 0 .. n /\ f[i] # g[i] /\ i \in 1 .. n + 1
    BY <1>1, <2>1
  <2>3. \A l \in 0 .. n : l < k => f[n + 1 - l] = g[n + 1 - l]
    BY <1>1, <2>1
  <2>4. \A j \in 1 .. n + 1 : j > i => f[j] = g[j]
    <3> SUFFICES ASSUME NEW j \in 1 .. n + 1, j > i PROVE f[j] = g[j]
      OBVIOUS
    <3>1. n + 1 - j \in 0 .. n /\ n + 1 - j < k /\ n + 1 - (n + 1 - j) = j
      BY <1>1, <2>2
    <3> QED
      BY <2>3, <3>1
  <2> HIDE DEF i, D
  <2>5. ScanStep(f, P, w, i) = ScanStep(g, P, w, i)
    <3>1. CASE i = n + 1
      BY <3>1 DEF ScanStep, n
    <3>2. CASE i # n + 1
      <4>1. i + 1 \in 1 .. n + 1 /\ i + 1 > i /\ (i < n => i + 2 \in 1 .. n + 1 /\ i + 2 > i)
        BY <1>1, <2>2, <3>2
      <4>2. f[i + 1] = g[i + 1] /\ (i < n => f[i + 2] = g[i + 2])
        BY <2>4, <4>1
      <4> QED
        BY <3>2, <4>2 DEF ScanStep, n
    <3> QED
      BY <3>1, <3>2
  <2> QED
    BY <1>2, <2>2, <2>5
<1>4. ASSUME NEW i \in 1 .. n + 1 PROVE f[i] = g[i]
  <2>1. n + 1 - i \in 0 .. n /\ n + 1 - (n + 1 - i) = i
    BY <1>1
  <2> QED
    BY <1>3, <2>1
<1> HIDE DEF n, D
<1> QED
  BY <1>2, <1>4

(* What PairsReplaced makes of w.                                          *)
Replaced(P, w) == (CHOOSE f : Scans(f, P, w))[1]

LEMMA ReplacedIs ==
    ASSUME NEW T, NEW P, NEW w \in Seq(T), NEW f, Scans(f, P, w)
    PROVE  Replaced(P, w) = f[1]
<1> DEFINE g == CHOOSE h : Scans(h, P, w)
<1>1. Scans(g, P, w)
  OBVIOUS
<1> HIDE DEF g
<1>2. f = g
  BY <1>1, ScanUnique
<1> QED
  BY <1>2 DEF Replaced, g

LEMMA ReplacedEmpty == ASSUME NEW P PROVE Replaced(P, <<>>) = <<>>
<1> DEFINE w == <<>>
<1>1. w \in Seq({}) /\ Len(w) = 0
  OBVIOUS
<1> HIDE DEF w
<1>2. PICK f : Scans(f, P, w)
  BY <1>1, ScanExists
<1>3. f[1] = ScanStep(f, P, w, 1)
  BY <1>1, <1>2 DEF Scans
<1>4. f[1] = <<>>
  BY <1>1, <1>3 DEF ScanStep
<1> QED
  BY <1>1, <1>2, <1>4, ReplacedIs, ZenonT(30) DEF w

LEMMA ReplacedFront ==
    ASSUME NEW T, NEW P, NEW a \in T, NEW z \in Seq(T), a # BS \/ z = <<>>
    PROVE  Replaced(P, Cons(a, z)) = Cons(a, Replaced(P, z))
<1>1. PICK g : Scans(g, P, z)
  BY ScanExists
<1>2. PICK f : Grown(f, g, P, a, z)
  BY <1>1, ScanGrows
<1>3. Cons(a, z) \in Seq(T) /\ Scans(f, P, Cons(a, z)) /\ f[1] = <<a>> \o g[1]
  BY <1>2, FrontFacts DEF Grown
<1>4. Replaced(P, Cons(a, z)) = f[1] /\ Replaced(P, z) = g[1]
  BY <1>1, <1>3, ReplacedIs
<1> QED
  BY <1>3, <1>4 DEF Cons

LEMMA ReplacedPair ==
    ASSUME NEW T, NEW P, BS \in T, NEW c \in T, NEW z \in Seq(T)
    PROVE  Replaced(P, Cons(BS, Cons(c, z))) = P[c] \o Replaced(P, z)
<1> DEFINE y == Cons(c, z)
<1>1. y \in Seq(T) /\ y # <<>> /\ y[1] = c
  BY FrontFacts, EmptyIsSeq
<1>2. PICK g : Scans(g, P, z)
  BY ScanExists
<1>3. PICK h : Grown(h, g, P, c, z)
  BY <1>2, ScanGrows
<1>4. Scans(h, P, y) /\ h[2] = g[1]
  <2>1. 1 \in 1 .. Len(z) + 1 /\ 1 + 1 = 2
    OBVIOUS
  <2> QED
    BY <1>3, <2>1 DEF Grown
<1> HIDE DEF y
<1>5. PICK f : Grown(f, h, P, BS, y)
  BY <1>1, <1>4, ScanGrows
<1>6. Cons(BS, y) \in Seq(T)
  BY <1>1, FrontFacts
<1>7. Scans(f, P, Cons(BS, y)) /\ f[1] = P[y[1]] \o h[2]
  BY <1>1, <1>5 DEF Grown
<1>8. Replaced(P, Cons(BS, y)) = f[1] /\ Replaced(P, z) = g[1]
  BY <1>2, <1>6, <1>7, ReplacedIs
<1> QED
  BY <1>1, <1>4, <1>7, <1>8 DEF y

(* What holds of the empty text and of a lone backslash, and with a text   *)
(* also with a symbol or a pair in front of it, holds of every text.       *)
LEMMA PairInduction ==
    ASSUME NEW T, NEW S, <<>> \in S, <<BS>> \in S,
           \A a \in T \ {BS}, z \in Seq(T) : z \in S => Cons(a, z) \in S,
           \A c \in T, z \in Seq(T) : z \in S => Cons(BS, Cons(c, z)) \in S
    PROVE  Seq(T) \subseteq S
<1> DEFINE R == {w \in Seq(T) : w \in S /\ \A a \in T : Cons(a, w) \in S}
<1>1. <<>> \in R
  <2>1. ASSUME NEW a \in T PROVE Cons(a, <<>>) \in S
    <3>1. CASE a = BS
      <4>1. Cons(a, <<>>) = <<a>>
        BY SingleIsSeq, ConcatEmpty DEF Cons
      <4> QED
        BY <3>1, <4>1
    <3>2. CASE a # BS
      <4>1. <<>> \in Seq(T)
        OBVIOUS
      <4> QED
        BY <3>2, <4>1
    <3> QED
      BY <3>1, <3>2
  <2> QED
    BY <2>1
<1>2. ASSUME NEW a \in T, NEW z \in Seq(T), z \in R PROVE Cons(a, z) \in R
  <2> DEFINE y == Cons(a, z)
  <2>1. y \in Seq(T) /\ y \in S /\ z \in S
    BY <1>2, FrontFacts
  <2>2. Cons(BS, y) \in S
    BY <2>1
  <2> HIDE DEF y
  <2>3. ASSUME NEW b \in T PROVE Cons(b, y) \in S
    <3>1. CASE b = BS
      BY <2>2, <3>1
    <3>2. CASE b # BS
      BY <2>1, <3>2
    <3> QED
      BY <3>1, <3>2
  <2> QED
    BY <2>1, <2>3 DEF y
<1> HIDE DEF R
<1>3. Seq(T) \subseteq R
  BY <1>1, <1>2, TextInduction
<1> QED
  BY <1>3 DEF R

-----------------------------------------------------------------------------
(* The three ways to read a text, for an alphabet T.                       *)
ServerPair(T) == [c \in T |-> IF c = BS THEN <<BS, BS>> ELSE Unlettered(c, <<Bad>>)]
ClientPair(T) == [c \in T |-> IF c = BS THEN <<BS>> ELSE Unlettered(c, <<Unknown>>)]
HaxPair(T)    == [c \in T |-> IF c = BS THEN <<BS>> ELSE Unlettered(c, <<BS, c>>)]

LEMMA ServerReads ==
    ASSUME NEW T, NEW w \in Seq(T)
    PROVE  ServerUnescape(w) = Replaced(ServerPair(T), w)
<1> DEFINE P == ServerPair(T)
           body(c) == IF c = BS THEN <<BS, BS>> ELSE Unlettered(c, <<Bad>>)
           step(f, i) == CASE i = Len(w) + 1          -> <<>>
                           [] w[i] = BS /\ i < Len(w) -> body(w[i + 1]) \o f[i + 2]
                           [] OTHER                   -> <<w[i]>> \o f[i + 1]
           from == CHOOSE f : f = [i \in 1 .. Len(w) + 1 |-> step(f, i)]
<1>1. ServerUnescape(w) = from[1]
  BY DEF ServerUnescape, PairsReplaced
<1>2. \A c \in T : P[c] = body(c)
  BY DEF ServerPair
<1>3. \A f, i : i \in 1 .. Len(w) + 1 => step(f, i) = ScanStep(f, P, w, i)
  BY <1>2, SMTT(30) DEF ScanStep
<1>4. PICK g : Scans(g, P, w)
  BY ScanExists
<1> HIDE DEF P, body, step
<1>5. g = [i \in 1 .. Len(w) + 1 |-> step(g, i)]
  BY <1>3, <1>4 DEF Scans
<1>6. from = [i \in 1 .. Len(w) + 1 |-> step(from, i)]
  BY <1>5
<1> HIDE DEF from
<1>7. Scans(from, P, w)
  BY <1>3, <1>6 DEF Scans
<1>8. Replaced(P, w) = from[1]
  BY <1>7, ReplacedIs
<1> QED
  BY <1>1, <1>8 DEF P

LEMMA ClientReads ==
    ASSUME NEW T, NEW w \in Seq(T)
    PROVE  ClientUnescape(w) = Replaced(ClientPair(T), w)
<1> DEFINE P == ClientPair(T)
           body(c) == IF c = BS THEN <<BS>> ELSE Unlettered(c, <<Unknown>>)
           step(f, i) == CASE i = Len(w) + 1          -> <<>>
                           [] w[i] = BS /\ i < Len(w) -> body(w[i + 1]) \o f[i + 2]
                           [] OTHER                   -> <<w[i]>> \o f[i + 1]
           from == CHOOSE f : f = [i \in 1 .. Len(w) + 1 |-> step(f, i)]
<1>1. ClientUnescape(w) = from[1]
  BY DEF ClientUnescape, PairsReplaced
<1>2. \A c \in T : P[c] = body(c)
  BY DEF ClientPair
<1>3. \A f, i : i \in 1 .. Len(w) + 1 => step(f, i) = ScanStep(f, P, w, i)
  BY <1>2 DEF ScanStep
<1>4. PICK g : Scans(g, P, w)
  BY ScanExists
<1> HIDE DEF P, body, step
<1>5. g = [i \in 1 .. Len(w) + 1 |-> step(g, i)]
  BY <1>3, <1>4 DEF Scans
<1>6. from = [i \in 1 .. Len(w) + 1 |-> step(from, i)]
  BY <1>5
<1> HIDE DEF from
<1>7. Scans(from, P, w)
  BY <1>3, <1>6 DEF Scans
<1>8. Replaced(P, w) = from[1]
  BY <1>7, ReplacedIs
<1> QED
  BY <1>1, <1>8 DEF P

LEMMA HaxReads ==
    ASSUME NEW T, NEW w \in Seq(T)
    PROVE  HaxUnescape(w) = Replaced(HaxPair(T), w)
<1> DEFINE P == HaxPair(T)
           body(c) == IF c = BS THEN <<BS>> ELSE Unlettered(c, <<BS, c>>)
           step(f, i) == CASE i = Len(w) + 1          -> <<>>
                           [] w[i] = BS /\ i < Len(w) -> body(w[i + 1]) \o f[i + 2]
                           [] OTHER                   -> <<w[i]>> \o f[i + 1]
           from == CHOOSE f : f = [i \in 1 .. Len(w) + 1 |-> step(f, i)]
<1>1. HaxUnescape(w) = from[1]
  BY DEF HaxUnescape, PairsReplaced
<1>2. \A c \in T : P[c] = body(c)
  BY DEF HaxPair
<1>3. \A f, i : i \in 1 .. Len(w) + 1 => step(f, i) = ScanStep(f, P, w, i)
  BY <1>2 DEF ScanStep
<1>4. PICK g : Scans(g, P, w)
  BY ScanExists
<1> HIDE DEF P, body, step
<1>5. g = [i \in 1 .. Len(w) + 1 |-> step(g, i)]
  BY <1>3, <1>4 DEF Scans
<1>6. from = [i \in 1 .. Len(w) + 1 |-> step(from, i)]
  BY <1>5
<1> HIDE DEF from
<1>7. Scans(from, P, w)
  BY <1>3, <1>6 DEF Scans
<1>8. Replaced(P, w) = from[1]
  BY <1>7, ReplacedIs
<1> QED
  BY <1>1, <1>8 DEF P

(* The table of escapes.                                                   *)
LEMMA EscapeTable ==
    /\ BS \notin Separators /\ BS \notin DOMAIN Separator
    /\ \A c \in DOMAIN Separator : c \notin Separators /\ c # BS
    /\ \A c \in DOMAIN Separator : Separator[c] \in Separators /\ Letter[Separator[c]] = c
    /\ \A c \in Separators : Letter[c] \in DOMAIN Separator /\ Separator[Letter[c]] = c
    /\ DOMAIN Separator = {"r", "n", "t"}
<1>1. DOMAIN Separator = {"r", "n", "t"}
  BY DEF Separator
<1>2. Separator["r"] = "\r" /\ Separator["n"] = "\n" /\ Separator["t"] = "\t"
  BY DEF Separator
<1>3. Letter = [c \in Separators |->
                    CHOOSE s \in DOMAIN Separator :
                        c \in {Separator[x] : x \in DOMAIN Separator} => Separator[s] = c]
  BY DEF Letter, Inverse, Range
<1>4. \A c \in Separators : c \in {Separator[x] : x \in DOMAIN Separator}
  BY <1>1, <1>2 DEF Separators
<1>5. \A c \in Separators : Letter[c] \in DOMAIN Separator /\ Separator[Letter[c]] = c
  BY <1>3, <1>4
<1>6. \A c, d \in DOMAIN Separator : Separator[c] = Separator[d] => c = d
  BY <1>1, <1>2
<1>7. \A c \in DOMAIN Separator : Separator[c] \in Separators
  BY <1>1, <1>2 DEF Separators
<1>8. BS \notin Separators /\ \A c \in DOMAIN Separator : c \notin Separators /\ c # BS
  BY <1>1 DEF Separators, BS
<1> QED
  BY <1>1, <1>5, <1>6, <1>7, <1>8

(* The three ways to write a text.                                         *)
ServerCode(T) == [c \in T |-> IF c \in Separators THEN <<BS, Letter[c]>> ELSE <<c>>]
ClientCode(T) == [c \in T |-> IF c = BS THEN <<BS, BS>>
                              ELSE IF c \in Separators THEN <<BS, Letter[c]>> ELSE <<c>>]
HaxCode(T)    == [c \in T |-> IF c = BS THEN <<BS, BS>> ELSE <<c>>]

(* The alphabet with what the escapes are made of.                         *)
Escaped(T) == T \cup {BS} \cup DOMAIN Separator

LEMMA ServerWrites ==
    ASSUME NEW T, NEW v \in Seq(T)
    PROVE  ServerEscape(v) = FlatMap(ServerCode(T), v)
<1>1. [i \in DOMAIN v |-> IF v[i] \in Separators THEN <<BS, Letter[v[i]]>> ELSE <<v[i]>>]
      = [i \in DOMAIN v |-> ServerCode(T)[v[i]]]
  BY ElementType DEF ServerCode
<1> QED
  BY <1>1 DEF ServerEscape, Mapped, FlatMap

LEMMA ClientWrites ==
    ASSUME NEW T, NEW v \in Seq(T)
    PROVE  ClientEscape(v) = FlatMap(ClientCode(T), v)
<1> DEFINE old == [i \in DOMAIN v |-> CASE v[i] = BS         -> <<BS, BS>>
                                       [] v[i] \in Separators -> <<BS, Letter[v[i]]>>
                                       [] OTHER               -> <<v[i]>>]
           new == [i \in DOMAIN v |-> ClientCode(T)[v[i]]]
<1>1. \A i \in DOMAIN v : old[i] = new[i]
  BY ElementType, EscapeTable DEF ClientCode
<1>2. old = new
  BY <1>1
<1> QED
  BY <1>2 DEF ClientEscape, Mapped, FlatMap

LEMMA HaxWrites ==
    ASSUME NEW T, NEW v \in Seq(T)
    PROVE  HaxEscape(v) = FlatMap(HaxCode(T), v)
<1>1. [i \in DOMAIN v |-> IF v[i] = BS THEN <<BS, BS>> ELSE <<v[i]>>]
      = [i \in DOMAIN v |-> HaxCode(T)[v[i]]]
  BY ElementType DEF HaxCode
<1> QED
  BY <1>1 DEF HaxEscape, Mapped, FlatMap

LEMMA PairType == ASSUME NEW T, NEW a \in T, NEW b \in T PROVE <<a, b>> \in Seq(T)
  OBVIOUS

LEMMA SingleType == ASSUME NEW T, NEW a \in T PROVE <<a>> \in Seq(T)
  OBVIOUS

LEMMA CodeTypes ==
    ASSUME NEW T
    PROVE  /\ Maps(ServerCode(T), T, Escaped(T) \ Separators)
           /\ Maps(ClientCode(T), T, Escaped(T) \ Separators)
           /\ Maps(HaxCode(T), T, Escaped(T))
<1> DEFINE U == Escaped(T) \ Separators
<1>1. \A c \in T : c \notin Separators => c \in U
  BY DEF Escaped
<1>2. BS \in U /\ \A c \in Separators : Letter[c] \in U
  BY EscapeTable DEF Escaped
<1>3. T \subseteq Escaped(T) /\ BS \in Escaped(T)
  BY DEF Escaped
<1> HIDE DEF U
<1>4. <<BS, BS>> \in Seq(U) /\ (\A c \in Separators : <<BS, Letter[c]>> \in Seq(U))
      /\ (\A c \in U : <<c>> \in Seq(U))
  BY <1>2, PairType, SingleType
<1>5. Maps(ServerCode(T), T, U)
  BY <1>1, <1>4 DEF ServerCode, Maps
<1>6. Maps(ClientCode(T), T, U)
  BY <1>1, <1>4 DEF ClientCode, Maps
<1>7. <<BS, BS>> \in Seq(Escaped(T)) /\ \A c \in T : <<c>> \in Seq(Escaped(T))
  BY <1>3, PairType, SingleType
<1>8. Maps(HaxCode(T), T, Escaped(T))
  BY <1>7 DEF HaxCode, Maps
<1> QED
  BY <1>5, <1>6, <1>8 DEF U

(* A symbol in front is written in front.                                  *)
LEMMA FlatMapFront ==
    ASSUME NEW S, NEW T, NEW f, Maps(f, S, T), NEW a \in S, NEW z \in Seq(S)
    PROVE  FlatMap(f, Cons(a, z)) = f[a] \o FlatMap(f, z)
<1> DEFINE x == <<a>>
<1>1. x \in Seq(S)
  BY SingleType
<1>2. FlatMap(f, x) = f[a]
  BY FlatMapSingle
<1> HIDE DEF x
<1>3. FlatMap(f, x \o z) = FlatMap(f, x) \o FlatMap(f, z)
  BY <1>1, FlatMapJoin
<1> QED
  BY <1>2, <1>3 DEF x, Cons

LEMMA FlatMapType ==
    ASSUME NEW S, NEW T, NEW f, Maps(f, S, T), NEW s \in Seq(S)
    PROVE  FlatMap(f, s) \in Seq(T)
  BY FlatMapJoin

(* What is written holds no separator.                                     *)
LEMMA WrittenType ==
    ASSUME NEW T, NEW v \in Seq(T)
    PROVE  /\ ServerEscape(v) \in Seq(Escaped(T) \ Separators)
           /\ ClientEscape(v) \in Seq(Escaped(T) \ Separators)
           /\ HaxEscape(v) \in Seq(Escaped(T))
<1>1. FlatMap(ServerCode(T), v) \in Seq(Escaped(T) \ Separators)
  BY CodeTypes, FlatMapType
<1>2. FlatMap(ClientCode(T), v) \in Seq(Escaped(T) \ Separators)
  BY CodeTypes, FlatMapType
<1>3. FlatMap(HaxCode(T), v) \in Seq(Escaped(T))
  BY CodeTypes, FlatMapType
<1> QED
  BY <1>1, <1>2, <1>3, ServerWrites, ClientWrites, HaxWrites, Zenon

-----------------------------------------------------------------------------
(* Reading and writing, one symbol or pair after the other, in an alphabet *)
(* that has all that they use.                                             *)
Closed(A) == {BS, Bad, Unknown} \cup Separators \cup DOMAIN Separator \subseteq A

LEMMA ReadEmpty ==
    /\ ServerUnescape(<<>>) = <<>> /\ ClientUnescape(<<>>) = <<>> /\ HaxUnescape(<<>>) = <<>>
    /\ ServerEscape(<<>>) = <<>> /\ ClientEscape(<<>>) = <<>> /\ HaxEscape(<<>>) = <<>>
<1> DEFINE w == <<>>
<1>1. w \in Seq({})
  OBVIOUS
<1>2. \A P : Replaced(P, w) = <<>>
  BY ReplacedEmpty
<1>3. \A f : FlatMap(f, w) = <<>>
  BY FlatMapEmpty
<1> HIDE DEF w
<1>4. ServerUnescape(w) = <<>> /\ ClientUnescape(w) = <<>> /\ HaxUnescape(w) = <<>>
  BY <1>1, <1>2, ServerReads, ClientReads, HaxReads
<1>5. ServerEscape(w) = <<>> /\ ClientEscape(w) = <<>> /\ HaxEscape(w) = <<>>
  BY <1>1, <1>3, ServerWrites, ClientWrites, HaxWrites
<1> QED
  BY <1>4, <1>5 DEF w

LEMMA ReplacedLast == ASSUME NEW P, NEW a PROVE Replaced(P, <<a>>) = <<a>>
<1> DEFINE T == {a}
           z == <<>>
<1>1. a \in T /\ z \in Seq(T) /\ z = <<>>
  OBVIOUS
<1> HIDE DEF T, z
<1>2. Replaced(P, Cons(a, z)) = Cons(a, Replaced(P, z))
  BY <1>1, ReplacedFront, ZenonT(30)
<1>3. Cons(a, <<>>) = <<a>>
  BY SingleIsSeq, ConcatEmpty DEF Cons
<1> QED
  BY <1>1, <1>2, <1>3, ReplacedEmpty

LEMMA ReadLast ==
    /\ ServerUnescape(<<BS>>) = <<BS>> /\ ClientUnescape(<<BS>>) = <<BS>>
    /\ HaxUnescape(<<BS>>) = <<BS>>
<1> DEFINE w == <<BS>>
<1>1. w \in Seq({BS})
  OBVIOUS
<1>2. \A P : Replaced(P, w) = w
  BY ReplacedLast
<1> HIDE DEF w
<1>3. ServerUnescape(w) = w /\ ClientUnescape(w) = w /\ HaxUnescape(w) = w
  BY <1>1, <1>2, ServerReads, ClientReads, HaxReads
<1> QED
  BY <1>3 DEF w

LEMMA ReadFront ==
    ASSUME NEW T, NEW a \in T \ {BS}, NEW z \in Seq(T)
    PROVE  /\ ServerUnescape(Cons(a, z)) = Cons(a, ServerUnescape(z))
           /\ ClientUnescape(Cons(a, z)) = Cons(a, ClientUnescape(z))
           /\ HaxUnescape(Cons(a, z)) = Cons(a, HaxUnescape(z))
<1> DEFINE y == Cons(a, z)
<1>1. y \in Seq(T)
  BY FrontFacts
<1>2. \A P : Replaced(P, y) = Cons(a, Replaced(P, z))
  BY ReplacedFront
<1> HIDE DEF y
<1>3. ServerUnescape(y) = Cons(a, ServerUnescape(z))
  BY <1>1, <1>2, ServerReads
<1>4. ClientUnescape(y) = Cons(a, ClientUnescape(z))
  BY <1>1, <1>2, ClientReads
<1>5. HaxUnescape(y) = Cons(a, HaxUnescape(z))
  BY <1>1, <1>2, HaxReads
<1> QED
  BY <1>3, <1>4, <1>5 DEF y

LEMMA ReadPair ==
    ASSUME NEW T, BS \in T, NEW c \in T, NEW z \in Seq(T)
    PROVE  /\ ServerUnescape(Cons(BS, Cons(c, z))) =
                  (IF c = BS THEN <<BS, BS>> ELSE Unlettered(c, <<Bad>>)) \o ServerUnescape(z)
           /\ ClientUnescape(Cons(BS, Cons(c, z))) =
                  (IF c = BS THEN <<BS>> ELSE Unlettered(c, <<Unknown>>)) \o ClientUnescape(z)
           /\ HaxUnescape(Cons(BS, Cons(c, z))) =
                  (IF c = BS THEN <<BS>> ELSE Unlettered(c, <<BS, c>>)) \o HaxUnescape(z)
<1> DEFINE y == Cons(BS, Cons(c, z))
<1>1. y \in Seq(T)
  BY FrontFacts
<1>2. ASSUME NEW P PROVE Replaced(P, y) = P[c] \o Replaced(P, z)
  BY ReplacedPair
<1> HIDE DEF y
<1>3. /\ ServerPair(T)[c] = (IF c = BS THEN <<BS, BS>> ELSE Unlettered(c, <<Bad>>))
      /\ ClientPair(T)[c] = (IF c = BS THEN <<BS>> ELSE Unlettered(c, <<Unknown>>))
      /\ HaxPair(T)[c] = (IF c = BS THEN <<BS>> ELSE Unlettered(c, <<BS, c>>))
  BY DEF ServerPair, ClientPair, HaxPair
<1>4. ServerUnescape(y) = ServerPair(T)[c] \o ServerUnescape(z)
  BY <1>1, <1>2, ServerReads
<1>5. ClientUnescape(y) = ClientPair(T)[c] \o ClientUnescape(z)
  BY <1>1, <1>2, ClientReads
<1>6. HaxUnescape(y) = HaxPair(T)[c] \o HaxUnescape(z)
  BY <1>1, <1>2, HaxReads
<1> QED
  BY <1>3, <1>4, <1>5, <1>6 DEF y

LEMMA WriteFront ==
    ASSUME NEW T, NEW c \in T, NEW z \in Seq(T)
    PROVE  /\ ServerEscape(Cons(c, z)) =
                  (IF c \in Separators THEN <<BS, Letter[c]>> ELSE <<c>>) \o ServerEscape(z)
           /\ ClientEscape(Cons(c, z)) =
                  (IF c = BS THEN <<BS, BS>>
                   ELSE IF c \in Separators THEN <<BS, Letter[c]>> ELSE <<c>>) \o ClientEscape(z)
           /\ HaxEscape(Cons(c, z)) = (IF c = BS THEN <<BS, BS>> ELSE <<c>>) \o HaxEscape(z)
<1> DEFINE y == Cons(c, z)
<1>1. y \in Seq(T)
  BY FrontFacts
<1>2. /\ FlatMap(ServerCode(T), y) = ServerCode(T)[c] \o FlatMap(ServerCode(T), z)
      /\ FlatMap(ClientCode(T), y) = ClientCode(T)[c] \o FlatMap(ClientCode(T), z)
      /\ FlatMap(HaxCode(T), y) = HaxCode(T)[c] \o FlatMap(HaxCode(T), z)
  <2> DEFINE f == ServerCode(T)
             g == ClientCode(T)
             h == HaxCode(T)
             U == Escaped(T) \ Separators
             V == Escaped(T)
  <2>1. Maps(f, T, U) /\ Maps(g, T, U) /\ Maps(h, T, V)
    BY CodeTypes
  <2> HIDE DEF f, g, h, U, V
  <2>2. FlatMap(f, y) = f[c] \o FlatMap(f, z)
    BY <2>1, FlatMapFront
  <2>3. FlatMap(g, y) = g[c] \o FlatMap(g, z)
    BY <2>1, FlatMapFront
  <2>4. FlatMap(h, y) = h[c] \o FlatMap(h, z)
    BY <2>1, FlatMapFront
  <2> QED
    BY <2>2, <2>3, <2>4 DEF f, g, h
<1> HIDE DEF y
<1>3. /\ ServerCode(T)[c] = (IF c \in Separators THEN <<BS, Letter[c]>> ELSE <<c>>)
      /\ ClientCode(T)[c] = (IF c = BS THEN <<BS, BS>>
                             ELSE IF c \in Separators THEN <<BS, Letter[c]>> ELSE <<c>>)
      /\ HaxCode(T)[c] = (IF c = BS THEN <<BS, BS>> ELSE <<c>>)
  BY DEF ServerCode, ClientCode, HaxCode
<1>4. ServerEscape(y) = ServerCode(T)[c] \o ServerEscape(z)
  BY <1>1, <1>2, ServerWrites
<1>5. ClientEscape(y) = ClientCode(T)[c] \o ClientEscape(z)
  BY <1>1, <1>2, ClientWrites
<1>6. HaxEscape(y) = HaxCode(T)[c] \o HaxEscape(z)
  BY <1>1, <1>2, HaxWrites
<1> QED
  BY <1>3, <1>4, <1>5, <1>6 DEF y

(* A pair in front of a text is its two symbols, one after the other.      *)
LEMMA PairInFront ==
    ASSUME NEW T, NEW a \in T, NEW b \in T, NEW z \in Seq(T)
    PROVE  <<a, b>> \o z = Cons(a, Cons(b, z))
<1> DEFINE p == <<a>>
           q == <<b>>
<1>1. p \in Seq(T) /\ q \in Seq(T)
  BY SingleType
<1>2. p \o q = <<a, b>>
  <2> DEFINE c == p \o q
             d == <<a, b>>
  <2>1. Len(p) = 1 /\ p[1] = a /\ Len(q) = 1 /\ q[1] = b
    OBVIOUS
  <2> HIDE DEF p, q
  <2>2. c \in Seq(T) /\ IsJoin(c, p, q)
    BY <1>1, JoinFacts
  <2>3. d \in Seq(T) /\ Len(d) = 2 /\ d[1] = a /\ d[2] = b
    OBVIOUS
  <2> HIDE DEF c, d
  <2>4. Len(c) = 2 /\ c[1] = a /\ c[2] = b
    <3>1. Len(c) = 2
      BY <2>1, <2>2 DEF IsJoin
    <3>2. 1 \in 1 .. Len(p) /\ 1 \in 1 .. Len(q) /\ Len(p) + 1 = 2
      BY <2>1
    <3> QED
      BY <2>1, <2>2, <3>1, <3>2 DEF IsJoin
  <2>5. c = d
    BY <2>2, <2>3, <2>4
  <2> QED
    BY <2>5 DEF c, d
<1> HIDE DEF p, q
<1>3. (p \o q) \o z = p \o (q \o z)
  <2>1. IsSeq(p) /\ IsSeq(q) /\ IsSeq(z)
    BY <1>1, SeqIsSeq
  <2> QED
    BY <2>1, ConcatIsSeq
<1> QED
  BY <1>2, <1>3 DEF p, q, Cons

LEMMA ToSetJoin ==
    ASSUME NEW T, NEW a \in Seq(T), NEW b \in Seq(T)
    PROVE  ToSet(a \o b) = ToSet(a) \cup ToSet(b)
<1> DEFINE c == a \o b
<1>1. c \in Seq(T) /\ IsJoin(c, a, b)
  BY JoinFacts
<1> HIDE DEF c
<1>2. DOMAIN c = 1 .. Len(c) /\ DOMAIN a = 1 .. Len(a) /\ DOMAIN b = 1 .. Len(b)
      /\ Len(a) \in Nat /\ Len(b) \in Nat
  BY <1>1
<1>3. Len(c) = Len(a) + Len(b)
  BY <1>1 DEF IsJoin
<1>4. ASSUME NEW i \in DOMAIN c PROVE c[i] \in ToSet(a) \cup ToSet(b)
  <2>1. CASE i \in 1 .. Len(a)
    BY <1>1, <1>2, <2>1 DEF IsJoin, ToSet
  <2>2. CASE i \notin 1 .. Len(a)
    <3>1. i - Len(a) \in 1 .. Len(b) /\ Len(a) + (i - Len(a)) = i
      BY <1>2, <1>3, <2>2
    <3>2. c[i] = b[i - Len(a)]
      BY <1>1, <3>1 DEF IsJoin
    <3> QED
      BY <1>2, <3>1, <3>2 DEF ToSet
  <2> QED
    BY <2>1, <2>2
<1>5. ASSUME NEW i \in DOMAIN a PROVE a[i] \in ToSet(c)
  <2>1. i \in DOMAIN c /\ c[i] = a[i]
    BY <1>1, <1>2, <1>3 DEF IsJoin
  <2> QED
    BY <2>1 DEF ToSet
<1>6. ASSUME NEW i \in DOMAIN b PROVE b[i] \in ToSet(c)
  <2>1. Len(a) + i \in DOMAIN c /\ c[Len(a) + i] = b[i]
    BY <1>1, <1>2, <1>3 DEF IsJoin
  <2> QED
    BY <2>1 DEF ToSet
<1>7. ToSet(c) = ToSet(a) \cup ToSet(b)
  BY <1>4, <1>5, <1>6 DEF ToSet
<1> QED
  BY <1>7 DEF c

(* A single symbol in front.                                               *)
LEMMA OneInFront == ASSUME NEW a, NEW z PROVE <<a>> \o z = Cons(a, z)
  BY DEF Cons

-----------------------------------------------------------------------------
(* What is read, and then written again, is of the alphabet.               *)
LEMMA ReadType ==
    ASSUME NEW A, Closed(A), NEW w \in Seq(A)
    PROVE  ServerUnescape(w) \in Seq(A) /\ ClientUnescape(w) \in Seq(A) /\ HaxUnescape(w) \in Seq(A)
<1> DEFINE S == {v \in Seq(A) : /\ ServerUnescape(v) \in Seq(A)
                               /\ ClientUnescape(v) \in Seq(A)
                               /\ HaxUnescape(v) \in Seq(A)}
<1>1. BS \in A /\ Bad \in A /\ Unknown \in A /\ \A c \in DOMAIN Separator : Separator[c] \in A
  BY EscapeTable DEF Closed
<1>2. <<>> \in Seq(A) /\ <<BS>> \in Seq(A)
  BY <1>1
<1>3. <<>> \in S /\ <<BS>> \in S
  BY <1>2, ReadEmpty, ReadLast
<1>4. ASSUME NEW a \in A \ {BS}, NEW z \in Seq(A), z \in S PROVE Cons(a, z) \in S
  <2>1. \A v \in Seq(A) : Cons(a, v) \in Seq(A)
    BY FrontFacts
  <2> QED
    BY <1>4, <2>1, ReadFront
<1>5. ASSUME NEW c \in A, NEW z \in Seq(A), z \in S PROVE Cons(BS, Cons(c, z)) \in S
  <2> DEFINE y == Cons(BS, Cons(c, z))
             p == IF c = BS THEN <<BS, BS>> ELSE Unlettered(c, <<Bad>>)
             q == IF c = BS THEN <<BS>> ELSE Unlettered(c, <<Unknown>>)
             r == IF c = BS THEN <<BS>> ELSE Unlettered(c, <<BS, c>>)
  <2>1. y \in Seq(A)
    BY <1>1, FrontFacts
  <2>2. /\ ServerUnescape(y) = p \o ServerUnescape(z)
        /\ ClientUnescape(y) = q \o ClientUnescape(z)
        /\ HaxUnescape(y) = r \o HaxUnescape(z)
    BY <1>1, ReadPair
  <2>3. p \in Seq(A) /\ q \in Seq(A) /\ r \in Seq(A)
    <3>1. /\ <<BS, BS>> \in Seq(A) /\ <<BS, c>> \in Seq(A)
          /\ <<BS>> \in Seq(A) /\ <<Bad>> \in Seq(A) /\ <<Unknown>> \in Seq(A)
          /\ \A s \in DOMAIN Separator : <<Separator[s]>> \in Seq(A)
      BY <1>1, PairType, SingleType
    <3> QED
      BY <3>1 DEF Unlettered
  <2>4. \A a, b \in Seq(A) : a \o b \in Seq(A)
    BY ConcatFacts
  <2>5. ServerUnescape(z) \in Seq(A) /\ ClientUnescape(z) \in Seq(A) /\ HaxUnescape(z) \in Seq(A)
    BY <1>5
  <2> HIDE DEF p, q, r, y
  <2>6. ServerUnescape(y) \in Seq(A) /\ ClientUnescape(y) \in Seq(A) /\ HaxUnescape(y) \in Seq(A)
    BY <2>2, <2>3, <2>4, <2>5
  <2> QED
    BY <2>1, <2>6 DEF y
<1> HIDE DEF S
<1>6. Seq(A) \subseteq S
  BY <1>3, <1>4, <1>5, PairInduction
<1> QED
  BY <1>6 DEF S

LEMMA WriteType ==
    ASSUME NEW A, Closed(A), NEW v \in Seq(A)
    PROVE  ServerEscape(v) \in Seq(A) /\ ClientEscape(v) \in Seq(A) /\ HaxEscape(v) \in Seq(A)
<1>1. Escaped(A) = A /\ Escaped(A) \ Separators \subseteq A
  BY DEF Escaped, Closed
<1>2. \A s : s \in Seq(Escaped(A) \ Separators) => s \in Seq(A)
  BY <1>1
<1> QED
  BY <1>1, <1>2, WrittenType

(* What refuses a text.                                                    *)
LEMMA RefusedParts ==
    ASSUME NEW A, Closed(A), NEW c \in A, NEW z \in Seq(A)
    PROVE  /\ c # BS => (Refused(Cons(c, z)) <=> c = Bad \/ Refused(z))
           /\ c \in {BS} \cup DOMAIN Separator => (Refused(Cons(BS, Cons(c, z))) <=> Refused(z))
           /\ c \notin {BS} \cup DOMAIN Separator => Refused(Cons(BS, Cons(c, z)))
<1>1. BS \in A /\ Bad \in A /\ \A s \in DOMAIN Separator : Separator[s] \in A
  BY EscapeTable DEF Closed
<1>2. ServerUnescape(z) \in Seq(A)
  BY ReadType
<1>3. Bad # BS /\ \A s \in DOMAIN Separator : Bad # Separator[s]
  BY EscapeTable DEF Bad, BS, Separators
<1> DEFINE u == ServerUnescape(z)
<1> HIDE DEF u
<1>4. \A a \in Seq(A) : ToSet(a \o u) = ToSet(a) \cup ToSet(u)
  BY <1>2, ToSetJoin DEF u
<1>5. \A a : ToSet(<<a>>) = {a}
  BY DEF ToSet
<1>6. \A a : ToSet(<<a, a>>) = {a}
  BY DEF ToSet
<1>7. \A a \in A : ToSet(Cons(a, u)) = {a} \cup ToSet(u)
  BY <1>4, <1>5, SingleType, OneInFront
<1>8. c # BS => (Refused(Cons(c, z)) <=> c = Bad \/ Refused(z))
  BY <1>7, ReadFront DEF Refused, u
<1> DEFINE p == IF c = BS THEN <<BS, BS>> ELSE Unlettered(c, <<Bad>>)
           y == Cons(BS, Cons(c, z))
<1>9. ServerUnescape(y) = p \o u
  BY <1>1, ReadPair DEF u
<1> HIDE DEF y
<1>10. CASE c = BS
  <2>1. p = <<BS, BS>> /\ <<BS, BS>> \in Seq(A)
    BY <1>1, <1>10, PairType
  <2>2. ToSet(ServerUnescape(y)) = {BS} \cup ToSet(u)
    BY <1>4, <1>6, <1>9, <2>1
  <2> QED
    BY <1>3, <1>8, <1>10, <2>2 DEF Refused, u, y
<1>11. CASE c \in DOMAIN Separator
  <2>1. p = <<Separator[c]>> /\ <<Separator[c]>> \in Seq(A) /\ c # BS
    BY <1>1, <1>11, EscapeTable, SingleType DEF Unlettered
  <2>2. ToSet(ServerUnescape(y)) = {Separator[c]} \cup ToSet(u)
    BY <1>4, <1>5, <1>9, <2>1
  <2> QED
    BY <1>3, <1>8, <1>11, <2>1, <2>2 DEF Refused, u, y
<1>12. CASE c \notin {BS} \cup DOMAIN Separator
  <2>1. p = <<Bad>> /\ <<Bad>> \in Seq(A)
    BY <1>1, <1>12, SingleType DEF Unlettered
  <2>2. ToSet(ServerUnescape(y)) = {Bad} \cup ToSet(u)
    BY <1>4, <1>5, <1>9, <2>1
  <2> QED
    BY <1>8, <1>12, <2>2 DEF Refused, y
<1> QED
  BY <1>10, <1>11, <1>12

-----------------------------------------------------------------------------
(* A separator in front is written as two symbols, which are read back.    *)
LEMMA SeparatorInFront ==
    ASSUME NEW A, Closed(A), NEW c \in Separators, NEW z \in Seq(A)
    PROVE  /\ ServerEscape(Cons(c, z)) = Cons(BS, Cons(Letter[c], ServerEscape(z)))
           /\ ClientEscape(Cons(c, z)) = Cons(BS, Cons(Letter[c], ClientEscape(z)))
           /\ ClientUnescape(Cons(BS, Cons(Letter[c], z))) = Cons(c, ClientUnescape(z))
           /\ HaxUnescape(Cons(BS, Cons(Letter[c], z))) = Cons(c, HaxUnescape(z))
<1> DEFINE l == Letter[c]
<1>1. c \in A /\ l \in A /\ BS \in A /\ c # BS /\ l # BS /\ l \in DOMAIN Separator /\ Separator[l] = c
  BY EscapeTable DEF Closed
<1> HIDE DEF l
<1>2. ServerEscape(z) \in Seq(A) /\ ClientEscape(z) \in Seq(A)
  BY WriteType
<1>3. \A y \in Seq(A) : <<BS, l>> \o y = Cons(BS, Cons(l, y))
  BY <1>1, PairInFront
<1>4. /\ ServerEscape(Cons(c, z)) = <<BS, l>> \o ServerEscape(z)
      /\ ClientEscape(Cons(c, z)) = <<BS, l>> \o ClientEscape(z)
  BY <1>1, WriteFront DEF l
<1>5. /\ ClientUnescape(Cons(BS, Cons(l, z))) = <<c>> \o ClientUnescape(z)
      /\ HaxUnescape(Cons(BS, Cons(l, z))) = <<c>> \o HaxUnescape(z)
  BY <1>1, ReadPair DEF Unlettered
<1> QED
  BY <1>2, <1>3, <1>4, <1>5, OneInFront DEF l

(* Two backslashes in front are one backslash.                             *)
LEMMA BackslashesInFront ==
    ASSUME NEW A, Closed(A), NEW z \in Seq(A)
    PROVE  /\ ServerEscape(Cons(BS, z)) = Cons(BS, ServerEscape(z))
           /\ ClientEscape(Cons(BS, z)) = Cons(BS, Cons(BS, ClientEscape(z)))
           /\ HaxEscape(Cons(BS, z)) = Cons(BS, Cons(BS, HaxEscape(z)))
           /\ ServerUnescape(Cons(BS, Cons(BS, z))) = Cons(BS, Cons(BS, ServerUnescape(z)))
           /\ ClientUnescape(Cons(BS, Cons(BS, z))) = Cons(BS, ClientUnescape(z))
           /\ HaxUnescape(Cons(BS, Cons(BS, z))) = Cons(BS, HaxUnescape(z))
<1>1. BS \in A /\ BS \notin Separators
  BY EscapeTable DEF Closed
<1>2. ClientEscape(z) \in Seq(A) /\ HaxEscape(z) \in Seq(A) /\ ServerUnescape(z) \in Seq(A)
  BY WriteType, ReadType
<1>3. \A y \in Seq(A) : <<BS, BS>> \o y = Cons(BS, Cons(BS, y))
  BY <1>1, PairInFront
<1>4. /\ ServerEscape(Cons(BS, z)) = <<BS>> \o ServerEscape(z)
      /\ ClientEscape(Cons(BS, z)) = <<BS, BS>> \o ClientEscape(z)
      /\ HaxEscape(Cons(BS, z)) = <<BS, BS>> \o HaxEscape(z)
  BY <1>1, WriteFront
<1>5. /\ ServerUnescape(Cons(BS, Cons(BS, z))) = <<BS, BS>> \o ServerUnescape(z)
      /\ ClientUnescape(Cons(BS, Cons(BS, z))) = <<BS>> \o ClientUnescape(z)
      /\ HaxUnescape(Cons(BS, Cons(BS, z))) = <<BS>> \o HaxUnescape(z)
  BY <1>1, ReadPair
<1> QED
  BY <1>2, <1>3, <1>4, <1>5, OneInFront

LEMMA OtherInFront ==
    ASSUME NEW A, Closed(A), NEW c \in A \ ({BS} \cup Separators), NEW z \in Seq(A)
    PROVE  /\ ServerEscape(Cons(c, z)) = Cons(c, ServerEscape(z))
           /\ ClientEscape(Cons(c, z)) = Cons(c, ClientEscape(z))
           /\ HaxEscape(Cons(c, z)) = Cons(c, HaxEscape(z))
<1>1. /\ ServerEscape(Cons(c, z)) = <<c>> \o ServerEscape(z)
      /\ ClientEscape(Cons(c, z)) = <<c>> \o ClientEscape(z)
      /\ HaxEscape(Cons(c, z)) = <<c>> \o HaxEscape(z)
  BY WriteFront
<1> QED
  BY <1>1, OneInFront, Zenon

(* A text that is not refused means the same to both clients, and the same *)
(* again after the server has read and written it.                         *)
Meaning(w) == ClientUnescape(ServerEscape(ServerUnescape(w)))
KeepsMeaning(w) ==
    /\ Meaning(w) = ClientUnescape(w)
    /\ HaxUnescape(ServerEscape(ServerUnescape(w))) = ClientUnescape(w)

LEMMA MeaningKept ==
    ASSUME NEW A, Closed(A), NEW w \in Seq(A), ~Refused(w)
    PROVE  KeepsMeaning(w)
<1> DEFINE S == {v \in Seq(A) : ~Refused(v) => KeepsMeaning(v)}
<1>1. BS \in A /\ Bad \in A /\ (\A s \in DOMAIN Separator : s \in A) /\ Separators \subseteq A
  BY DEF Closed
<1>2. <<>> \in S
  BY ReadEmpty DEF KeepsMeaning, Meaning
<1>3. <<BS>> \in S
  <2> DEFINE b == <<BS>>
  <2>1. <<>> \in Seq(A) /\ Cons(BS, <<>>) = <<BS>>
    BY SingleIsSeq, ConcatEmpty DEF Cons
  <2>2. ServerEscape(<<BS>>) = <<BS>>
    BY <2>1, BackslashesInFront, ReadEmpty
  <2>3. b \in Seq(A)
    BY <1>1
  <2> QED
    BY <2>2, <2>3, ReadLast DEF KeepsMeaning, Meaning
<1>4. ASSUME NEW a \in A \ {BS}, NEW z \in Seq(A), z \in S PROVE Cons(a, z) \in S
  <2> DEFINE u == ServerUnescape(z)
             t == ServerEscape(u)
             y == Cons(a, z)
  <2>1. u \in Seq(A) /\ t \in Seq(A) /\ y \in Seq(A)
    BY ReadType, WriteType, FrontFacts
  <2> SUFFICES ASSUME ~Refused(y) PROVE KeepsMeaning(y)
    BY <2>1
  <2>2. ~Refused(z)
    BY RefusedParts
  <2>3. ClientUnescape(t) = ClientUnescape(z) /\ HaxUnescape(t) = ClientUnescape(z)
    BY <1>4, <2>2 DEF KeepsMeaning, Meaning
  <2>4. ServerUnescape(y) = Cons(a, u) /\ ClientUnescape(y) = Cons(a, ClientUnescape(z))
    BY ReadFront
  <2> HIDE DEF u, t, y
  <2> DEFINE r == ServerEscape(Cons(a, u))
  <2>5. CASE a \in Separators
    <3>1. r = Cons(BS, Cons(Letter[a], t))
      BY <2>1, <2>5, SeparatorInFront DEF t
    <3> HIDE DEF r
    <3>2. ClientUnescape(r) = Cons(a, ClientUnescape(t)) /\ HaxUnescape(r) = Cons(a, HaxUnescape(t))
      BY <2>1, <2>5, <3>1, SeparatorInFront
    <3> QED
      BY <2>3, <2>4, <3>2 DEF KeepsMeaning, Meaning, r
  <2>6. CASE a \notin Separators
    <3>1. r = Cons(a, t)
      BY <2>1, <2>6, OtherInFront DEF t
    <3> HIDE DEF r
    <3>2. ClientUnescape(r) = Cons(a, ClientUnescape(t)) /\ HaxUnescape(r) = Cons(a, HaxUnescape(t))
      BY <2>1, <3>1, ReadFront
    <3> QED
      BY <2>3, <2>4, <3>2 DEF KeepsMeaning, Meaning, r
  <2> QED
    BY <2>5, <2>6
<1>5. ASSUME NEW c \in A, NEW z \in Seq(A), z \in S PROVE Cons(BS, Cons(c, z)) \in S
  <2> DEFINE u == ServerUnescape(z)
             t == ServerEscape(u)
             y == Cons(BS, Cons(c, z))
  <2>1. u \in Seq(A) /\ t \in Seq(A) /\ y \in Seq(A)
    BY <1>1, ReadType, WriteType, FrontFacts
  <2> SUFFICES ASSUME ~Refused(y) PROVE KeepsMeaning(y)
    BY <2>1
  <2>2. ~Refused(z) /\ c \in {BS} \cup DOMAIN Separator
    BY RefusedParts
  <2>3. ClientUnescape(t) = ClientUnescape(z) /\ HaxUnescape(t) = ClientUnescape(z)
    BY <1>5, <2>2 DEF KeepsMeaning, Meaning
  <2>4. CASE c = BS
    <3>1. ServerUnescape(y) = Cons(BS, Cons(BS, u)) /\ ClientUnescape(y) = Cons(BS, ClientUnescape(z))
      BY <2>4, BackslashesInFront
    <3>2. Cons(BS, u) \in Seq(A)
      BY <1>1, <2>1, FrontFacts
    <3>3. ServerEscape(Cons(BS, Cons(BS, u))) = Cons(BS, Cons(BS, t))
      BY <2>1, <3>2, BackslashesInFront
    <3> HIDE DEF u, t, y
    <3> DEFINE r == Cons(BS, Cons(BS, t))
    <3>4. ClientUnescape(r) = Cons(BS, ClientUnescape(t)) /\ HaxUnescape(r) = Cons(BS, HaxUnescape(t))
      BY <2>1, BackslashesInFront
    <3> QED
      BY <2>3, <3>1, <3>3, <3>4 DEF KeepsMeaning, Meaning
  <2>5. CASE c \in DOMAIN Separator
    <3> DEFINE s == Separator[c]
    <3>1. s \in Separators /\ Letter[s] = c /\ c # BS
      BY <2>5, EscapeTable
    <3>2. /\ ServerUnescape(y) = <<s>> \o u
          /\ ClientUnescape(y) = <<s>> \o ClientUnescape(z)
      BY <1>1, <2>5, <3>1, ReadPair DEF Unlettered
    <3>3. ServerUnescape(y) = Cons(s, u) /\ ClientUnescape(y) = Cons(s, ClientUnescape(z))
      BY <3>2, OneInFront
    <3> HIDE DEF u, t, y, s
    <3>4. ServerEscape(Cons(s, u)) = Cons(BS, Cons(c, t))
      BY <2>1, <3>1, SeparatorInFront DEF t
    <3> DEFINE r == Cons(BS, Cons(c, t))
    <3>5. ClientUnescape(r) = Cons(s, ClientUnescape(t)) /\ HaxUnescape(r) = Cons(s, HaxUnescape(t))
      BY <2>1, <3>1, SeparatorInFront
    <3> QED
      BY <2>3, <3>3, <3>4, <3>5 DEF KeepsMeaning, Meaning
  <2> QED
    BY <2>2, <2>4, <2>5
<1> HIDE DEF S
<1>6. Seq(A) \subseteq S
  BY <1>2, <1>3, <1>4, <1>5, PairInduction
<1> QED
  BY <1>6 DEF S

(* What a client writes is not refused and is read as it was typed.        *)
LEMMA TypedIsRead ==
    ASSUME NEW A, Closed(A), NEW v \in Seq(A \ {Bad})
    PROVE  ClientUnescape(ClientEscape(v)) = v /\ ~Refused(ClientEscape(v))
<1> DEFINE T == A \ {Bad}
           S == {x \in Seq(T) : ClientUnescape(ClientEscape(x)) = x /\ ~Refused(ClientEscape(x))}
<1>1. Seq(T) \subseteq Seq(A) /\ BS \in A
  BY DEF Closed
<1>2. <<>> \in S
  BY ReadEmpty DEF Refused, ToSet
<1>3. ASSUME NEW a \in T, NEW z \in Seq(T), z \in S PROVE Cons(a, z) \in S
  <2> DEFINE e == ClientEscape(z)
             y == Cons(a, z)
             r == ClientEscape(y)
  <2>1. e \in Seq(A) /\ y \in Seq(T) /\ a \in A /\ a # Bad /\ z \in Seq(A)
    BY <1>1, WriteType, FrontFacts
  <2>2. ClientUnescape(e) = z /\ ~Refused(e)
    BY <1>3
  <2>3. CASE a = BS
    <3>1. r = Cons(BS, Cons(BS, e))
      BY <2>1, <2>3, BackslashesInFront
    <3>2. ClientUnescape(r) = Cons(BS, z)
      BY <2>1, <2>2, <3>1, BackslashesInFront
    <3>3. ~Refused(r)
      BY <1>1, <2>1, <2>2, <3>1, RefusedParts
    <3> QED
      BY <2>1, <2>3, <3>2, <3>3
  <2>4. CASE a \in Separators
    <3>1. r = Cons(BS, Cons(Letter[a], e))
      BY <2>1, <2>4, SeparatorInFront
    <3>2. ClientUnescape(r) = Cons(a, z)
      BY <2>1, <2>2, <2>4, <3>1, SeparatorInFront
    <3>3. Letter[a] \in DOMAIN Separator /\ Letter[a] \in A
      BY <2>4, EscapeTable DEF Closed
    <3>4. ~Refused(r)
      BY <2>1, <2>2, <3>1, <3>3, RefusedParts
    <3> QED
      BY <2>1, <3>2, <3>4
  <2>5. CASE a \notin {BS} \cup Separators
    <3>1. r = Cons(a, e)
      BY <2>1, <2>5, OtherInFront
    <3>2. ClientUnescape(r) = Cons(a, z)
      BY <2>1, <2>2, <2>5, <3>1, ReadFront
    <3>3. ~Refused(r)
      BY <2>1, <2>2, <2>5, <3>1, RefusedParts
    <3> QED
      BY <2>1, <3>2, <3>3
  <2> QED
    BY <2>3, <2>4, <2>5
<1> HIDE DEF S, T
<1>4. Seq(T) \subseteq S
  BY <1>2, <1>3, TextInduction
<1> QED
  BY <1>4 DEF S, T

LEMMA HaxTypedIsRead ==
    ASSUME NEW A, Closed(A), NEW v \in Seq(A \ {Bad})
    PROVE  ClientUnescape(HaxEscape(v)) = v /\ ~Refused(HaxEscape(v))
<1> DEFINE T == A \ {Bad}
           S == {x \in Seq(T) : ClientUnescape(HaxEscape(x)) = x /\ ~Refused(HaxEscape(x))}
<1>1. Seq(T) \subseteq Seq(A) /\ BS \in A
  BY DEF Closed
<1>2. <<>> \in S
  BY ReadEmpty DEF Refused, ToSet
<1>3. ASSUME NEW a \in T, NEW z \in Seq(T), z \in S PROVE Cons(a, z) \in S
  <2> DEFINE e == HaxEscape(z)
             y == Cons(a, z)
             r == HaxEscape(y)
  <2>1. e \in Seq(A) /\ y \in Seq(T) /\ a \in A /\ a # Bad /\ z \in Seq(A)
    BY <1>1, WriteType, FrontFacts
  <2>2. ClientUnescape(e) = z /\ ~Refused(e)
    BY <1>3
  <2>3. CASE a = BS
    <3>1. r = Cons(BS, Cons(BS, e))
      BY <2>1, <2>3, BackslashesInFront
    <3>2. ClientUnescape(r) = Cons(BS, z)
      BY <2>1, <2>2, <3>1, BackslashesInFront
    <3>3. ~Refused(r)
      BY <1>1, <2>1, <2>2, <3>1, RefusedParts
    <3> QED
      BY <2>1, <2>3, <3>2, <3>3
  <2>4. CASE a # BS
    <3>1. r = <<a>> \o e
      BY <2>1, <2>4, WriteFront
    <3>2. r = Cons(a, e)
      BY <3>1, OneInFront, Zenon
    <3>3. ClientUnescape(r) = Cons(a, z)
      BY <2>1, <2>2, <2>4, <3>2, ReadFront
    <3>4. ~Refused(r)
      BY <2>1, <2>2, <2>4, <3>2, RefusedParts
    <3> QED
      BY <2>1, <3>3, <3>4
  <2> QED
    BY <2>3, <2>4
<1> HIDE DEF S, T
<1>4. Seq(T) \subseteq S
  BY <1>2, <1>3, TextInduction
<1> QED
  BY <1>4 DEF S, T

-----------------------------------------------------------------------------
(* Split, one element after the other.                                     *)
PieceLists(T) == Seq(Seq(T)) \ {<<>>}
OneMore(ps, e, sep) ==
    IF e = sep THEN Append(ps, <<>>) ELSE [ps EXCEPT ![Len(ps)] = Append(@, e)]

LEMMA OneMoreType ==
    ASSUME NEW T, NEW ps \in PieceLists(T), NEW e \in T, NEW sep
    PROVE  OneMore(ps, e, sep) \in PieceLists(T)
<1> DEFINE n == Len(ps)
           q == Append(ps, <<>>)
           r == [ps EXCEPT ![n] = Append(@, e)]
<1>1. ps \in Seq(Seq(T)) /\ n \in Nat \ {0} /\ n \in DOMAIN ps
  BY DEF PieceLists
<1>2. q \in Seq(Seq(T)) /\ Len(q) = n + 1
  <2>1. <<>> \in Seq(T)
    OBVIOUS
  <2> QED
    BY <1>1, <2>1
<1>3. r \in Seq(Seq(T)) /\ Len(r) = n
  <2>1. ps[n] \in Seq(T)
    BY <1>1
  <2>2. Append(ps[n], e) \in Seq(T)
    BY <2>1
  <2> QED
    BY <1>1, <2>2
<1>4. Len(<<>>) = 0
  OBVIOUS
<1> HIDE DEF n, q, r
<1>5. q # <<>> /\ r # <<>>
  BY <1>1, <1>2, <1>3, <1>4
<1> QED
  BY <1>2, <1>3, <1>5 DEF PieceLists, OneMore, q, r, n

LEMMA SplitFacts ==
    ASSUME NEW T, NEW sep
    PROVE  /\ Split(<<>>, sep) = << <<>> >>
           /\ \A s \in Seq(T) : Split(s, sep) \in PieceLists(T)
           /\ \A s \in Seq(T), e \in T :
                  Split(Append(s, e), sep) = OneMore(Split(s, sep), e, sep)
<1> DEFINE X == PieceLists(T)
           a == << <<>> >>
           G == [pe \in X \X T |-> OneMore(pe[1], pe[2], sep)]
<1>1. a \in X
  <2>1. <<>> \in Seq(T)
    OBVIOUS
  <2>2. a \in Seq(Seq(T)) /\ Len(a) = 1 /\ Len(<<>>) = 0
    BY <2>1
  <2> HIDE DEF a
  <2> QED
    BY <2>2 DEF PieceLists
<1>2. \A x \in X, e \in T : G[<<x, e>>] = OneMore(x, e, sep)
  OBVIOUS
<1>3. Takes(G, X, T)
  BY OneMoreType DEF Takes
<1> HIDE DEF X, G
<1>4. ASSUME NEW s \in Seq(T) PROVE Split(s, sep) = Folded(a, G, s)
  <2> DEFINE n == Len(s)
             next(f, i) == LET pieces == f[i - 1]
                           IN  IF s[i] = sep
                               THEN Append(pieces, <<>>)
                               ELSE [pieces EXCEPT ![Len(pieces)] = Append(@, s[i])]
             Is(f) == f = [i \in 0 .. n |-> IF i = 0 THEN a ELSE next(f, i)]
             f == CHOOSE g : Is(g)
  <2>1. Split(s, sep) = f[n]
    BY DEF Split
  <2>2. \A g, i : next(g, i) = OneMore(g[i - 1], s[i], sep)
    BY DEF OneMore
  <2> HIDE DEF next
  <2>3. \E g : Is(g)
    <3>1. PICK g : Steps(g, a, G, s)
      BY <1>1, <1>3, StepsExist
    <3>2. g = [i \in 0 .. n |-> IF i = 0 THEN a ELSE G[<<g[i - 1], s[i]>>]]
      BY <3>1 DEF Steps
    <3>3. n \in Nat /\ (\A i \in 1 .. n : s[i] \in T) /\ \A i \in 0 .. n : g[i] \in X
      BY <1>1, <1>3, <3>1, StepsStay
    <3> HIDE DEF n
    <3>4. ASSUME NEW i \in 0 .. n, i # 0 PROVE G[<<g[i - 1], s[i]>>] = next(g, i)
      <4>1. i - 1 \in 0 .. n /\ i \in 1 .. n
        BY <3>3, <3>4
      <4>2. g[i - 1] \in X /\ s[i] \in T
        BY <3>3, <4>1
      <4> QED
        BY <1>2, <2>2, <4>2
    <3>5. [i \in 0 .. n |-> IF i = 0 THEN a ELSE G[<<g[i - 1], s[i]>>]]
          = [i \in 0 .. n |-> IF i = 0 THEN a ELSE next(g, i)]
      BY <3>4
    <3>6. Is(g)
      BY <3>2, <3>5
    <3> QED
      BY <3>6
  <2>4. Is(f)
    BY <2>3
  <2> HIDE DEF f
  <2>5. n \in Nat /\ \A i \in 1 .. n : s[i] \in T
    OBVIOUS
  <2> HIDE DEF n
  <2>6. \A i \in 0 .. n : f[i] = IF i = 0 THEN a ELSE next(f, i)
    BY <2>4
  <2>7. 0 \in 0 .. n /\ \A i \in 1 .. n : i \in 0 .. n /\ i # 0
    BY <2>5
  <2>8. f[0] = a
    BY <2>6, <2>7
  <2>9. \A i \in 1 .. n : f[i - 1] \in X => f[i] = G[<<f[i - 1], s[i]>>]
    BY <1>2, <2>2, <2>5, <2>6, <2>7
  <2>10. Follows(f, a, G, X, s)
    BY <2>8, <2>9 DEF Follows, n
  <2>11. f[n] = Folded(a, G, s)
    BY <1>1, <1>3, <2>10, RunIs DEF n
  <2> QED
    BY <2>1, <2>11
<1> HIDE DEF a
<1>5. /\ Folded(a, G, <<>>) = a
      /\ \A s \in Seq(T) : Folded(a, G, s) \in X
      /\ \A s \in Seq(T), e \in T : Folded(a, G, Append(s, e)) = G[<<Folded(a, G, s), e>>]
  BY <1>1, <1>3, RunSteps, SMTT(30)
<1>6. <<>> \in Seq(T) /\ \A s \in Seq(T), e \in T : Append(s, e) \in Seq(T)
  OBVIOUS
<1>7. Split(<<>>, sep) = a
  BY <1>4, <1>5, <1>6
<1>8. \A s \in Seq(T) : Split(s, sep) \in X
  BY <1>4, <1>5
<1>9. ASSUME NEW s \in Seq(T), NEW e \in T
      PROVE  Split(Append(s, e), sep) = OneMore(Split(s, sep), e, sep)
  BY <1>2, <1>4, <1>5, <1>6, ZenonT(30)
<1> QED
  BY <1>7, <1>8, <1>9 DEF a, X

LEMMA LastAndFront ==
    ASSUME NEW S, NEW s \in Seq(S), s # <<>>
    PROVE  Last(s) \in S /\ Front(s) \in Seq(S) /\ Len(Front(s)) = Len(s) - 1
<1> DEFINE n == Len(s)
<1>1. n \in Nat \ {0}
  OBVIOUS
<1>2. s[n] \in S
  BY <1>1
<1>3. SubSeq(s, 1, n - 1) \in Seq(S)
  BY <1>1
<1>4. Len(SubSeq(s, 1, n - 1)) = n - 1
  <2>1. n - 1 \in 0 .. Len(s) /\ IsSeq(s)
    BY <1>1, SeqIsSeq
  <2> HIDE DEF n
  <2> QED
    BY <2>1, CutAt
<1> QED
  BY <1>2, <1>3, <1>4 DEF Last, Front

LEMMA PiecesType ==
    ASSUME NEW T, NEW s \in Seq(T)
    PROVE  Pieces(s) \in Seq(Seq(T))
<1>1. Split(s, LF) \in Seq(Seq(T)) /\ Split(s, LF) # <<>>
  BY SplitFacts DEF PieceLists
<1> QED
  BY <1>1, LastAndFront DEF Pieces

LEMMA ReadChunkType ==
    ASSUME NEW T, NEW m \in Seq(T), NEW c \in Seq(T)
    PROVE  ReadChunk(m, c).msg \in Seq(T) /\ ReadChunk(m, c).lines \in Seq(Seq(T))
<1> DEFINE b == m \o c
           ps == Pieces(b)
<1>1. b \in Seq(T)
  BY ConcatFacts
<1> HIDE DEF b
<1>2. ps \in Seq(Seq(T))
  BY <1>1, PiecesType
<1>3. ReadChunk(m, c) = IF Len(ps) < 2 THEN [msg |-> b, lines |-> <<>>]
                        ELSE [msg |-> Last(ps), lines |-> Front(ps)]
  BY DEF ReadChunk, b
<1> HIDE DEF ps
<1>4. CASE Len(ps) < 2
  BY <1>1, <1>3, <1>4
<1>5. CASE ~(Len(ps) < 2)
  <2>1. ps # <<>>
    BY <1>2, <1>5
  <2>2. Last(ps) \in Seq(T) /\ Front(ps) \in Seq(Seq(T))
    BY <1>2, <2>1, LastAndFront
  <2>3. ReadChunk(m, c) = [msg |-> Last(ps), lines |-> Front(ps)]
    BY <1>3, <1>5
  <2> QED
    BY <2>2, <2>3
<1> QED
  BY <1>4, <1>5

LEMMA ArgumentsType ==
    ASSUME NEW T, NEW line \in Seq(T)
    PROVE  Arguments(line) \in Seq(Seq(T))
<1>1. WithoutCR(line) \in Seq(T)
  BY LastAndFront DEF WithoutCR
<1> QED
  BY <1>1, SplitFacts DEF Arguments, PieceLists

-----------------------------------------------------------------------------
(* The symbols that a value may hold once it is read, and all symbols.     *)
ErrorTypes == {"MULTIPLE_CMDS", "INVALID_KEYWORD", "DONT_KNOW", "MISSING_ARGUMENT",
               "REDUNDENT_LOGIN", "LOGIN_FAILED", "NOT_LOGGED_IN", "NONEXISTANT_TARGET",
               "UNKNOWN_COMMAND"}
Clean == Symbols \cup ErrorTypes \cup {"NORMAL"}
All == Clean \cup {Bad}

LEMMA CleanFacts ==
    /\ Bad \notin Clean /\ Symbols \subseteq Clean /\ Clean \subseteq All /\ All \ {Bad} = Clean
    /\ BS \in Symbols /\ Closed(All) /\ Escaped(Clean) = Clean /\ Escaped(Symbols) = Symbols
<1>1. Bad \notin Clean
  BY DEF Bad, Clean, Symbols, ErrorTypes, Words, Separators, BS, Unknown
<1>2. {BS, Unknown} \cup Separators \cup DOMAIN Separator \subseteq Symbols
  BY EscapeTable DEF Symbols
<1>3. Symbols \subseteq Clean /\ Clean \subseteq All /\ Bad \in All
  BY DEF Clean, All
<1>4. Closed(All)
  BY <1>2, <1>3 DEF Closed
<1>5. Escaped(Clean) = Clean /\ Escaped(Symbols) = Symbols
  BY <1>2, <1>3 DEF Escaped
<1>6. All \ {Bad} = Clean
  BY <1>1 DEF All
<1> QED
  BY <1>1, <1>2, <1>3, <1>4, <1>5, <1>6

LEMMA SeqMonotone == ASSUME NEW S, NEW T, S \subseteq T PROVE Seq(S) \subseteq Seq(T)
  OBVIOUS

(* A text that is not refused is read as a clean one.                      *)
LEMMA CleanRead ==
    ASSUME NEW w \in Seq(Clean)
    PROVE  /\ ServerUnescape(w) \in Seq(All)
           /\ ~Refused(w) => ServerUnescape(w) \in Seq(Clean)
<1> DEFINE u == ServerUnescape(w)
<1>1. w \in Seq(All) /\ Closed(All)
  BY CleanFacts, SeqMonotone
<1>2. u \in Seq(All)
  BY <1>1, ReadType
<1>3. ASSUME ~Refused(w) PROVE u \in Seq(Clean)
  <2>1. Bad \notin ToSet(u)
    BY <1>3 DEF Refused
  <2>2. \A i \in DOMAIN u : u[i] \in All /\ u[i] # Bad
    BY <1>2, <2>1 DEF ToSet
  <2> HIDE DEF u
  <2>3. \A i \in 1 .. Len(u) : u[i] \in Clean
    BY <1>2, <2>2, CleanFacts
  <2> QED
    BY <1>2, <2>3
<1> QED
  BY <1>2, <1>3

LEMMA NotRefusedClean ==
    ASSUME NEW v \in Seq(Clean), \A i \in DOMAIN v : v[i] # BS
    PROVE  ServerUnescape(v) = v /\ ~Refused(v)
<1> DEFINE T == Clean \ {BS}
           S == {x \in Seq(T) : ServerUnescape(x) = x}
<1>1. <<>> \in S
  BY ReadEmpty
<1>2. ASSUME NEW a \in T, NEW z \in Seq(T), z \in S PROVE Cons(a, z) \in S
  <2>1. Cons(a, z) \in Seq(T) /\ a \in T \ {BS}
    BY FrontFacts
  <2> HIDE DEF T
  <2>2. ServerUnescape(Cons(a, z)) = Cons(a, ServerUnescape(z))
    BY <2>1, ReadFront
  <2> QED
    BY <1>2, <2>1, <2>2
<1>3. v \in Seq(T)
  OBVIOUS
<1> HIDE DEF S, T
<1>4. v \in S
  BY <1>1, <1>2, <1>3, TextInduction
<1>5. ServerUnescape(v) = v
  BY <1>4 DEF S
<1>6. ~Refused(v)
  BY <1>5, CleanFacts DEF Refused, ToSet
<1> QED
  BY <1>5, <1>6

-----------------------------------------------------------------------------
(* The parser.                                                             *)
LEMMA MinIs ==
    ASSUME NEW S, S \subseteq Nat, S # {}
    PROVE  Min(S) \in S /\ \A k \in S : Min(S) <= k
<1>1. \E n \in S : \A k \in S : n <= k
  BY Smallest
<1> QED
  BY <1>1 DEF Min

LEMMA MaxIs ==
    ASSUME NEW n \in Nat, NEW S, S \subseteq 0 .. n, S # {}
    PROVE  Max(S) \in S
<1>1. \E m \in S : \A k \in S : m >= k
  BY Largest
<1> QED
  BY <1>1 DEF Max

LEMMA FirstRaisedIs ==
    ASSUME NEW c, Len(c) \in Nat
    PROVE  /\ FirstRaised(c) \in 0 .. Len(c)
           /\ FirstRaised(c) = 0 => \A i \in 1 .. Len(c) : ~c[i].raised
           /\ FirstRaised(c) # 0 => /\ c[FirstRaised(c)].raised
                                    /\ \A i \in 1 .. Len(c) : i < FirstRaised(c) => ~c[i].raised
<1> DEFINE I == {i \in 1 .. Len(c) : c[i].raised}
<1>1. FirstRaised(c) = IF I # {} THEN Min(I) ELSE 0
  BY DEF FirstRaised, SelectInSeq
<1>2. I \subseteq Nat
  OBVIOUS
<1>3. I # {} => Min(I) \in I /\ \A k \in I : Min(I) <= k
  <2> HIDE DEF I
  <2> QED
    BY <1>2, MinIs
<1>4. CASE I = {}
  <2>1. FirstRaised(c) = 0
    BY <1>1, <1>4
  <2>2. \A i \in 1 .. Len(c) : ~c[i].raised
    BY <1>4, Zenon
  <2> QED
    BY <2>1, <2>2
<1>5. CASE I # {}
  <2> DEFINE f == FirstRaised(c)
  <2>1. f = Min(I)
    BY <1>1, <1>5
  <2> HIDE DEF f
  <2>2. f \in I /\ \A k \in I : f <= k
    BY <1>3, <1>5, <2>1
  <2>3. f \in 1 .. Len(c) /\ c[f].raised
    BY <2>2, Zenon
  <2>4. ASSUME NEW i \in 1 .. Len(c), i < f PROVE ~c[i].raised
    <3>1. i \notin I
      BY <2>2, <2>3, <2>4
    <3> QED
      BY <3>1, Zenon
  <2>5. f \in 0 .. Len(c) /\ f # 0
    BY <2>3
  <2> QED
    BY <2>3, <2>4, <2>5 DEF f
<1> QED
  BY <1>4, <1>5

LEMMA EqualsSignIs == ASSUME NEW c, Len(c) \in Nat PROVE EqualsSign(c) \in 0 .. Len(c)
<1> DEFINE I == {i \in 1 .. Len(c) : c[i] = "="}
<1>1. EqualsSign(c) = IF I # {} THEN Min(I) ELSE 0
  BY DEF EqualsSign, SelectInSeq
<1>2. I \subseteq Nat
  OBVIOUS
<1>3. I # {} => Min(I) \in I
  <2> HIDE DEF I
  <2> QED
    BY <1>2, MinIs
<1> QED
  BY <1>1, <1>3

LEMMA ValueType == ASSUME NEW T, NEW c \in Seq(T) PROVE Value(c) \in Seq(T)
<1> DEFINE n == Len(c)
           e == EqualsSign(c)
<1>1. n \in Nat /\ e \in 0 .. n
  BY EqualsSignIs
<1> HIDE DEF e
<1>2. SubSeq(c, e + 1, n) \in Seq(T)
  BY <1>1
<1> QED
  BY <1>2 DEF Value, e

LEMMA UpperType == ASSUME NEW c \in Seq(Symbols) PROVE Upper(c) \in Seq(Symbols)
<1> DEFINE u == Upper(c)
<1>1. "PING" \in Symbols /\ "COOKIE" \in Symbols
  BY DEF Symbols, Words
<1>2. \A x \in DOMAIN Lowercase : Lowercase[x] \in Symbols
  BY <1>1 DEF Lowercase
<1>3. Len(c) \in Nat /\ u \in [1 .. Len(c) -> Symbols]
  BY <1>2 DEF Upper
<1> HIDE DEF u
<1>4. u \in Seq(Symbols)
  BY <1>3, FunctionIsSeq
<1> QED
  BY <1>4 DEF u

LEMMA CommandType == ASSUME NEW line \in Seq(Symbols) PROVE Command(line) \in Seq(Symbols)
<1> DEFINE args == Arguments(line)
           I == {i \in 1 .. Len(args) : IsCommand(args[i]) /\ args[i] # <<>>}
           n == IF I # {} THEN Min(I) ELSE 0
<1>1. Command(line) = IF n = 0 THEN <<>> ELSE Upper(args[n])
  BY DEF Command, SelectInSeq
<1>2. args \in Seq(Seq(Symbols))
  BY ArgumentsType
<1> HIDE DEF args
<1>3. I \subseteq Nat
  OBVIOUS
<1>4. I # {} => Min(I) \in I
  <2> HIDE DEF I
  <2> QED
    BY <1>3, MinIs
<1>5. n # 0 => n \in DOMAIN args
  BY <1>2, <1>4
<1> HIDE DEF n
<1>6. n # 0 => args[n] \in Seq(Symbols)
  BY <1>2, <1>5
<1>7. <<>> \in Seq(Symbols)
  OBVIOUS
<1> QED
  BY <1>1, <1>6, <1>7, UpperType

LEMMA BadCharacterType ==
    ASSUME NEW T, NEW w \in Seq(T), Refused(w)
    PROVE  BadCharacter(w) \in T
<1> DEFINE upto(i) == Refused(SubSeq(w, 1, i))
           I == {i \in DOMAIN w : upto(i)}
<1>1. Len(w) \in Nat /\ DOMAIN w = 1 .. Len(w) /\ SubSeq(w, 1, Len(w)) = w
  OBVIOUS
<1>2. w # <<>>
  BY ReadEmpty DEF Refused, ToSet
<1>3. Len(w) \in I
  <2>1. Len(w) # 0
    BY <1>2
  <2>2. upto(Len(w))
    BY <1>1
  <2> HIDE DEF upto
  <2> QED
    BY <1>1, <2>1, <2>2
<1> HIDE DEF upto
<1>4. PICK k \in I : \A j \in I : k <= j
  <2>1. I \subseteq Nat
    BY <1>1
  <2> HIDE DEF I
  <2> QED
    BY <1>3, <2>1, Smallest
<1>5. \A j \in 1 .. k - 1 : ~upto(j)
  BY <1>1, <1>4
<1> DEFINE m == CHOOSE i \in DOMAIN w : upto(i) /\ \A j \in 1 .. i - 1 : ~upto(j)
<1>6. m \in DOMAIN w
  BY <1>4, <1>5
<1>7. BadCharacter(w) = w[m]
  BY DEF BadCharacter, upto
<1> HIDE DEF m
<1> QED
  BY <1>6, <1>7

(* An error of the server, and a check that may find it.                   *)
ErrorOK(e) == e.type \in ErrorTypes /\ e.quoted \in Seq(Clean)

LEMMA CheckIs ==
    ASSUME NEW raised, NEW type \in ErrorTypes, NEW quoted \in Seq(Clean)
    PROVE  ErrorOK(Check(raised, type, quoted).error)
  BY DEF ErrorOK, Check, Error

(* A line that raises nothing holds only arguments that can be read.       *)
LEMMA ParseChecksAre ==
    ASSUME NEW line \in Seq(Symbols)
    PROVE  LET checks == ParseChecks(line)
               args == Arguments(line)
           IN  /\ IsSeq(checks)
               /\ \A k \in DOMAIN checks : ErrorOK(checks[k].error)
               /\ (\A k \in DOMAIN checks : ~checks[k].raised) =>
                      \A i \in DOMAIN args : ~IsCommand(args[i]) => ~Refused(Value(args[i]))
<1> DEFINE args == Arguments(line)
           second(i) == \E j \in 1 .. i - 1 : IsCommand(args[j]) /\ args[j] # <<>>
           value(i) == Value(args[i])
           bad(i) == IF Refused(value(i)) THEN <<BS, BadCharacter(value(i))>> ELSE <<>>
           c1(i) == Check(second(i), "MULTIPLE_CMDS", <<>>)
           c2(i) == Check(~Alphabetic(Key(args[i])), "INVALID_KEYWORD", <<>>)
           c3(i) == Check(Refused(value(i)), "DONT_KNOW", bad(i))
           s == [i \in DOMAIN args |-> IF IsCommand(args[i]) THEN <<c1(i)>>
                                       ELSE <<c2(i), c3(i)>>]
           checks == ParseChecks(line)
<1>1. checks = FlattenSeq(s)
  BY DEF ParseChecks
<1>2. args \in Seq(Seq(Symbols))
  BY ArgumentsType
<1> HIDE DEF args
<1>3. ASSUME NEW i \in DOMAIN args PROVE bad(i) \in Seq(Clean)
  <2>1. value(i) \in Seq(Symbols)
    <3>1. args[i] \in Seq(Symbols)
      BY <1>2
    <3> QED
      BY <3>1, ValueType
  <2>2. CASE Refused(value(i))
    <3>1. BadCharacter(value(i)) \in Clean /\ BS \in Clean
      BY <2>1, <2>2, BadCharacterType, CleanFacts
    <3> QED
      BY <2>2, <3>1, PairType
  <2>3. CASE ~Refused(value(i))
    BY <2>3
  <2> QED
    BY <2>2, <2>3
<1>4. <<>> \in Seq(Clean)
  OBVIOUS
<1> HIDE DEF bad, second
<1>5. \A i \in DOMAIN args : ErrorOK(c1(i).error) /\ ErrorOK(c2(i).error) /\ ErrorOK(c3(i).error)
  <2>1. {"MULTIPLE_CMDS", "INVALID_KEYWORD", "DONT_KNOW"} \subseteq ErrorTypes
    BY DEF ErrorTypes
  <2> QED
    BY <1>3, <1>4, <2>1, CheckIs
<1>6. \A i \in DOMAIN args : c3(i).raised = Refused(value(i))
  BY DEF Check
<1> HIDE DEF c1, c2, c3, value
<1>7. \A i \in DOMAIN args : IsSeq(s[i]) /\ \A j \in DOMAIN s[i] : ErrorOK(s[i][j].error)
  <2> TAKE i \in DOMAIN args
  <2>1. CASE IsCommand(args[i])
    <3>1. s[i] = <<c1(i)>>
      BY <2>1
    <3>2. IsSeq(<<c1(i)>>) /\ \A j \in DOMAIN <<c1(i)>> : <<c1(i)>>[j] = c1(i)
      BY SingleIsSeq
    <3> QED
      BY <1>5, <3>1, <3>2
  <2>2. CASE ~IsCommand(args[i])
    <3>1. s[i] = <<c2(i), c3(i)>>
      BY <2>2
    <3>2. /\ IsSeq(<<c2(i), c3(i)>>)
          /\ \A j \in DOMAIN <<c2(i), c3(i)>> : <<c2(i), c3(i)>>[j] \in {c2(i), c3(i)}
      BY PairIsSeq
    <3> QED
      BY <1>5, <3>1, <3>2
  <2> QED
    BY <2>1, <2>2
<1>8. IsSeq(s) /\ DOMAIN s = DOMAIN args
  <2>1. Len(args) \in Nat /\ DOMAIN args = 1 .. Len(args) /\ DOMAIN s = DOMAIN args
    BY <1>2
  <2>2. s \in [1 .. Len(args) -> {s[i] : i \in DOMAIN s}]
    BY <2>1
  <2> HIDE DEF s
  <2> QED
    BY <2>1, <2>2, FunctionIsSeq DEF IsSeq
<1>9. \A i \in DOMAIN args : ~IsCommand(args[i]) => \E j \in DOMAIN s[i] : s[i][j] = c3(i)
  <2> TAKE i \in DOMAIN args
  <2> HAVE ~IsCommand(args[i])
  <2>1. s[i] = <<c2(i), c3(i)>> /\ 2 \in DOMAIN <<c2(i), c3(i)>> /\ <<c2(i), c3(i)>>[2] = c3(i)
    OBVIOUS
  <2> QED
    BY <2>1
<1> HIDE DEF s, checks
<1>10. /\ IsSeq(checks)
       /\ \A k \in DOMAIN checks : \E i \in DOMAIN s : \E j \in DOMAIN s[i] : checks[k] = s[i][j]
       /\ \A i \in DOMAIN s : \A j \in DOMAIN s[i] : \E k \in DOMAIN checks : checks[k] = s[i][j]
  BY <1>1, <1>7, <1>8, FlattenElements
<1>11. \A k \in DOMAIN checks : ErrorOK(checks[k].error)
  BY <1>7, <1>8, <1>10
<1>12. ASSUME \A k \in DOMAIN checks : ~checks[k].raised, NEW i \in DOMAIN args, ~IsCommand(args[i])
       PROVE  ~Refused(value(i))
  <2>1. PICK k \in DOMAIN checks : checks[k] = c3(i)
    BY <1>8, <1>9, <1>10, <1>12
  <2>2. ~c3(i).raised
    BY <1>12, <2>1
  <2> QED
    BY <1>6, <2>2
<1> QED
  BY <1>10, <1>11, <1>12 DEF checks, args, value

-----------------------------------------------------------------------------
(* A value that was read from a text that is not refused.                  *)
ReadValue(v) == \E w \in Seq(Clean) : ~Refused(w) /\ v = ServerUnescape(w)

LEMMA ReadValueIs == ASSUME NEW v, ReadValue(v) PROVE v \in Seq(Clean)
  BY CleanRead DEF ReadValue

LEMMA StdIs ==
    ASSUME NEW line \in Seq(Symbols),
           \A i \in DOMAIN Arguments(line) :
               ~IsCommand(Arguments(line)[i]) => ~Refused(Value(Arguments(line)[i]))
    PROVE  \A key \in DOMAIN Std(line) : ReadValue(Std(line)[key])
<1> DEFINE args == Arguments(line)
           pairs == {i \in DOMAIN args : ~IsCommand(args[i])}
           same(key) == {i \in pairs : Key(args[i]) = key}
           last(key) == Max(same(key))
           keys == {Key(args[i]) : i \in pairs}
<1>1. Std(line) = [key \in keys |-> ServerUnescape(Value(args[last(key)]))]
  BY DEF Std
<1>2. args \in Seq(Seq(Symbols))
  BY ArgumentsType
<1>3. \A i \in pairs : ~Refused(Value(args[i]))
  OBVIOUS
<1> HIDE DEF args
<1>4. ASSUME NEW key \in keys PROVE last(key) \in pairs
  <2>1. Len(args) \in Nat /\ DOMAIN args = 1 .. Len(args)
    BY <1>2
  <2>2. same(key) \subseteq 0 .. Len(args) /\ same(key) # {} /\ same(key) \subseteq pairs
    BY <2>1
  <2> HIDE DEF same
  <2>3. Max(same(key)) \in same(key)
    BY <2>1, <2>2, MaxIs
  <2> QED
    BY <2>2, <2>3
<1> HIDE DEF last
<1>5. ASSUME NEW key \in keys PROVE ReadValue(Std(line)[key])
  <2> DEFINE w == Value(args[last(key)])
  <2>1. last(key) \in pairs
    BY <1>4
  <2>2. ~Refused(w)
    BY <1>3, <2>1
  <2>3. args[last(key)] \in Seq(Symbols)
    BY <1>2, <2>1
  <2>4. w \in Seq(Clean)
    BY <2>3, ValueType, CleanFacts, SeqMonotone
  <2>5. Std(line)[key] = ServerUnescape(w)
    BY <1>1
  <2> HIDE DEF w
  <2> QED
    BY <2>2, <2>4, <2>5 DEF ReadValue
<1> QED
  BY <1>1, <1>5

LEMMA EmptyRead == ReadValue(<<>>) /\ ReadValue(<<"NORMAL">>)
<1>1. <<>> \in Seq(Clean) /\ ServerUnescape(<<>>) = <<>> /\ ~Refused(<<>>)
  BY ReadEmpty DEF Refused, ToSet
<1> DEFINE n == <<"NORMAL">>
<1>2. n \in Seq(Clean) /\ \A i \in DOMAIN n : n[i] # BS
  <2>1. "NORMAL" \in Clean /\ "NORMAL" # BS
    BY DEF Clean, BS
  <2> QED
    BY <2>1
<1> HIDE DEF n
<1>3. ServerUnescape(n) = n /\ ~Refused(n)
  BY <1>2, NotRefusedClean
<1> QED
  BY <1>1, <1>2, <1>3 DEF ReadValue, n

LEMMA ArgIs ==
    ASSUME NEW args, \A key \in DOMAIN args : ReadValue(args[key]), NEW key
    PROVE  ReadValue(Arg(args, key))
  BY EmptyRead DEF Arg, Has

-----------------------------------------------------------------------------
(* The handlers.                                                           *)
LEMMA SingleElements ==
    ASSUME NEW a
    PROVE  IsSeq(<<a>>) /\ 1 \in DOMAIN <<a>> /\ <<a>>[1] = a /\ \A j \in DOMAIN <<a>> : <<a>>[j] = a
  BY SingleIsSeq

LEMMA FourElements ==
    ASSUME NEW a, NEW b, NEW c, NEW d
    PROVE  /\ IsSeq(<<a, b, c, d>>) /\ 4 \in DOMAIN <<a, b, c, d>> /\ <<a, b, c, d>>[4] = d
           /\ \A j \in DOMAIN <<a, b, c, d>> : <<a, b, c, d>>[j] \in {a, b, c, d}
<1> DEFINE s == <<a, b, c, d>>
           T == {a, b, c, d}
<1>1. s \in Seq(T) /\ 4 \in DOMAIN s /\ s[4] = d
  OBVIOUS
<1> HIDE DEF s, T
<1>2. IsSeq(s) /\ \A j \in DOMAIN s : s[j] \in T
  BY <1>1, SeqIsSeq, ElementType
<1> QED
  BY <1>1, <1>2 DEF s, T

Commands == {<<"HELP">>, <<"EGG">>, <<"PING">>, <<"LOGIN">>} \cup Texts

LEMMA CommandsApart ==
    /\ <<"PING">> \notin {<<"HELP">>, <<"EGG">>} /\ <<"LOGIN">> \notin {<<"HELP">>, <<"EGG">>, <<"PING">>}
    /\ \A c \in Texts : c \notin {<<"HELP">>, <<"EGG">>, <<"PING">>, <<"LOGIN">>}
    /\ <<"HELP">> # <<"EGG">> /\ <<"PRIVMSG">> # <<"CHANMSG">>
<1>1. ASSUME NEW a, NEW b, a # b PROVE <<a>> # <<b>>
  <2>1. <<a>>[1] = a /\ <<b>>[1] = b
    OBVIOUS
  <2> QED
    BY <1>1, <2>1
<1> QED
  BY <1>1 DEF Texts

LEMMA CommandChecksAre ==
    ASSUME NEW u \in Seq(Symbols), NEW cmd \in Seq(Symbols), NEW args,
           \A key \in DOMAIN args : ReadValue(args[key])
    PROVE  LET checks == CommandChecks(u, cmd, args)
           IN  /\ IsSeq(checks)
               /\ \A k \in DOMAIN checks : ErrorOK(checks[k].error)
               /\ (\A k \in DOMAIN checks : ~checks[k].raised) =>
                      /\ cmd \in Commands
                      /\ cmd = <<"LOGIN">> => Arg(args, "USERNAME") \in DOMAIN Passwords
<1> DEFINE checks == CommandChecks(u, cmd, args)
           OK(c) == ErrorOK(c.error)
           Good == (\A k \in DOMAIN checks : ~checks[k].raised) =>
                      /\ cmd \in Commands
                      /\ cmd = <<"LOGIN">> => Arg(args, "USERNAME") \in DOMAIN Passwords
<1> SUFFICES IsSeq(checks) /\ (\A k \in DOMAIN checks : OK(checks[k])) /\ Good
  OBVIOUS
<1>1. /\ {"MISSING_ARGUMENT", "REDUNDENT_LOGIN", "LOGIN_FAILED", "NOT_LOGGED_IN",
          "NONEXISTANT_TARGET", "UNKNOWN_COMMAND"} \subseteq ErrorTypes
      /\ u \in Seq(Clean) /\ cmd \in Seq(Clean) /\ <<>> \in Seq(Clean)
      /\ \A key : Arg(args, key) \in Seq(Clean)
  <2>1. Seq(Symbols) \subseteq Seq(Clean) /\ <<>> \in Seq(Clean)
    BY CleanFacts, SeqMonotone
  <2>2. \A key : Arg(args, key) \in Seq(Clean)
    BY ArgIs, ReadValueIs
  <2> QED
    BY <2>1, <2>2 DEF ErrorTypes
<1>2. \A key : OK(Missing(args, key))
  BY <1>1, CheckIs DEF Missing
<1>3. CASE cmd \in {<<"HELP">>, <<"EGG">>}
  <2>1. checks = <<>>
    BY <1>3, CommandsApart DEF CommandChecks
  <2>2. IsSeq(<<>>) /\ DOMAIN <<>> = {}
    BY EmptyIsSeq
  <2>3. Good
    BY <1>3, CommandsApart DEF Commands
  <2> HIDE DEF checks, OK, Good
  <2> QED
    BY <2>1, <2>2, <2>3
<1>4. CASE cmd = <<"PING">>
  <2>1. checks = <<Missing(args, "COOKIE")>>
    BY <1>4, CommandsApart DEF CommandChecks
  <2>2. Good
    BY <1>4, CommandsApart DEF Commands
  <2> HIDE DEF checks, OK, Good
  <2> QED
    BY <1>2, <2>1, <2>2, SingleElements
<1>5. CASE cmd = <<"LOGIN">>
  <2> DEFINE a == Check(u # NoUser, "REDUNDENT_LOGIN", u)
             b == Missing(args, "USERNAME")
             c == Missing(args, "PASSWORD")
             d == Check(~LoginGood(args), "LOGIN_FAILED", Arg(args, "USERNAME"))
  <2>1. checks = <<a, b, c, d>>
    BY <1>5, CommandsApart DEF CommandChecks
  <2>2. OK(a) /\ OK(b) /\ OK(c) /\ OK(d)
    BY <1>1, <1>2, CheckIs
  <2>3. ~d.raised => Arg(args, "USERNAME") \in DOMAIN Passwords
    BY DEF Check, LoginGood
  <2> HIDE DEF a, b, c, d, checks, OK
  <2>4. /\ IsSeq(checks) /\ 4 \in DOMAIN checks /\ checks[4] = d
        /\ \A j \in DOMAIN checks : checks[j] \in {a, b, c, d}
    BY <2>1, FourElements
  <2>5. Good
    BY <1>5, <2>3, <2>4 DEF Commands
  <2> HIDE DEF Good
  <2> QED
    BY <2>2, <2>4, <2>5
<1>6. CASE cmd \in Texts
  <2> DEFINE a == Check(u = NoUser, "NOT_LOGGED_IN", <<>>)
             b == Missing(args, "TARGET")
             c == Check(Arg(args, "TARGET") \notin Targets(cmd), "NONEXISTANT_TARGET",
                        Arg(args, "TARGET"))
             d == Missing(args, "MESSAGE")
  <2>1. checks = <<a, b, c, d>>
    BY <1>6, CommandsApart DEF CommandChecks
  <2>2. OK(a) /\ OK(b) /\ OK(c) /\ OK(d)
    BY <1>1, <1>2, CheckIs
  <2>3. Good
    BY <1>6, CommandsApart DEF Commands
  <2> HIDE DEF a, b, c, d, checks, OK, Good
  <2>4. IsSeq(checks) /\ \A j \in DOMAIN checks : checks[j] \in {a, b, c, d}
    BY <2>1, FourElements
  <2> QED
    BY <2>2, <2>3, <2>4
<1>7. CASE cmd \notin Commands
  <2> DEFINE a == Check(TRUE, "UNKNOWN_COMMAND", cmd)
  <2>1. checks = <<a>>
    BY <1>7 DEF CommandChecks, Commands
  <2>2. OK(a)
    BY <1>1, CheckIs
  <2>3. a.raised
    BY DEF Check
  <2> HIDE DEF a, checks, OK
  <2>4. IsSeq(checks) /\ 1 \in DOMAIN checks /\ checks[1] = a /\ \A j \in DOMAIN checks : checks[j] = a
    BY <2>1, SingleElements
  <2>5. Good
    BY <2>3, <2>4
  <2> HIDE DEF Good
  <2> QED
    BY <2>2, <2>4, <2>5
<1> QED
  BY <1>3, <1>4, <1>5, <1>6, <1>7 DEF Commands

(* A line that the server sends.                                           *)
Answer(l) ==
    /\ \A key \in DOMAIN l.args : \E x \in Seq(Clean) : l.args[key] = ServerEscape(x)
    /\ l.to = "target" =>
           \A key \in {"TARGET", "TYPE", "MESSAGE"} :
               \E x : ReadValue(x) /\ l.args[key] = ServerEscape(x)

LEMMA SentIs ==
    ASSUME NEW to, NEW cmd, NEW args, \A key \in DOMAIN args : args[key] \in Seq(Clean),
           to = "target" => \A key \in {"TARGET", "TYPE", "MESSAGE"} :
                                key \in DOMAIN args /\ ReadValue(args[key])
    PROVE  Answer(Sent(to, cmd, args))
<1> DEFINE l == Sent(to, cmd, args)
<1>1. l.to = to /\ l.args = [k \in DOMAIN args |-> ServerEscape(args[k])]
  BY DEF Sent
<1> HIDE DEF l
<1>2. DOMAIN l.args = DOMAIN args /\ \A k \in DOMAIN args : l.args[k] = ServerEscape(args[k])
  BY <1>1
<1>3. Answer(l)
  BY <1>1, <1>2 DEF Answer
<1> QED
  BY <1>3 DEF l

(* What the server sends because of one line.                              *)
AnswersOK(s) == IsSeq(s) /\ s # <<>> /\ \A i \in DOMAIN s : Answer(s[i])

LEMMA OneAnswer == ASSUME NEW l, Answer(l) PROVE AnswersOK(<<l>>)
<1>1. <<l>> # <<>>
  BY SingleElements, EmptyIsSeq
<1> QED
  BY <1>1, SingleElements DEF AnswersOK

LEMMA TwoAnswers == ASSUME NEW k, NEW l, Answer(k), Answer(l) PROVE AnswersOK(<<k>> \o <<l>>)
<1> DEFINE s == <<k>> \o <<l>>
<1>1. s \in Seq({k, l}) /\ Len(s) = 2
  OBVIOUS
<1> HIDE DEF s
<1>2. IsSeq(s) /\ s # <<>> /\ \A i \in DOMAIN s : s[i] \in {k, l}
  BY <1>1, SeqIsSeq
<1> QED
  BY <1>2 DEF AnswersOK, s

LEMMA EffectsAre ==
    ASSUME NEW u \in Seq(Symbols), NEW cmd \in Commands, NEW args,
           \A key \in DOMAIN args : ReadValue(args[key])
    PROVE  AnswersOK(Effects(u, cmd, args))
<1> DEFINE text == [SOURCE |-> u, TARGET |-> Arg(args, "TARGET"),
                    TYPE |-> IF Has(args, "TYPE") THEN Arg(args, "TYPE") ELSE <<"NORMAL">>,
                    MESSAGE |-> Arg(args, "MESSAGE")]
           e == Effects(u, cmd, args)
           good(a) == \A key \in DOMAIN a : a[key] \in Seq(Clean)
<1>1. u \in Seq(Clean) /\ \A key : ReadValue(Arg(args, key)) /\ Arg(args, key) \in Seq(Clean)
  BY CleanFacts, SeqMonotone, ArgIs, ReadValueIs
<1>2. ReadValue(text.TARGET) /\ ReadValue(text.TYPE) /\ ReadValue(text.MESSAGE)
  BY <1>1, EmptyRead
<1>3. good(text)
  <2>1. text.TARGET \in Seq(Clean) /\ text.TYPE \in Seq(Clean) /\ text.MESSAGE \in Seq(Clean)
    BY <1>2, ReadValueIs
  <2>2. text.SOURCE \in Seq(Clean)
    BY <1>1
  <2>3. DOMAIN text = {"SOURCE", "TARGET", "TYPE", "MESSAGE"}
    OBVIOUS
  <2> HIDE DEF text
  <2> QED
    BY <2>1, <2>2, <2>3
<1>4. {"TARGET", "TYPE", "MESSAGE"} \subseteq DOMAIN text
  OBVIOUS
<1>5. text.TARGET = Arg(args, "TARGET")
  OBVIOUS
<1>6. good(<<>>)
  BY EmptyIsSeq
<1>7. /\ good([COOKIE |-> Arg(args, "COOKIE")])
      /\ good([USERNAME |-> Arg(args, "USERNAME")])
  BY <1>1
<1>8. /\ cmd = <<"HELP">> => e = <<Sent("client", "HELP", <<>>)>>
      /\ cmd = <<"EGG">> => e = <<Sent("client", "EASTER_EGG", <<>>)>>
      /\ cmd = <<"PING">> => e = <<Sent("client", "PONG", [COOKIE |-> Arg(args, "COOKIE")])>>
      /\ cmd = <<"LOGIN">> =>
             e = <<Sent("client", "LOGIN_GOOD", [USERNAME |-> Arg(args, "USERNAME")])>>
      /\ cmd = <<"CHANMSG">> => e = <<Sent("target", "CHANMSG", text)>>
      /\ cmd = <<"PRIVMSG">> =>
             e = <<Sent("target", "PRIVMSG", text)>>
                 \o (IF text.TARGET = u THEN <<>> ELSE <<Sent("client", "PRIVMSG", text)>>)
  BY CommandsApart DEF Effects, Texts
<1> HIDE DEF text, e
<1>9. \A c, a : good(a) => Answer(Sent("client", c, a))
  BY SentIs
<1>10. \A c : Answer(Sent("target", c, text))
  BY <1>2, <1>3, <1>4, SentIs
<1> HIDE DEF good
<1>11. CASE cmd \in {<<"HELP">>, <<"EGG">>, <<"PING">>, <<"LOGIN">>}
  BY <1>6, <1>7, <1>8, <1>9, <1>11, OneAnswer DEF e
<1>12. CASE cmd = <<"CHANMSG">>
  BY <1>8, <1>10, <1>12, OneAnswer DEF e
<1>13. CASE cmd = <<"PRIVMSG">>
  <2> DEFINE k == Sent("target", "PRIVMSG", text)
             l == Sent("client", "PRIVMSG", text)
  <2>1. Answer(k) /\ Answer(l)
    BY <1>3, <1>9, <1>10
  <2> HIDE DEF k, l
  <2>2. e = <<k>> \o (IF text.TARGET = u THEN <<>> ELSE <<l>>)
    BY <1>8, <1>13 DEF k, l
  <2>3. CASE text.TARGET = u
    <3>1. <<k>> \o <<>> = <<k>>
      BY SingleIsSeq, ConcatEmpty
    <3>2. e = <<k>>
      BY <2>2, <2>3, <3>1
    <3> QED
      BY <2>1, <3>2, OneAnswer DEF e
  <2>4. CASE text.TARGET # u
    <3>1. e = <<k>> \o <<l>>
      BY <2>2, <2>4
    <3>2. AnswersOK(<<k>> \o <<l>>)
      BY <2>1, TwoAnswers
    <3> QED
      BY <3>1, <3>2 DEF e
  <2> QED
    BY <2>3, <2>4
<1> QED
  BY <1>11, <1>12, <1>13 DEF Commands, Texts

Users == DOMAIN Passwords \cup {NoUser}

LEMMA UsersType == Users \subseteq Seq(Symbols)
<1>1. <<>> \in Seq(Symbols)
  OBVIOUS
<1> QED
  BY <1>1, WireAssumption DEF Users, NoUser

LEMMA CommandChecksSeq ==
    ASSUME NEW u, NEW cmd, NEW args
    PROVE  IsSeq(CommandChecks(u, cmd, args))
<1> DEFINE checks == CommandChecks(u, cmd, args)
<1>1. \A a, b, c, d : IsSeq(<<>>) /\ IsSeq(<<a>>) /\ IsSeq(<<a, b, c, d>>)
  BY EmptyIsSeq, SingleIsSeq, FourElements
<1>2. CASE cmd \in {<<"HELP">>, <<"EGG">>}
  <2>1. checks = <<>>
    BY <1>2, CommandsApart DEF CommandChecks
  <2> QED
    BY <1>1, <2>1
<1>3. CASE cmd = <<"PING">>
  <2>1. checks = <<Missing(args, "COOKIE")>>
    BY <1>3, CommandsApart DEF CommandChecks
  <2> QED
    BY <1>1, <2>1
<1>4. CASE cmd = <<"LOGIN">>
  <2> DEFINE a == Check(u # NoUser, "REDUNDENT_LOGIN", u)
             b == Missing(args, "USERNAME")
             c == Missing(args, "PASSWORD")
             d == Check(~LoginGood(args), "LOGIN_FAILED", Arg(args, "USERNAME"))
  <2>1. checks = <<a, b, c, d>>
    BY <1>4, CommandsApart DEF CommandChecks
  <2> HIDE DEF a, b, c, d
  <2> QED
    BY <1>1, <2>1
<1>5. CASE cmd \in Texts
  <2> DEFINE a == Check(u = NoUser, "NOT_LOGGED_IN", <<>>)
             b == Missing(args, "TARGET")
             c == Check(Arg(args, "TARGET") \notin Targets(cmd), "NONEXISTANT_TARGET",
                        Arg(args, "TARGET"))
             d == Missing(args, "MESSAGE")
  <2>1. checks = <<a, b, c, d>>
    BY <1>5, CommandsApart DEF CommandChecks
  <2> HIDE DEF a, b, c, d
  <2> QED
    BY <1>1, <2>1
<1>6. CASE cmd \notin Commands
  <2>1. checks = <<Check(TRUE, "UNKNOWN_COMMAND", cmd)>>
    BY <1>6 DEF CommandChecks, Commands
  <2> QED
    BY <1>1, <2>1
<1> QED
  BY <1>2, <1>3, <1>4, <1>5, <1>6 DEF Commands

LEMMA ComplaintIs == ASSUME NEW e, ErrorOK(e) PROVE Answer(Complaint(e))
<1> DEFINE type == <<e.type>>
           quoted == e.quoted
           args == [PROBLEM |-> type, COMMENT |-> quoted]
           to == "client"
<1>1. type \in Seq(Clean)
  BY SingleType DEF ErrorOK, Clean
<1>2. quoted \in Seq(Clean)
  BY DEF ErrorOK
<1> HIDE DEF type, quoted
<1>3. \A key \in DOMAIN args : args[key] \in Seq(Clean)
  BY <1>1, <1>2
<1>4. to # "target"
  OBVIOUS
<1> HIDE DEF args, to
<1>5. \A cmd : Answer(Sent(to, cmd, args))
  BY <1>3, <1>4, SentIs
<1> QED
  BY <1>5, Zenon DEF Complaint, args, to, type, quoted

(* What the server makes of any line: it sends something, which is made of *)
(* clean values, and stays with a user that exists.                        *)
LEMMA HandledIs ==
    ASSUME NEW u \in Users, NEW line \in Seq(Symbols)
    PROVE  Handled(u, line).user \in Users /\ AnswersOK(Handled(u, line).sent)
<1> DEFINE cmd == Command(line)
           std == Std(line)
           parse == ParseChecks(line)
           command == CommandChecks(u, cmd, std)
           checks == parse \o command
           first == FirstRaised(checks)
           h == Handled(u, line)
           clean == \A k \in DOMAIN parse : ~parse[k].raised
<1>1. h = IF first # 0
          THEN [user |-> u, sent |-> <<Complaint(checks[first].error)>>]
          ELSE [user |-> IF cmd = <<"LOGIN">> THEN Arg(std, "USERNAME") ELSE u,
                sent |-> Effects(u, cmd, std)]
  BY DEF Handled
<1>2. u \in Seq(Symbols) /\ cmd \in Seq(Symbols)
  BY UsersType, CommandType
<1>3. IsSeq(parse) /\ \A k \in DOMAIN parse : ErrorOK(parse[k].error)
  BY ParseChecksAre
<1>4. clean => \A key \in DOMAIN std : ReadValue(std[key])
  BY ParseChecksAre, StdIs
<1> HIDE DEF cmd, std, parse, h
<1>5. IsSeq(command)
  BY CommandChecksSeq
<1>6. clean => /\ \A k \in DOMAIN command : ErrorOK(command[k].error)
               /\ (\A k \in DOMAIN command : ~command[k].raised) =>
                      /\ cmd \in Commands
                      /\ cmd = <<"LOGIN">> => Arg(std, "USERNAME") \in DOMAIN Passwords
  BY <1>2, <1>4, CommandChecksAre
<1> HIDE DEF command
<1>7. IsJoin(checks, parse, command)
  <2> DEFINE T == {parse[i] : i \in DOMAIN parse} \cup {command[i] : i \in DOMAIN command}
  <2>1. parse \in Seq(T) /\ command \in Seq(T)
    BY <1>3, <1>5 DEF IsSeq
  <2> HIDE DEF T
  <2> QED
    BY <2>1, JoinFacts
<1> HIDE DEF checks
<1>8. /\ Len(parse) \in Nat /\ DOMAIN parse = 1 .. Len(parse)
      /\ Len(command) \in Nat /\ DOMAIN command = 1 .. Len(command)
      /\ Len(checks) = Len(parse) + Len(command)
  BY <1>3, <1>5, <1>7 DEF IsSeq, IsJoin
<1>9. /\ first \in 0 .. Len(checks)
      /\ first = 0 => \A i \in 1 .. Len(checks) : ~checks[i].raised
      /\ first # 0 => /\ checks[first].raised
                      /\ \A i \in 1 .. Len(checks) : i < first => ~checks[i].raised
  <2>1. Len(checks) \in Nat
    BY <1>8
  <2> QED
    BY <2>1, FirstRaisedIs, Zenon
<1> HIDE DEF first
<1>10. \A i \in 1 .. Len(parse) : i \in 1 .. Len(checks) /\ checks[i] = parse[i]
  BY <1>7, <1>8 DEF IsJoin
<1>11. \A i \in 1 .. Len(command) :
           Len(parse) + i \in 1 .. Len(checks) /\ checks[Len(parse) + i] = command[i]
  BY <1>7, <1>8 DEF IsJoin
<1>12. CASE first \in 1 .. Len(parse)
  <2>1. ErrorOK(checks[first].error) /\ first # 0
    BY <1>3, <1>8, <1>10, <1>12
  <2>2. AnswersOK(<<Complaint(checks[first].error)>>)
    BY <2>1, ComplaintIs, OneAnswer
  <2> QED
    BY <1>1, <2>1, <2>2 DEF h
<1>13. CASE first # 0 /\ first \notin 1 .. Len(parse)
  <2>1. first - Len(parse) \in 1 .. Len(command) /\ Len(parse) + (first - Len(parse)) = first
    BY <1>8, <1>9, <1>13
  <2>2. checks[first] = command[first - Len(parse)]
    BY <1>11, <2>1
  <2>3. clean
    <3>1. \A k \in 1 .. Len(parse) : k < first
      BY <1>8, <1>9, <1>13
    <3> QED
      BY <1>8, <1>9, <1>10, <1>13, <3>1
  <2>4. ErrorOK(checks[first].error)
    BY <1>6, <1>8, <2>1, <2>2, <2>3
  <2>5. AnswersOK(<<Complaint(checks[first].error)>>)
    BY <2>4, ComplaintIs, OneAnswer
  <2> QED
    BY <1>1, <1>13, <2>5 DEF h
<1>14. CASE first = 0
  <2>1. clean
    BY <1>8, <1>9, <1>10, <1>14
  <2>2. \A k \in DOMAIN command : ~command[k].raised
    BY <1>8, <1>9, <1>11, <1>14
  <2>3. cmd \in Commands /\ (cmd = <<"LOGIN">> => Arg(std, "USERNAME") \in Users)
    BY <1>6, <2>1, <2>2 DEF Users
  <2>4. AnswersOK(Effects(u, cmd, std))
    BY <1>2, <1>4, <2>1, <2>3, EffectsAre
  <2>5. h.sent = Effects(u, cmd, std) /\ h.user = IF cmd = <<"LOGIN">> THEN Arg(std, "USERNAME") ELSE u
    BY <1>1, <1>14
  <2> QED
    BY <2>3, <2>4, <2>5 DEF h
<1> QED
  BY <1>9, <1>12, <1>13, <1>14

-----------------------------------------------------------------------------
(* Some lines, one after the other.                                        *)
LineAnswers == {Handled(u, l).sent : u \in Users, l \in Seq(Symbols)}
Turns == [user : Users, sent : Seq(LineAnswers)]
AfterLine(turn, line) ==
    LET h == Handled(turn.user, line)
    IN  [user |-> h.user, sent |-> Append(turn.sent, h.sent)]

LEMMA AfterLineType ==
    ASSUME NEW turn \in Turns, NEW line \in Seq(Symbols)
    PROVE  AfterLine(turn, line) \in Turns
<1> DEFINE h == Handled(turn.user, line)
<1>1. turn.user \in Users /\ turn.sent \in Seq(LineAnswers)
  BY DEF Turns
<1>2. h.user \in Users /\ h.sent \in LineAnswers
  BY <1>1, HandledIs DEF LineAnswers
<1> HIDE DEF h
<1>3. Append(turn.sent, h.sent) \in Seq(LineAnswers)
  BY <1>1, <1>2
<1> QED
  BY <1>2, <1>3 DEF AfterLine, Turns, h

LEMMA AllHandledFacts ==
    ASSUME NEW u \in Users
    PROVE  /\ AllHandled(u, <<>>) = [user |-> u, sent |-> <<>>]
           /\ \A s \in Seq(Seq(Symbols)) : AllHandled(u, s) \in Turns
           /\ \A s \in Seq(Seq(Symbols)), e \in Seq(Symbols) :
                  AllHandled(u, Append(s, e)) = AfterLine(AllHandled(u, s), e)
<1> DEFINE X == Turns
           T == Seq(Symbols)
           a == [user |-> u, sent |-> <<>>]
           G == [te \in X \X T |-> AfterLine(te[1], te[2])]
<1>1. a \in X
  <2>1. <<>> \in Seq(LineAnswers)
    OBVIOUS
  <2> QED
    BY <2>1 DEF Turns
<1>2. \A x \in X, e \in T : G[<<x, e>>] = AfterLine(x, e)
  OBVIOUS
<1>3. Takes(G, X, T)
  BY AfterLineType DEF Takes
<1> HIDE DEF X, T, G
<1>4. ASSUME NEW s \in Seq(T) PROVE AllHandled(u, s) = Folded(a, G, s)
  <2> DEFINE n == Len(s)
             next(f, i) == LET h == Handled(f[i - 1].user, s[i])
                           IN  [user |-> h.user, sent |-> Append(f[i - 1].sent, h.sent)]
             Is(f) == f = [i \in 0 .. n |-> IF i = 0 THEN a ELSE next(f, i)]
             f == CHOOSE g : Is(g)
  <2>1. AllHandled(u, s) = f[n]
    BY Zenon DEF AllHandled
  <2>2. \A g, i : next(g, i) = AfterLine(g[i - 1], s[i])
    BY DEF AfterLine
  <2> HIDE DEF next
  <2>3. \E g : Is(g)
    <3>1. PICK g : Steps(g, a, G, s)
      BY <1>1, <1>3, StepsExist
    <3>2. g = [i \in 0 .. n |-> IF i = 0 THEN a ELSE G[<<g[i - 1], s[i]>>]]
      BY <3>1 DEF Steps
    <3>3. n \in Nat /\ (\A i \in 1 .. n : s[i] \in T) /\ \A i \in 0 .. n : g[i] \in X
      BY <1>1, <1>3, <3>1, StepsStay
    <3> HIDE DEF n, a
    <3>4. ASSUME NEW i \in 0 .. n, i # 0 PROVE G[<<g[i - 1], s[i]>>] = next(g, i)
      <4>1. i - 1 \in 0 .. n /\ i \in 1 .. n
        BY <3>3, <3>4
      <4>2. g[i - 1] \in X /\ s[i] \in T
        BY <3>3, <4>1
      <4> QED
        BY <1>2, <2>2, <4>2
    <3>5. [i \in 0 .. n |-> IF i = 0 THEN a ELSE G[<<g[i - 1], s[i]>>]]
          = [i \in 0 .. n |-> IF i = 0 THEN a ELSE next(g, i)]
      BY <3>4
    <3>6. Is(g)
      BY <3>2, <3>5
    <3> QED
      BY <3>6
  <2>4. Is(f)
    BY <2>3
  <2> HIDE DEF f, a
  <2>5. n \in Nat /\ \A i \in 1 .. n : s[i] \in T
    OBVIOUS
  <2> HIDE DEF n
  <2>6. \A i \in 0 .. n : f[i] = IF i = 0 THEN a ELSE next(f, i)
    BY <2>4
  <2>7. 0 \in 0 .. n /\ \A i \in 1 .. n : i \in 0 .. n /\ i # 0
    BY <2>5
  <2>8. f[0] = a
    BY <2>6, <2>7
  <2>9. \A i \in 1 .. n : f[i - 1] \in X => f[i] = G[<<f[i - 1], s[i]>>]
    BY <1>2, <2>2, <2>5, <2>6, <2>7
  <2>10. Follows(f, a, G, X, s)
    BY <2>8, <2>9 DEF Follows, n
  <2>11. f[n] = Folded(a, G, s)
    BY <1>1, <1>3, <2>10, RunIs DEF n
  <2> QED
    BY <2>1, <2>11
<1> HIDE DEF a
<1>5. /\ Folded(a, G, <<>>) = a
      /\ \A s \in Seq(T) : Folded(a, G, s) \in X
      /\ \A s \in Seq(T), e \in T : Folded(a, G, Append(s, e)) = G[<<Folded(a, G, s), e>>]
  <2>1. Folded(a, G, <<>>) = a
    BY <1>1, <1>3, RunSteps
  <2>2. \A s \in Seq(T) : Folded(a, G, s) \in X
    BY <1>1, <1>3, RunSteps
  <2>3. \A s \in Seq(T), e \in T : Folded(a, G, Append(s, e)) = G[<<Folded(a, G, s), e>>]
    BY <1>1, <1>3, RunSteps
  <2> QED
    BY <2>1, <2>2, <2>3
<1>6. <<>> \in Seq(T) /\ \A s \in Seq(T), e \in T : Append(s, e) \in Seq(T)
  OBVIOUS
<1>7. AllHandled(u, <<>>) = a
  BY <1>4, <1>5, <1>6
<1>8. \A s \in Seq(T) : AllHandled(u, s) \in X
  BY <1>4, <1>5
<1>9. ASSUME NEW s \in Seq(T), NEW e \in T
      PROVE  AllHandled(u, Append(s, e)) = AfterLine(AllHandled(u, s), e)
  BY <1>2, <1>4, <1>5, <1>6
<1> QED
  BY <1>7, <1>8, <1>9 DEF a, X, T

-----------------------------------------------------------------------------
(* What is typed is made of the symbols, and so is what is sent of it.     *)
LEMMA ValueBytesType ==
    ASSUME NEW e, NEW v \in Seq(Symbols) PROVE ValueBytes(e, v) \in Seq(Symbols)
<1>1. ClientEscape(v) \in Seq(Symbols \ Separators)
  BY WrittenType, CleanFacts
<1>2. ClientEscape(v) \in Seq(Symbols)
  BY <1>1, SeqMonotone
<1> QED
  BY <1>2 DEF ValueBytes

LEMMA ContentType == ASSUME NEW e \in TypedLines PROVE Content(e) \in Seq(Symbols)
<1>1. \A a, b \in Seq(Symbols) : a \o b \in Seq(Symbols)
  BY ConcatFacts
<1>3. /\ <<"LOGIN", "\t", "USERNAME", "=">> \in Seq(Symbols)
      /\ <<"\t", "PASSWORD", "=">> \in Seq(Symbols)
      /\ <<"CHANMSG", "\t", "TARGET", "=">> \in Seq(Symbols)
      /\ <<"PRIVMSG", "\t", "TARGET", "=">> \in Seq(Symbols)
      /\ <<"\t", "MESSAGE", "=">> \in Seq(Symbols)
  <2>1. {"LOGIN", "\t", "USERNAME", "=", "PASSWORD", "CHANMSG", "PRIVMSG", "TARGET", "MESSAGE"}
            \subseteq Symbols
    BY DEF Symbols, Words, Separators
  <2> HIDE DEF Symbols
  <2> QED
    BY <2>1
<1> DEFINE body == CASE e.kind = "login"   -> <<"LOGIN", "\t", "USERNAME", "=">> \o ValueBytes(e, Me)
                                          \o <<"\t", "PASSWORD", "=">> \o ValueBytes(e, e.password)
                     [] e.kind = "message" -> <<IF e.target \in ChannelNames THEN "CHANMSG"
                                                ELSE "PRIVMSG", "\t", "TARGET", "=">>
                                          \o ValueBytes(e, e.target)
                                          \o <<"\t", "MESSAGE", "=">> \o TextBytes(e)
                     [] e.kind = "raw"     -> e.line
<1>4. Content(e) = body
  BY DEF Content
<1>5. CASE e \in [kind : {"login"}, client : Programs, password : Seq(Symbols)]
  <2> DEFINE me == ValueBytes(e, Me)
             pw == ValueBytes(e, e.password)
  <2>1. me \in Seq(Symbols) /\ pw \in Seq(Symbols) /\ e.kind = "login"
    BY <1>5, WireAssumption, ValueBytesType
  <2> HIDE DEF body, me, pw
  <2>2. body = <<"LOGIN", "\t", "USERNAME", "=">> \o me \o <<"\t", "PASSWORD", "=">> \o pw
    BY <2>1 DEF body, me, pw
  <2>3. body \in Seq(Symbols)
    BY <1>1, <1>3, <2>1, <2>2
  <2> QED
    BY <1>4, <2>3
<1>6. CASE e \in [kind : {"message"}, client : Programs, target : Seq(Symbols),
                  text : Seq(Symbols)]
  <2>1. /\ e.target \in Seq(Symbols) /\ e.text \in Seq(Symbols) /\ e.kind = "message"
        /\ e.client \in {"miniirc", "haxcurses", "shell"}
    BY <1>6 DEF Programs
  <2>2. TextBytes(e) \in Seq(Symbols)
    <3>1. ClientEscape(e.text) \in Seq(Symbols \ Separators) /\ HaxEscape(e.text) \in Seq(Symbols)
      BY <2>1, WrittenType, CleanFacts
    <3>2. ClientEscape(e.text) \in Seq(Symbols)
      BY <3>1, SeqMonotone
    <3> QED
      BY <2>1, <3>1, <3>2 DEF TextBytes
  <2> DEFINE front == <<IF e.target \in ChannelNames THEN "CHANMSG" ELSE "PRIVMSG",
                        "\t", "TARGET", "=">>
             text == TextBytes(e)
             target == ValueBytes(e, e.target)
  <2>6. target \in Seq(Symbols)
    BY <2>1, ValueBytesType
  <2>3. front \in Seq(Symbols)
    BY <1>3
  <2> HIDE DEF front, text, target, body
  <2>4. body = front \o target \o <<"\t", "MESSAGE", "=">> \o text
    BY <2>1 DEF body, front, text, target
  <2>5. body \in Seq(Symbols)
    BY <1>1, <1>3, <2>2, <2>3, <2>4, <2>6 DEF text
  <2> QED
    BY <1>4, <2>5
<1>7. CASE e \in [kind : {"raw"}, line : Seq(Symbols)]
  <2>1. e.line \in Seq(Symbols) /\ e.kind = "raw"
    BY <1>7
  <2>2. body \in Seq(Symbols)
    BY <2>1
  <2> QED
    BY <1>4, <2>2
<1> QED
  BY <1>5, <1>6, <1>7 DEF TypedLines

LEMMA LineBytesType == ASSUME NEW e \in TypedLines PROVE LineBytes(e) \in Seq(Symbols)
<1>1. CR \in Symbols /\ LF \in Symbols
  BY DEF CR, LF, Symbols, Separators
<1>2. <<CR, LF>> \in Seq(Symbols)
  BY <1>1
<1> QED
  BY <1>2, ContentType, ConcatFacts DEF LineBytes

LEMMA BytesType ==
    ASSUME NEW s \in Seq(TypedLines)
    PROVE  Mapped(LineBytes, s) \in Seq(Symbols)
<1> DEFINE b == [i \in DOMAIN s |-> LineBytes(s[i])]
<1>1. Len(s) \in Nat /\ b \in [1 .. Len(s) -> Seq(Symbols)]
  BY LineBytesType
<1>2. Mapped(LineBytes, s) = FlattenSeq(b)
  BY DEF Mapped
<1> HIDE DEF b
<1>3. b \in Seq(Seq(Symbols)) /\ <<>> \in Seq(Seq(Symbols))
  BY <1>1, FunctionIsSeq
<1>4. FlattenSeq(b) \in Seq(Symbols)
  BY <1>3, FlattenJoin
<1> QED
  BY <1>2, <1>4

-----------------------------------------------------------------------------
(* The inductive invariant: all that was sent is what the server makes of  *)
(* lines.                                                                  *)
SentOK ==
    /\ unread \in Seq(Symbols) /\ msg \in Seq(Symbols)
    /\ user \in Users
    /\ sent \in Seq(LineAnswers)

LEMMA SentOKInit == Init => SentOK
<1> SUFFICES ASSUME Init PROVE SentOK
  OBVIOUS
<1>1. unread \in Seq(Symbols)
  <2>1. typed \in Seq(TypedLines)
    BY WireAssumption DEF Init
  <2> QED
    BY <2>1, BytesType DEF Init
<1>2. <<>> \in Seq(Symbols) /\ <<>> \in Seq(LineAnswers)
  OBVIOUS
<1> QED
  BY <1>1, <1>2 DEF Init, SentOK, Users

LEMMA SentOKNext == SentOK /\ [Next]_vars => SentOK'
<1> SUFFICES ASSUME SentOK, [Next]_vars PROVE SentOK'
  OBVIOUS
<1>1. CASE Receive
  <2>1. PICK k \in 1 .. Len(unread) :
            LET turn == ReadChunk(msg, SubSeq(unread, 1, k))
                end == AllHandled(user, turn.lines)
            IN  /\ msg' = turn.msg
                /\ unread' = SubSeq(unread, k + 1, Len(unread))
                /\ user' = end.user
                /\ sent' = sent \o end.sent
    BY <1>1 DEF Receive
  <2> DEFINE chunk == SubSeq(unread, 1, k)
             turn == ReadChunk(msg, chunk)
             end == AllHandled(user, turn.lines)
  <2>2. chunk \in Seq(Symbols) /\ unread' \in Seq(Symbols)
    BY <2>1 DEF SentOK
  <2> HIDE DEF chunk
  <2>3. turn.msg \in Seq(Symbols) /\ turn.lines \in Seq(Seq(Symbols))
    BY <2>2, ReadChunkType DEF SentOK
  <2> HIDE DEF turn
  <2>4. end \in Turns
    BY <2>3, AllHandledFacts DEF SentOK
  <2> HIDE DEF end
  <2>5. end.user \in Users /\ end.sent \in Seq(LineAnswers)
    BY <2>4 DEF Turns
  <2>6. msg' = turn.msg /\ user' = end.user /\ sent' = sent \o end.sent
    BY <2>1 DEF chunk, turn, end
  <2>7. sent' \in Seq(LineAnswers)
    BY <2>5, <2>6, ConcatFacts DEF SentOK
  <2> QED
    BY <2>2, <2>3, <2>5, <2>6, <2>7 DEF SentOK
<1>2. CASE UNCHANGED vars
  BY <1>2 DEF SentOK, vars
<1> QED
  BY <1>1, <1>2 DEF Next, AllRead

LEMMA SentOKAlways == Spec => []SentOK
<1> QED
  BY SentOKInit, SentOKNext, PTL DEF Spec

(* Every line that was sent is an answer as the server makes them.         *)
LEMMA SentLinesAre ==
    ASSUME SentOK
    PROVE  /\ \A i \in DOMAIN SentLines : Answer(SentLines[i])
<1>1. sent \in Seq(LineAnswers)
  BY DEF SentOK
<1>2. \A s \in LineAnswers : AnswersOK(s)
  BY HandledIs DEF LineAnswers
<1>3. IsSeq(sent) /\ \A i \in DOMAIN sent : AnswersOK(sent[i])
  BY <1>1, <1>2, SeqIsSeq, ElementType
<1>4. \A i \in DOMAIN sent : IsSeq(sent[i]) /\ sent[i] # <<>>
  BY <1>3 DEF AnswersOK
<1>5. \A k \in DOMAIN SentLines :
          \E i \in DOMAIN sent : \E j \in DOMAIN sent[i] : SentLines[k] = sent[i][j]
  BY <1>3, <1>4, FlattenElements DEF SentLines
<1> QED
  BY <1>3, <1>4, <1>5 DEF AnswersOK

LEMMA ValuesAre ==
    ASSUME SentOK, NEW v \in Values
    PROVE  Bad \notin ToSet(v) /\ ToSet(v) \cap Separators = {}
<1>1. PICK i \in DOMAIN SentLines : v \in Range(SentLines[i].args)
  BY DEF Values
<1>2. PICK key \in DOMAIN SentLines[i].args : v = SentLines[i].args[key]
  BY <1>1 DEF Range
<1>3. PICK x \in Seq(Clean) : v = ServerEscape(x)
  BY <1>2, SentLinesAre DEF Answer
<1>4. v \in Seq(Clean \ Separators)
  BY <1>3, WrittenType, CleanFacts
<1>5. \A j \in DOMAIN v : v[j] \in Clean \ Separators
  BY <1>4, ElementType
<1> QED
  BY <1>5, CleanFacts DEF ToSet

(* The server's buffers hold symbols, its user exists, and no value that   *)
(* it sends holds the mark of a bad escape.                                *)
THEOREM TypeCorrect == Spec => []TypeOK
<1>1. SentOK => TypeOK
  BY ValuesAre DEF TypeOK, SentOK, Users
<1> QED
  BY <1>1, SentOKAlways, PTL

(* Whatever clients send, no value that the server sends has a byte that   *)
(* would end the argument or the line.                                     *)
THEOREM NoSeparatorEverSent == Spec => []NoSeparatorSent
<1>1. SentOK => NoSeparatorSent
  BY ValuesAre DEF NoSeparatorSent
<1> QED
  BY <1>1, SentOKAlways, PTL

(* The two clients read every relayed text alike, whatever was typed: what *)
(* the server read of a text that it did not refuse, and wrote again, has  *)
(* no escape that the one replaces and the other keeps.                    *)
THEOREM ClientsAlwaysAgree == Spec => []ClientsAgree
<1>1. ASSUME SentOK PROVE ClientsAgree
  <2> SUFFICES ASSUME NEW i \in DOMAIN SentLines, NEW key \in {"TARGET", "TYPE", "MESSAGE"},
                      SentLines[i].to = "target"
               PROVE  ClientUnescape(SentLines[i].args[key]) = HaxUnescape(SentLines[i].args[key])
    BY DEF ClientsAgree
  <2>1. PICK x : ReadValue(x) /\ SentLines[i].args[key] = ServerEscape(x)
    BY <1>1, SentLinesAre DEF Answer
  <2>2. PICK w \in Seq(Clean) : ~Refused(w) /\ x = ServerUnescape(w)
    BY <2>1 DEF ReadValue
  <2>3. w \in Seq(All) /\ Closed(All)
    BY CleanFacts, SeqMonotone
  <2>4. KeepsMeaning(w)
    BY <2>2, <2>3, MeaningKept
  <2> QED
    BY <2>1, <2>2, <2>4 DEF KeepsMeaning, Meaning
<1> QED
  BY <1>1, SentOKAlways, PTL

-----------------------------------------------------------------------------
(* An empty line is answered, and changes nothing.                         *)
LEMMA BlankHandled ==
    ASSUME NEW u
    PROVE  Handled(u, <<CR>>) = [user |-> u, sent |-> BlankAnswer]
<1> DEFINE line == <<CR>>
           args == Arguments(line)
           std == Std(line)
           second(i) == \E j \in 1 .. i - 1 : IsCommand(args[j]) /\ args[j] # <<>>
           c1 == Check(second(1), "MULTIPLE_CMDS", <<>>)
           c2 == Check(TRUE, "UNKNOWN_COMMAND", <<>>)
           checks == <<c1>> \o <<c2>>
           first == FirstRaised(checks)
<1>1. WithoutCR(line) = <<>>
  <2>1. line # <<>> /\ Last(line) = CR /\ Front(line) = <<>>
    BY DEF Last, Front
  <2> QED
    BY <2>1 DEF WithoutCR
<1>2. args = << <<>> >>
  BY <1>1, SplitFacts DEF Arguments
<1>3. IsCommand(<<>>)
  BY DEF IsCommand, ToSet
<1> HIDE DEF args
<1>4. ParseChecks(line) = <<c1>>
  <2> DEFINE value(i) == Value(args[i])
             s == [i \in DOMAIN args |->
                      IF IsCommand(args[i]) THEN <<Check(second(i), "MULTIPLE_CMDS", <<>>)>>
                      ELSE <<Check(~Alphabetic(Key(args[i])), "INVALID_KEYWORD", <<>>),
                             Check(Refused(Value(args[i])), "DONT_KNOW",
                                   IF Refused(Value(args[i])) THEN <<BS, BadCharacter(Value(args[i]))>>
                                   ELSE <<>>)>>]
  <2>1. ParseChecks(line) = FlattenSeq(s)
    BY DEF ParseChecks, args
  <2>2. DOMAIN args = {1} /\ args[1] = <<>>
    BY <1>2
  <2> HIDE DEF second
  <2>3. s = [i \in {1} |-> <<c1>>]
    BY <1>3, <2>2, Zenon
  <2>4. [i \in {1} |-> <<c1>>] = << <<c1>> >>
    OBVIOUS
  <2> HIDE DEF s, c1
  <2> QED
    BY <2>1, <2>3, <2>4, FlattenSingle
<1>5. Command(line) = <<>>
  <2> DEFINE I == {i \in 1 .. Len(args) : IsCommand(args[i]) /\ args[i] # <<>>}
  <2>1. Command(line) = LET n == IF I # {} THEN Min(I) ELSE 0
                        IN  IF n = 0 THEN <<>> ELSE Upper(args[n])
    BY DEF Command, SelectInSeq, args
  <2>2. I = {}
    BY <1>2
  <2> QED
    BY <2>1, <2>2
<1>6. CommandChecks(u, <<>>, std) = <<c2>>
  <2>1. <<>> \notin Commands
    BY DEF Commands, Texts
  <2> HIDE DEF std, c2
  <2> QED
    BY <2>1 DEF CommandChecks, Commands, c2
<1>7. c1.raised = FALSE /\ c2.raised = TRUE /\ c2.error = Error("UNKNOWN_COMMAND", <<>>)
  <2>1. second(1) = FALSE
    OBVIOUS
  <2> QED
    BY <2>1 DEF Check
<1> HIDE DEF c1, c2
<1>8. ParseChecks(line) \o CommandChecks(u, <<>>, std) = checks
  BY <1>4, <1>6
<1>9. Handled(u, line) = IF first # 0
          THEN [user |-> u, sent |-> <<Complaint(checks[first].error)>>]
          ELSE [user |-> IF Command(line) = <<"LOGIN">> THEN Arg(std, "USERNAME") ELSE u,
                sent |-> Effects(u, Command(line), std)]
  BY <1>5, <1>8 DEF Handled
<1>10. Len(checks) = 2 /\ checks[1] = c1 /\ checks[2] = c2
  <2> DEFINE T == {c1, c2}
             s1 == <<c1>>
             s2 == <<c2>>
  <2>1. /\ s1 \in Seq(T) /\ Len(s1) = 1 /\ s1[1] = c1
        /\ s2 \in Seq(T) /\ Len(s2) = 1 /\ s2[1] = c2
    OBVIOUS
  <2> HIDE DEF T, s1, s2
  <2>2. IsJoin(s1 \o s2, s1, s2)
    BY <2>1, JoinFacts
  <2> QED
    BY <2>1, <2>2 DEF IsJoin, s1, s2
<1> HIDE DEF checks
<1>11. first = 2
  <2>1. /\ first \in 0 .. Len(checks)
        /\ first = 0 => \A i \in 1 .. Len(checks) : ~checks[i].raised
        /\ first # 0 => checks[first].raised
    <3>1. Len(checks) \in Nat
      BY <1>10
    <3> QED
      BY <3>1, FirstRaisedIs, Zenon
  <2> HIDE DEF first
  <2>2. first \in {0, 1, 2} /\ 2 \in 1 .. Len(checks)
    BY <1>10, <2>1
  <2>3. first # 0
    BY <1>7, <1>10, <2>1, <2>2, Zenon
  <2>4. first # 1
    BY <1>7, <1>10, <2>1, <2>3, Zenon
  <2> QED
    BY <2>2, <2>3, <2>4
<1> HIDE DEF first
<1> QED
  BY <1>7, <1>9, <1>10, <1>11 DEF BlankAnswer, line

(* Lines that come in two parts are handled like those of both together.   *)
LEMMA AllHandledJoin ==
    ASSUME NEW u \in Users, NEW s \in Seq(Seq(Symbols)), NEW t \in Seq(Seq(Symbols))
    PROVE  LET a == AllHandled(u, s)
               b == AllHandled(a.user, t)
           IN  /\ AllHandled(u, s \o t).user = b.user
               /\ AllHandled(u, s \o t).sent = a.sent \o b.sent
<1> DEFINE T == Seq(Symbols)
           had == AllHandled(u, s)
           then(z) == AllHandled(had.user, z)
           all(z) == AllHandled(u, s \o z)
           S == {z \in Seq(T) : all(z).user = then(z).user /\ all(z).sent = had.sent \o then(z).sent}
<1>1. had \in Turns
  BY AllHandledFacts
<1>2. had.user \in Users /\ had.sent \in Seq(LineAnswers)
  BY <1>1 DEF Turns
<1> HIDE DEF T
<1>3. \A z \in Seq(T) : s \o z \in Seq(T)
  BY ConcatFacts DEF T
<1>4. \A z \in Seq(T) : then(z) \in Turns /\ all(z) \in Turns
  BY <1>2, <1>3, AllHandledFacts DEF T
<1>5. <<>> \in S
  <2>1. <<>> \in Seq(T) /\ s \o <<>> = s
    BY DEF T
  <2>2. then(<<>>).user = had.user /\ then(<<>>).sent = <<>>
    <3>1. then(<<>>) = [user |-> had.user, sent |-> <<>>]
      BY <1>2, AllHandledFacts
    <3> QED
      BY <3>1
  <2>3. had.sent \o <<>> = had.sent
    BY <1>2
  <2>4. all(<<>>) = had
    BY <2>1
  <2> HIDE DEF had, then, all
  <2>5. all(<<>>).user = then(<<>>).user /\ all(<<>>).sent = had.sent \o then(<<>>).sent
    BY <2>2, <2>3, <2>4, Zenon
  <2> QED
    BY <2>1, <2>5
<1>6. ASSUME NEW z \in Seq(T), NEW e \in T, z \in S PROVE Append(z, e) \in S
  <2>1. s \o Append(z, e) = Append(s \o z, e) /\ Append(z, e) \in Seq(T)
    BY ConcatFacts DEF T
  <2>2. then(Append(z, e)) = AfterLine(then(z), e)
    BY <1>2, <1>6, AllHandledFacts DEF T
  <2>3. all(Append(z, e)) = AfterLine(all(z), e)
    <3>1. \A x \in Seq(T) : AllHandled(u, Append(x, e)) = AfterLine(AllHandled(u, x), e)
      BY <1>6, AllHandledFacts DEF T
    <3>2. s \o z \in Seq(T)
      BY <1>3, <1>6
    <3> QED
      BY <2>1, <3>1, <3>2
  <2> DEFINE h == Handled(then(z).user, e)
  <2>4. all(z).user = then(z).user /\ all(z).sent = had.sent \o then(z).sent
    BY <1>6
  <2>5. h.user \in Users /\ h.sent \in LineAnswers /\ then(z).sent \in Seq(LineAnswers)
    <3>1. then(z).user \in Users /\ then(z).sent \in Seq(LineAnswers)
      BY <1>4, <1>6 DEF Turns
    <3> HIDE DEF then
    <3> QED
      BY <1>6, <3>1, HandledIs DEF LineAnswers, T
  <2> HIDE DEF had, then, all
  <2>6. then(Append(z, e)).user = h.user /\ then(Append(z, e)).sent = Append(then(z).sent, h.sent)
    BY <2>2 DEF AfterLine
  <2>7. all(Append(z, e)).user = h.user /\ all(Append(z, e)).sent = Append(all(z).sent, h.sent)
    <3>1. Handled(all(z).user, e) = h
      BY <2>4
    <3> HIDE DEF h
    <3> QED
      BY <2>3, <3>1 DEF AfterLine
  <2> HIDE DEF h
  <2>8. Append(had.sent \o then(z).sent, h.sent) = had.sent \o Append(then(z).sent, h.sent)
    <3> DEFINE s1 == had.sent
               s2 == then(z).sent
               s3 == h.sent
    <3>1. s1 \in Seq(LineAnswers) /\ s2 \in Seq(LineAnswers) /\ s3 \in LineAnswers
      BY <1>2, <2>5
    <3> HIDE DEF s1, s2, s3
    <3>2. s1 \o Append(s2, s3) = Append(s1 \o s2, s3)
      BY <3>1, ConcatFacts
    <3> QED
      BY <3>2, Zenon DEF s1, s2, s3
  <2> QED
    BY <2>1, <2>4, <2>6, <2>7, <2>8
<1> HIDE DEF S
<1>7. Seq(T) \subseteq S
  BY <1>5, <1>6, AppendInduction
<1> QED
  BY <1>7 DEF S, T

-----------------------------------------------------------------------------
(* The answers but those to empty lines.                                   *)
Answering == [a \in LineAnswers |-> IF a = BlankAnswer THEN <<>> ELSE <<a>>]

LEMMA AnsweredIs ==
    /\ Maps(Answering, LineAnswers, LineAnswers)
    /\ \A s \in Seq(LineAnswers) : Answered(s) = FlatMap(Answering, s)
<1>1. Maps(Answering, LineAnswers, LineAnswers)
  <2>1. \A a \in LineAnswers : <<a>> \in Seq(LineAnswers) /\ <<>> \in Seq(LineAnswers)
    OBVIOUS
  <2> QED
    BY <2>1 DEF Answering, Maps
<1>2. ASSUME NEW s \in Seq(LineAnswers) PROVE Answered(s) = FlatMap(Answering, s)
  <2>1. \A i \in DOMAIN s :
            Answering[s[i]] = IF s[i] = BlankAnswer THEN <<>> ELSE <<s[i]>>
    BY ElementType DEF Answering
  <2>2. [i \in DOMAIN s |-> IF s[i] = BlankAnswer THEN <<>> ELSE <<s[i]>>]
        = [i \in DOMAIN s |-> Answering[s[i]]]
    BY <2>1, Zenon
  <2> QED
    BY <2>2, Zenon DEF Answered, FlatMap
<1> QED
  BY <1>1, <1>2

LEMMA AnsweredAppend ==
    ASSUME NEW z \in Seq(LineAnswers), NEW x \in LineAnswers
    PROVE  Answered(Append(z, x)) = Answered(z) \o Answering[x]
<1>1. Append(z, x) = z \o <<x>> /\ <<x>> \in Seq(LineAnswers) /\ Append(z, x) \in Seq(LineAnswers)
  OBVIOUS
<1>2. FlatMap(Answering, <<x>>) = Answering[x]
  BY FlatMapSingle
<1> DEFINE w == <<x>>
<1>3. FlatMap(Answering, z \o w) = FlatMap(Answering, z) \o FlatMap(Answering, w)
  <2>1. \A p, q \in Seq(LineAnswers) :
            /\ FlatMap(Answering, p \o q) = FlatMap(Answering, p) \o FlatMap(Answering, q)
            /\ FlatMap(Answering, p) \in Seq(LineAnswers)
    BY AnsweredIs, FlatMapJoin
  <2> QED
    BY <1>1, <2>1
<1> HIDE DEF w
<1>4. Answered(Append(z, x)) = FlatMap(Answering, z \o w)
  BY <1>1, AnsweredIs DEF w
<1> QED
  BY <1>2, <1>3, <1>4, AnsweredIs DEF w

(* Lines as they are on the wire, without their LF.                        *)
WithCR(lines) == [i \in DOMAIN lines |-> lines[i] \o <<CR>>]

LEMMA LineWithCR == ASSUME NEW line \in Seq(Symbols) PROVE line \o <<CR>> \in Seq(Symbols)
<1>1. CR \in Symbols
  BY DEF CR, Symbols, Separators
<1>2. <<CR>> \in Seq(Symbols)
  BY <1>1
<1> QED
  BY <1>2, ConcatFacts

LEMMA WithCRIs ==
    ASSUME NEW s \in Seq(Seq(Symbols))
    PROVE  /\ WithCR(s) \in Seq(Seq(Symbols)) /\ Len(WithCR(s)) = Len(s)
           /\ \A i \in 1 .. Len(s) : WithCR(s)[i] = s[i] \o <<CR>>
           /\ Len(s) \in Nat
<1>1. Len(s) \in Nat /\ DOMAIN s = 1 .. Len(s)
  OBVIOUS
<1>2. \A i \in DOMAIN s : s[i] \o <<CR>> \in Seq(Symbols)
  <2> TAKE i \in DOMAIN s
  <2>1. s[i] \in Seq(Symbols)
    BY ElementType
  <2> QED
    BY <2>1, LineWithCR
<1> DEFINE v == WithCR(s)
<1>3. v \in [1 .. Len(s) -> Seq(Symbols)] /\ \A i \in 1 .. Len(s) : v[i] = s[i] \o <<CR>>
  BY <1>1, <1>2 DEF WithCR
<1> HIDE DEF v
<1>4. v \in Seq(Seq(Symbols)) /\ Len(v) = Len(s)
  BY <1>1, <1>3, FunctionIsSeq
<1> QED
  BY <1>1, <1>3, <1>4 DEF v

LEMMA SameSeq ==
    ASSUME NEW T, NEW s \in Seq(T), NEW t \in Seq(T), Len(s) = Len(t),
           \A i \in 1 .. Len(s) : s[i] = t[i]
    PROVE  s = t
  OBVIOUS

LEMMA WithCRJoin ==
    ASSUME NEW s \in Seq(Seq(Symbols)), NEW t \in Seq(Seq(Symbols))
    PROVE  WithCR(s \o t) = WithCR(s) \o WithCR(t)
<1> DEFINE T == Seq(Symbols)
           v == WithCR(s)
           w == WithCR(t)
           st == s \o t
           l == WithCR(st)
           r == v \o w
<1> HIDE DEF T
<1>1. st \in Seq(T) /\ IsJoin(st, s, t) /\ Len(s) \in Nat /\ Len(t) \in Nat
  BY JoinFacts DEF T
<1> HIDE DEF st
<1>2. /\ v \in Seq(T) /\ Len(v) = Len(s) /\ \A i \in 1 .. Len(s) : v[i] = s[i] \o <<CR>>
      /\ w \in Seq(T) /\ Len(w) = Len(t) /\ \A i \in 1 .. Len(t) : w[i] = t[i] \o <<CR>>
      /\ l \in Seq(T) /\ Len(l) = Len(st) /\ \A i \in 1 .. Len(st) : l[i] = st[i] \o <<CR>>
  BY <1>1, WithCRIs DEF T
<1> HIDE DEF v, w, l
<1>3. r \in Seq(T) /\ IsJoin(r, v, w)
  BY <1>2, JoinFacts
<1> HIDE DEF r
<1>4. Len(r) = Len(s) + Len(t) /\ Len(l) = Len(s) + Len(t)
  BY <1>1, <1>2, <1>3 DEF IsJoin
<1>5. ASSUME NEW i \in 1 .. Len(l) PROVE l[i] = r[i]
  <2>1. CASE i <= Len(s)
    <3>1. i \in 1 .. Len(s) /\ i \in 1 .. Len(st)
      BY <1>1, <1>2, <2>1
    <3>2. l[i] = st[i] \o <<CR>> /\ v[i] = s[i] \o <<CR>>
      BY <1>2, <3>1
    <3>3. st[i] = s[i] /\ r[i] = v[i]
      BY <1>1, <1>2, <1>3, <3>1 DEF IsJoin
    <3> QED
      BY <3>2, <3>3
  <2>2. CASE i > Len(s)
    <3> DEFINE j == i - Len(s)
    <3>1. j \in 1 .. Len(t) /\ i \in 1 .. Len(st) /\ Len(s) + j = i
      BY <1>1, <1>2, <1>4, <2>2
    <3> HIDE DEF j
    <3>2. l[i] = st[i] \o <<CR>> /\ w[j] = t[j] \o <<CR>>
      BY <1>2, <3>1
    <3>3. st[i] = t[j] /\ r[i] = w[j]
      <4>1. st[Len(s) + j] = t[j]
        BY <1>1, <3>1 DEF IsJoin
      <4>2. r[Len(v) + j] = w[j]
        BY <1>2, <1>3, <3>1 DEF IsJoin
      <4> QED
        BY <1>2, <3>1, <4>1, <4>2
    <3> QED
      BY <3>2, <3>3
  <2> QED
    BY <1>1, <1>4, <2>1, <2>2
<1>6. l = r
  BY <1>2, <1>3, <1>4, <1>5, SameSeq
<1> QED
  BY <1>6 DEF l, r, v, w, st

(* Empty lines are answered and change nothing, so the others are answered *)
(* as if they were not there.                                              *)
Keep == [line \in Seq(Symbols) |-> IF line = <<>> THEN <<>> ELSE <<line>>]
Kept(lines) == FlatMap(Keep, lines)

LEMMA KeptIs ==
    /\ Maps(Keep, Seq(Symbols), Seq(Symbols))
    /\ Kept(<<>>) = <<>>
    /\ \A p, q \in Seq(Seq(Symbols)) :
           Kept(p) \in Seq(Seq(Symbols)) /\ Kept(p \o q) = Kept(p) \o Kept(q)
    /\ \A line \in Seq(Symbols) : Kept(<<line>>) = Keep[line]
<1> DEFINE T == Seq(Symbols)
<1>1. Maps(Keep, T, T)
  <2>1. \A x \in T : <<x>> \in Seq(T) /\ <<>> \in Seq(T)
    OBVIOUS
  <2> QED
    BY <2>1 DEF Keep, Maps
<1> HIDE DEF T
<1>2. \A p, q \in Seq(T) : Kept(p) \in Seq(T) /\ Kept(p \o q) = Kept(p) \o Kept(q)
  <2>1. \A p, q \in Seq(T) : /\ FlatMap(Keep, p \o q) = FlatMap(Keep, p) \o FlatMap(Keep, q)
                              /\ FlatMap(Keep, p) \in Seq(T)
    BY <1>1, FlatMapJoin
  <2> QED
    BY <2>1 DEF Kept
<1>3. \A line \in T : Kept(<<line>>) = Keep[line]
  BY FlatMapSingle DEF Kept
<1>4. Kept(<<>>) = <<>>
  BY FlatMapEmpty DEF Kept
<1> QED
  BY <1>1, <1>2, <1>3, <1>4 DEF T

(* One line more: on the wire, kept, and handled.                          *)
LEMMA OneMoreLine ==
    ASSUME NEW z \in Seq(Seq(Symbols)), NEW line \in Seq(Symbols)
    PROVE  /\ WithCR(Append(z, line)) = Append(WithCR(z), line \o <<CR>>)
           /\ Kept(Append(z, line)) = IF line = <<>> THEN Kept(z) ELSE Append(Kept(z), line)
           /\ WithCR(z) \in Seq(Seq(Symbols)) /\ Kept(z) \in Seq(Seq(Symbols))
           /\ line \o <<CR>> \in Seq(Symbols)
<1> DEFINE T == Seq(Symbols)
           l == <<line>>
           lc == <<line \o <<CR>> >>
<1>1. l \in Seq(T) /\ Append(z, line) = z \o l
  OBVIOUS
<1>2. WithCR(l) = lc /\ line \o <<CR>> \in T /\ lc \in Seq(T)
  <2>1. Len(l) = 1 /\ l[1] = line
    OBVIOUS
  <2> HIDE DEF l
  <2>2. WithCR(l) \in Seq(T) /\ Len(WithCR(l)) = 1 /\ WithCR(l)[1] = line \o <<CR>>
    BY <1>1, <2>1, WithCRIs
  <2> DEFINE w == WithCR(l)
             lcr == line \o <<CR>>
  <2> HIDE DEF w, lcr, T
  <2>3. lcr \in T
    BY LineWithCR DEF lcr, T
  <2>4. <<lcr>> \in Seq(T) /\ Len(<<lcr>>) = 1 /\ <<lcr>>[1] = lcr
    BY <2>3
  <2>5. w \in Seq(T) /\ Len(w) = 1 /\ w[1] = lcr
    BY <2>2 DEF w, lcr
  <2>6. w = <<lcr>>
    BY <2>4, <2>5, SameSeq
  <2> QED
    BY <2>3, <2>4, <2>6 DEF w, lcr
<1>3. WithCR(z) \in Seq(T) /\ Kept(z) \in Seq(T)
  BY WithCRIs, KeptIs
<1>4. WithCR(z \o l) = WithCR(z) \o lc
  BY <1>1, <1>2, WithCRJoin
<1>5. Kept(z \o l) = Kept(z) \o Keep[line]
  BY <1>1, KeptIs
<1>6. WithCR(z) \o lc = Append(WithCR(z), line \o <<CR>>)
  BY <1>2, <1>3
<1>7. Kept(z) \o Keep[line] = IF line = <<>> THEN Kept(z) ELSE Append(Kept(z), line)
  <2>1. Keep[line] = IF line = <<>> THEN <<>> ELSE <<line>>
    BY DEF Keep
  <2> DEFINE k == Kept(z)
  <2>2. k \in Seq(T)
    BY <1>3
  <2> HIDE DEF k
  <2>3. k \o <<>> = k /\ k \o <<line>> = Append(k, line)
    BY <2>2
  <2> QED
    BY <2>1, <2>3 DEF k
<1> QED
  BY <1>1, <1>2, <1>3, <1>4, <1>5, <1>6, <1>7, Zenon

LEMMA EmptyLinesChangeNothing ==
    ASSUME NEW u \in Users, NEW s \in Seq(Seq(Symbols))
    PROVE  LET a == AllHandled(u, WithCR(s))
               b == AllHandled(u, WithCR(Kept(s)))
           IN  a.user = b.user /\ Answered(a.sent) = Answered(b.sent)
<1> DEFINE L == Seq(Symbols)
           all(z) == AllHandled(u, WithCR(z))
           some(z) == AllHandled(u, WithCR(Kept(z)))
           S == {z \in Seq(L) : /\ all(z).user = some(z).user
                                /\ Answered(all(z).sent) = Answered(some(z).sent)}
<1> HIDE DEF L
<1>1. <<>> \in S
  <2>1. <<>> \in Seq(L) /\ Kept(<<>>) = <<>>
    BY KeptIs
  <2> QED
    BY <2>1
<1>2. ASSUME NEW z \in Seq(L), NEW line \in L, z \in S PROVE Append(z, line) \in S
  <2>0. Append(z, line) \in Seq(L)
    OBVIOUS
  <2> DEFINE wire == line \o <<CR>>
             h == Handled(all(z).user, wire)
  <2>1. /\ WithCR(Append(z, line)) = Append(WithCR(z), wire)
        /\ Kept(Append(z, line)) = IF line = <<>> THEN Kept(z) ELSE Append(Kept(z), line)
        /\ WithCR(z) \in Seq(L) /\ Kept(z) \in Seq(L) /\ wire \in L
    BY <1>2, OneMoreLine DEF L
  <2>2. WithCR(Append(Kept(z), line)) = Append(WithCR(Kept(z)), wire) /\ WithCR(Kept(z)) \in Seq(L)
    BY <2>1, OneMoreLine DEF L
  <2>3. all(z) \in Turns /\ some(z) \in Turns
    BY <2>1, <2>2, AllHandledFacts DEF L
  <2>4. /\ all(z).user \in Users /\ all(z).sent \in Seq(LineAnswers)
        /\ some(z).user \in Users /\ some(z).sent \in Seq(LineAnswers)
    BY <2>3 DEF Turns
  <2>5. all(z).user = some(z).user /\ Answered(all(z).sent) = Answered(some(z).sent)
    BY <1>2
  <2>6. h.sent \in LineAnswers
    <3> DEFINE v == all(z).user
    <3>1. v \in Users
      BY <2>4
    <3> HIDE DEF v, wire
    <3>2. Handled(v, wire).sent \in LineAnswers
      BY <2>1, <3>1 DEF LineAnswers, L
    <3> QED
      BY <3>2 DEF v
  <2>7. all(Append(z, line)) = AfterLine(all(z), wire)
    BY <2>1, AllHandledFacts DEF L
  <2>8. line # <<>> => some(Append(z, line)) = AfterLine(some(z), wire)
    <3>1. \A ls \in Seq(L) : AllHandled(u, Append(ls, wire)) = AfterLine(AllHandled(u, ls), wire)
      BY <2>1, AllHandledFacts DEF L
    <3> HIDE DEF wire
    <3>2. AllHandled(u, Append(WithCR(Kept(z)), wire)) = AfterLine(some(z), wire)
      BY <2>2, <3>1
    <3> QED
      BY <2>1, <2>2, <3>2
  <2>9. line = <<>> => some(Append(z, line)) = some(z) /\ h = [user |-> all(z).user, sent |-> BlankAnswer]
    <3> SUFFICES ASSUME line = <<>>
                 PROVE  some(Append(z, line)) = some(z) /\ h = [user |-> all(z).user, sent |-> BlankAnswer]
      OBVIOUS
    <3>1. wire = <<CR>>
      OBVIOUS
    <3>2. h = [user |-> all(z).user, sent |-> BlankAnswer]
      BY <3>1, BlankHandled, Zenon
    <3>3. Kept(Append(z, line)) = Kept(z)
      BY <2>1
    <3> QED
      BY <3>2, <3>3, Zenon
  <2> DEFINE az == all(z)
             sz == some(z)
             an == all(Append(z, line))
             sn == some(Append(z, line))
  <2>10. Handled(sz.user, wire) = h
    BY <2>5
  <2> HIDE DEF all, some, wire, h
  <2>11. an.user = h.user /\ an.sent = Append(az.sent, h.sent)
    BY <2>7 DEF AfterLine, h
  <2>12. line # <<>> => sn.user = h.user /\ sn.sent = Append(sz.sent, h.sent)
    BY <2>8, <2>10 DEF AfterLine
  <2>13. Answered(an.sent) = Answered(az.sent) \o Answering[h.sent]
    BY <2>4, <2>6, <2>11, AnsweredAppend
  <2>14. an.user = sn.user /\ Answered(an.sent) = Answered(sn.sent)
    <3>1. CASE line # <<>>
      <4>1. Answered(sn.sent) = Answered(sz.sent) \o Answering[h.sent]
        BY <2>4, <2>6, <2>12, <3>1, AnsweredAppend
      <4> QED
        BY <2>5, <2>11, <2>12, <2>13, <3>1, <4>1, Zenon
    <3>2. CASE line = <<>>
      <4>1. sn = sz /\ h.user = az.user /\ h.sent = BlankAnswer
        BY <2>9, <3>2
      <4>2. Answering[h.sent] = <<>>
        BY <2>6, <4>1 DEF Answering
      <4>3. Answered(az.sent) \o <<>> = Answered(az.sent)
        <5>1. Answered(az.sent) \in Seq(LineAnswers)
          BY <2>4, AnsweredIs, FlatMapType
        <5> QED
          BY <5>1
      <4> QED
        BY <2>5, <2>11, <2>13, <4>1, <4>2, <4>3, Zenon
    <3> QED
      BY <3>1, <3>2
  <2> QED
    BY <2>0, <2>14 DEF S
<1> HIDE DEF S
<1>3. Seq(L) \subseteq S
  BY <1>1, <1>2, AppendInduction
<1> QED
  BY <1>3 DEF S, L

-----------------------------------------------------------------------------
(* Joined sequences taken apart again.                                     *)
LEMMA SameJoin ==
    ASSUME NEW T, NEW p1 \in Seq(T), NEW q1 \in Seq(T), NEW p2 \in Seq(T), NEW q2 \in Seq(T),
           NEW w, IsJoin(w, p1, q1), IsJoin(w, p2, q2), Len(p1) = Len(p2)
    PROVE  p1 = p2 /\ q1 = q2
<1>1. Len(p1) \in Nat /\ Len(q1) \in Nat /\ Len(p2) \in Nat /\ Len(q2) \in Nat
  OBVIOUS
<1>2. Len(q1) = Len(q2)
  BY <1>1 DEF IsJoin
<1>3. \A i \in 1 .. Len(p1) : p1[i] = p2[i]
  BY DEF IsJoin
<1>4. \A i \in 1 .. Len(q1) : q1[i] = q2[i]
  BY <1>2 DEF IsJoin
<1> QED
  BY <1>2, <1>3, <1>4, SameSeq

LEMMA ReJoin ==
    ASSUME NEW T, NEW p1 \in Seq(T), NEW q1 \in Seq(T), NEW p2 \in Seq(T), NEW x \in Seq(T),
           NEW y \in Seq(T), NEW w, IsJoin(w, p1, q1), IsJoin(p1, p2, x), IsJoin(y, x, q1)
    PROVE  IsJoin(w, p2, y)
<1>1. /\ Len(p1) \in Nat /\ Len(q1) \in Nat /\ Len(p2) \in Nat /\ Len(x) \in Nat
      /\ Len(p1) = Len(p2) + Len(x) /\ Len(y) = Len(x) + Len(q1) /\ Len(w) = Len(p1) + Len(q1)
  BY DEF IsJoin
<1>2. Len(w) = Len(p2) + Len(y)
  BY <1>1
<1>3. ASSUME NEW i \in 1 .. Len(p2) PROVE w[i] = p2[i]
  <2>1. i \in 1 .. Len(p1)
    BY <1>1
  <2> QED
    BY <2>1 DEF IsJoin
<1>4. ASSUME NEW i \in 1 .. Len(y) PROVE w[Len(p2) + i] = y[i]
  <2>1. CASE i <= Len(x)
    <3>1. i \in 1 .. Len(x) /\ Len(p2) + i \in 1 .. Len(p1)
      BY <1>1, <2>1
    <3>2. w[Len(p2) + i] = p1[Len(p2) + i] /\ p1[Len(p2) + i] = x[i] /\ y[i] = x[i]
      BY <3>1 DEF IsJoin
    <3> QED
      BY <3>2
  <2>2. CASE i > Len(x)
    <3> DEFINE j == i - Len(x)
    <3>1. j \in 1 .. Len(q1) /\ Len(x) + j = i /\ Len(p1) + j = Len(p2) + i
      BY <1>1, <2>2
    <3> HIDE DEF j
    <3>2. w[Len(p1) + j] = q1[j] /\ y[Len(x) + j] = q1[j]
      BY <3>1 DEF IsJoin
    <3> QED
      BY <3>1, <3>2
  <2> QED
    BY <1>1, <2>1, <2>2
<1> QED
  BY <1>2, <1>3, <1>4 DEF IsJoin

LEMMA Joined ==
    ASSUME NEW T
    PROVE  /\ \A s \in Seq(T), t \in Seq(T) : s \o t \in Seq(T) /\ IsJoin(s \o t, s, t)
           /\ \A s \in Seq(T) : Len(s) \in Nat /\ IsSeq(s)
           /\ \A s \in Seq(T), n \in Nat : SubSeq(s, 1, n) \in Seq(T) \/ n > Len(s)
<1>1. \A s \in Seq(T), t \in Seq(T) : s \o t \in Seq(T) /\ IsJoin(s \o t, s, t)
  BY JoinFacts
<1>2. \A s \in Seq(T) : Len(s) \in Nat /\ IsSeq(s)
  BY SeqIsSeq
<1>3. \A s \in Seq(T), n \in Nat : SubSeq(s, 1, n) \in Seq(T) \/ n > Len(s)
  OBVIOUS
<1> QED
  BY <1>1, <1>2, <1>3

LEMMA Cancel ==
    ASSUME NEW T, NEW p1 \in Seq(T), NEW q1 \in Seq(T), NEW q2 \in Seq(T), p1 \o q1 = p1 \o q2
    PROVE  q1 = q2
<1> DEFINE w == p1 \o q1
<1>1. IsJoin(w, p1, q1)
  BY Joined, Zenon
<1>2. IsJoin(p1 \o q2, p1, q2)
  BY Joined, Zenon
<1>3. IsJoin(w, p1, q2)
  BY <1>2, Zenon
<1> QED
  BY <1>1, <1>3, SameJoin, Zenon

(* Of two equal joins the longer front begins with the shorter one, and    *)
(* what it has more begins the rest.                                       *)
FrontTaken(T, p1, q1, p2, q2) == \E x \in Seq(T) : p1 = p2 \o x /\ x \o q1 = q2

LEMMA TakeOff ==
    ASSUME NEW T, NEW p1 \in Seq(T), NEW q1 \in Seq(T), NEW p2 \in Seq(T), NEW q2 \in Seq(T),
           NEW w, IsJoin(w, p1, q1), IsJoin(w, p2, q2), Len(p2) <= Len(p1)
    PROVE  FrontTaken(T, p1, q1, p2, q2)
<1> DEFINE n == Len(p2)
           front == SubSeq(p1, 1, n)
           rest == SubSeq(p1, n + 1, Len(p1))
<1>1. IsSeq(p1) /\ n \in 0 .. Len(p1)
  <2>1. Len(p1) \in Nat /\ n \in Nat
    OBVIOUS
  <2> QED
    BY <2>1, SeqIsSeq
<1>2. front \in Seq(T) /\ rest \in Seq(T)
  BY <1>1
<1>3. Len(front) = n /\ front \o rest = p1
  BY <1>1, CutAt
<1> HIDE DEF front, rest
<1> DEFINE both == rest \o q1
<1>4. IsJoin(front \o rest, front, rest) /\ rest \o q1 \in Seq(T) /\ IsJoin(rest \o q1, rest, q1)
  BY <1>2, Joined, Zenon
<1>5. IsJoin(p1, front, rest)
  BY <1>3, <1>4, Zenon
<1>6. both \in Seq(T) /\ IsJoin(both, rest, q1)
  BY <1>4
<1> HIDE DEF both, n
<1>7. IsJoin(w, front, both)
  BY <1>2, <1>5, <1>6, ReJoin
<1>8. front = p2 /\ both = q2
  BY <1>2, <1>3, <1>6, <1>7, SameJoin DEF n
<1> QED
  BY <1>2, <1>3, <1>8, Zenon DEF both, FrontTaken

-----------------------------------------------------------------------------
(* What Split makes of p1 text without the separator, and of two texts with *)
(* one in between.                                                         *)
LEMMA SplitNone ==
    ASSUME NEW T, NEW sep, sep \notin T, NEW w \in Seq(T)
    PROVE  Split(w, sep) = <<w>>
<1> DEFINE S == {z \in Seq(T) : Split(z, sep) = <<z>>}
<1>1. <<>> \in S
  BY SplitFacts
<1>2. ASSUME NEW z \in Seq(T), NEW e \in T, z \in S PROVE Append(z, e) \in S
  <2>1. Split(Append(z, e), sep) = OneMore(<<z>>, e, sep)
    <3>1. Split(Append(z, e), sep) = OneMore(Split(z, sep), e, sep)
      BY SplitFacts
    <3> QED
      BY <1>2, <3>1
  <2>2. e # sep
    OBVIOUS
  <2>3. OneMore(<<z>>, e, sep) = [<<z>> EXCEPT ![1] = Append(@, e)]
    BY <2>2 DEF OneMore
  <2>4. [<<z>> EXCEPT ![1] = Append(@, e)] = <<Append(z, e)>>
    OBVIOUS
  <2>5. Append(z, e) \in Seq(T)
    OBVIOUS
  <2> QED
    BY <2>1, <2>3, <2>4, <2>5
<1> HIDE DEF S
<1>3. Seq(T) \subseteq S
  BY <1>1, <1>2, AppendInduction
<1> QED
  BY <1>3 DEF S

LEMMA OneMoreJoin ==
    ASSUME NEW T, NEW ps \in PieceLists(T), NEW qs \in PieceLists(T), NEW e \in T, NEW sep
    PROVE  ps \o qs \in PieceLists(T) /\ OneMore(ps \o qs, e, sep) = ps \o OneMore(qs, e, sep)
<1> DEFINE T2 == Seq(T)
           pq == ps \o qs
           m == Len(ps)
           n == Len(qs)
<1>1. ps \in Seq(T2) /\ qs \in Seq(T2) /\ m \in Nat \ {0} /\ n \in Nat \ {0}
  BY DEF PieceLists
<1> HIDE DEF T2
<1>2. pq \in Seq(T2) /\ IsJoin(pq, ps, qs)
  BY <1>1, JoinFacts
<1> HIDE DEF pq
<1>3. Len(pq) = m + n /\ pq # <<>> /\ DOMAIN pq = 1 .. m + n
  BY <1>1, <1>2 DEF IsJoin
<1>4. ASSUME e = sep PROVE OneMore(pq, e, sep) = ps \o OneMore(qs, e, sep)
  <2>1. OneMore(pq, e, sep) = Append(pq, <<>>) /\ OneMore(qs, e, sep) = Append(qs, <<>>)
    BY <1>4 DEF OneMore
  <2>2. <<>> \in T2
    BY DEF T2
  <2>3. ps \o Append(qs, <<>>) = Append(pq, <<>>)
    BY <1>1, <2>2, ConcatFacts DEF pq
  <2> QED
    BY <2>1, <2>3
<1>5. ASSUME e # sep PROVE OneMore(pq, e, sep) = ps \o OneMore(qs, e, sep)
  <2> DEFINE q2 == OneMore(qs, e, sep)
             left == OneMore(pq, e, sep)
             right == ps \o q2
  <2>1. q2 = [qs EXCEPT ![n] = Append(@, e)] /\ left = [pq EXCEPT ![m + n] = Append(@, e)]
    BY <1>3, <1>5 DEF OneMore
  <2>2. q2 \in Seq(T2) /\ left \in Seq(T2)
    <3>1. pq \in PieceLists(T)
      BY <1>2, <1>3 DEF PieceLists, T2
    <3> HIDE DEF q2, left
    <3>2. q2 \in PieceLists(T) /\ left \in PieceLists(T)
      BY <3>1, OneMoreType DEF q2, left
    <3> QED
      BY <3>2 DEF PieceLists, T2
  <2> HIDE DEF q2, left
  <2>3. DOMAIN qs = 1 .. n
    BY <1>1
  <2>4. Len(q2) = n /\ Len(left) = m + n
    <3>1. DOMAIN q2 = 1 .. n /\ DOMAIN left = 1 .. m + n
      BY <1>3, <2>1, <2>3
    <3> QED
      BY <1>1, <2>2, <3>1
  <2>5. /\ \A i \in 1 .. n : q2[i] = IF i = n THEN Append(qs[i], e) ELSE qs[i]
        /\ \A i \in 1 .. m + n : left[i] = IF i = m + n THEN Append(pq[i], e) ELSE pq[i]
    BY <1>3, <2>1, <2>3
  <2>6. right \in Seq(T2) /\ IsJoin(right, ps, q2)
    BY <1>1, <2>2, JoinFacts
  <2> HIDE DEF right
  <2>7. Len(right) = m + n
    BY <2>4, <2>6 DEF IsJoin
  <2>8. ASSUME NEW i \in 1 .. m + n PROVE left[i] = right[i]
    <3>1. CASE i <= m
      <4>1. i \in 1 .. m /\ i # m + n
        BY <1>1, <3>1
      <4>2. left[i] = pq[i] /\ right[i] = ps[i] /\ pq[i] = ps[i]
        BY <1>2, <2>5, <2>6, <4>1 DEF IsJoin
      <4> QED
        BY <4>2
    <3>2. CASE i > m
      <4> DEFINE j == i - m
      <4>1. j \in 1 .. n /\ m + j = i /\ (i = m + n <=> j = n)
        BY <1>1, <3>2
      <4> HIDE DEF j
      <4>2. pq[m + j] = qs[j]
        BY <1>2, <4>1 DEF IsJoin
      <4>3. right[m + j] = q2[j]
        BY <2>4, <2>6, <4>1 DEF IsJoin
      <4> QED
        BY <2>5, <4>1, <4>2, <4>3
    <3> QED
      BY <1>1, <3>1, <3>2
  <2>9. left = right
    BY <2>2, <2>4, <2>6, <2>7, <2>8, SameSeq
  <2> QED
    BY <2>9 DEF left, right, q2
<1>6. pq \in PieceLists(T)
  BY <1>2, <1>3 DEF PieceLists, T2
<1> QED
  BY <1>4, <1>5, <1>6 DEF pq

LEMMA SplitJoin ==
    ASSUME NEW T, NEW sep \in T, NEW v \in Seq(T), NEW w \in Seq(T)
    PROVE  Split(Append(v, sep) \o w, sep) = Split(v, sep) \o Split(w, sep)
<1> DEFINE as == Append(v, sep)
           sp(z) == Split(z, sep)
           S == {z \in Seq(T) : sp(as \o z) = sp(v) \o sp(z)}
<1>1. as \in Seq(T) /\ sp(as) = Append(sp(v), <<>>)
  <2>1. Split(as, sep) = OneMore(Split(v, sep), sep, sep)
    BY SplitFacts
  <2>2. OneMore(Split(v, sep), sep, sep) = Append(Split(v, sep), <<>>)
    BY Zenon DEF OneMore
  <2> QED
    BY <2>1, <2>2
<1>2. \A z \in Seq(T) : sp(z) \in PieceLists(T)
  BY SplitFacts
<1> HIDE DEF as
<1>3. <<>> \in S
  <2>1. sp(<<>>) = << <<>> >> /\ as \o <<>> = as /\ <<>> \in Seq(T)
    BY <1>1, SplitFacts
  <2> DEFINE ps == sp(v)
  <2>2. ps \in Seq(Seq(T)) /\ <<>> \in Seq(T)
    BY <1>2 DEF PieceLists
  <2> HIDE DEF ps
  <2>3. ps \o << <<>> >> = Append(ps, <<>>)
    BY <2>2
  <2> HIDE DEF sp
  <2> QED
    BY <1>1, <2>1, <2>3 DEF ps
<1>4. ASSUME NEW z \in Seq(T), NEW e \in T, z \in S PROVE Append(z, e) \in S
  <2>1. as \o Append(z, e) = Append(as \o z, e) /\ as \o z \in Seq(T) /\ Append(z, e) \in Seq(T)
    <3>1. /\ \A a, b \in Seq(T) : a \o b \in Seq(T)
          /\ \A a, b \in Seq(T), x \in T : a \o Append(b, x) = Append(a \o b, x)
      BY ConcatFacts
    <3>2. Append(z, e) \in Seq(T)
      OBVIOUS
    <3> HIDE DEF sp, S
    <3> QED
      BY <1>1, <3>1, <3>2, Zenon
  <2>2. sp(Append(as \o z, e)) = OneMore(sp(as \o z), e, sep) /\ sp(Append(z, e)) = OneMore(sp(z), e, sep)
    <3> DEFINE az == as \o z
    <3>1. az \in Seq(T)
      BY <2>1
    <3> HIDE DEF az
    <3>2. Split(Append(az, e), sep) = OneMore(Split(az, sep), e, sep)
      BY <3>1, SplitFacts
    <3>3. Split(Append(z, e), sep) = OneMore(Split(z, sep), e, sep)
      BY SplitFacts
    <3> QED
      BY <3>2, <3>3 DEF az
  <2>3. sp(as \o z) = sp(v) \o sp(z)
    BY <1>4
  <2> HIDE DEF sp
  <2>4. OneMore(sp(v) \o sp(z), e, sep) = sp(v) \o OneMore(sp(z), e, sep)
    BY <1>2, OneMoreJoin
  <2> QED
    BY <2>1, <2>2, <2>3, <2>4
<1> HIDE DEF S
<1>5. Seq(T) \subseteq S
  BY <1>3, <1>4, AppendInduction
<1> QED
  BY <1>5 DEF S, as

-----------------------------------------------------------------------------
(* Typed lines, which hold no LF and begin with no CR, and their bytes.    *)
NoLF == Symbols \ {LF}
Contents == {c \in Seq(NoLF) : c # <<>> => c[1] # CR}
OnWire == [c \in Seq(Symbols) |-> c \o <<CR, LF>>]
Bytes(lines) == FlatMap(OnWire, lines)

LEMMA ContentsFacts ==
    /\ Contents \subseteq Seq(Symbols) /\ Seq(Contents) \subseteq Seq(Seq(Symbols))
    /\ Seq(NoLF) \subseteq Seq(Symbols) /\ CR \in NoLF /\ LF \in Symbols /\ LF \notin NoLF
    /\ <<>> \in Contents /\ <<CR>> \in Seq(NoLF) /\ <<LF>> \in Seq(Symbols)
    /\ \A c \in Contents : c \in Seq(NoLF) /\ c \o <<CR>> \in Seq(NoLF)
    /\ \A c \in Seq(Symbols) : c \o <<CR, LF>> = Append(c \o <<CR>>, LF) /\ c \o <<CR, LF>> \in Seq(Symbols)
<1>1. CR \in NoLF /\ LF \in Symbols /\ LF \notin NoLF /\ CR \in Symbols /\ NoLF \subseteq Symbols
  BY DEF CR, LF, NoLF, Symbols, Separators
<1>2. Seq(NoLF) \subseteq Seq(Symbols)
  BY <1>1, SeqMonotone
<1>3. Contents \subseteq Seq(Symbols) /\ \A c \in Contents : c \in Seq(NoLF)
  BY <1>2 DEF Contents
<1>4. Seq(Contents) \subseteq Seq(Seq(Symbols))
  BY <1>3, SeqMonotone
<1>5. <<>> \in Contents
  BY DEF Contents
<1> HIDE DEF NoLF, Symbols, Contents
<1>6. <<CR>> \in Seq(NoLF) /\ <<LF>> \in Seq(Symbols) /\ <<CR>> \in Seq(Symbols) /\ <<CR, LF>> \in Seq(Symbols)
  BY <1>1
<1>7. \A c \in Contents : c \o <<CR>> \in Seq(NoLF)
  <2>1. \A a, b \in Seq(NoLF) : a \o b \in Seq(NoLF)
    BY ConcatFacts
  <2> QED
    BY <1>3, <1>6, <2>1
<1>8. \A c \in Seq(Symbols) : c \o <<CR, LF>> = Append(c \o <<CR>>, LF) /\ c \o <<CR, LF>> \in Seq(Symbols)
  <2>1. \A a, b \in Seq(Symbols), e \in Symbols :
            a \o Append(b, e) = Append(a \o b, e) /\ a \o b \in Seq(Symbols)
    BY ConcatFacts
  <2>2. <<CR, LF>> = Append(<<CR>>, LF)
    OBVIOUS
  <2> TAKE c \in Seq(Symbols)
  <2>3. c \o Append(<<CR>>, LF) = Append(c \o <<CR>>, LF)
    BY <1>1, <1>6, <2>1, Zenon
  <2>4. c \o <<CR, LF>> \in Seq(Symbols)
    <3> DEFINE crlf == <<CR, LF>>
    <3>1. crlf \in Seq(Symbols)
      BY <1>6
    <3>2. \A a, b \in Seq(Symbols) : a \o b \in Seq(Symbols)
      BY ConcatFacts
    <3> HIDE DEF crlf
    <3>3. c \o crlf \in Seq(Symbols)
      BY <3>1, <3>2
    <3> QED
      BY <3>3 DEF crlf
  <2>5. c \o <<CR, LF>> = Append(c \o <<CR>>, LF)
    BY <2>2, <2>3, Zenon
  <2> QED
    BY <2>4, <2>5, Zenon
<1> QED
  BY <1>1, <1>2, <1>3, <1>4, <1>5, <1>6, <1>7, <1>8

LEMMA BytesFacts ==
    /\ Bytes(<<>>) = <<>>
    /\ \A p, q \in Seq(Seq(Symbols)) :
           Bytes(p) \in Seq(Symbols) /\ Bytes(p \o q) = Bytes(p) \o Bytes(q)
    /\ \A c \in Seq(Symbols) : Bytes(<<c>>) = c \o <<CR, LF>> /\ <<c>> \in Seq(Seq(Symbols))
<1> DEFINE L == Seq(Symbols)
<1>1. Maps(OnWire, L, Symbols)
  BY ContentsFacts DEF OnWire, Maps
<1>2. \A c \in L : <<c>> \in Seq(L)
  OBVIOUS
<1> HIDE DEF L
<1>3. \A p, q \in Seq(L) : Bytes(p \o q) = Bytes(p) \o Bytes(q) /\ Bytes(p) \in Seq(Symbols)
  <2>1. \A p, q \in Seq(L) : /\ FlatMap(OnWire, p \o q) = FlatMap(OnWire, p) \o FlatMap(OnWire, q)
                              /\ FlatMap(OnWire, p) \in Seq(Symbols)
    BY <1>1, FlatMapJoin
  <2> QED
    BY <2>1 DEF Bytes
<1>4. \A c \in L : Bytes(<<c>>) = c \o <<CR, LF>>
  <2>1. \A c \in L : OnWire[c] = c \o <<CR, LF>>
    BY DEF OnWire, L
  <2>2. \A c \in L : FlatMap(OnWire, <<c>>) = OnWire[c]
    BY FlatMapSingle
  <2> QED
    BY <2>1, <2>2 DEF Bytes
<1>5. Bytes(<<>>) = <<>>
  BY FlatMapEmpty DEF Bytes
<1> QED
  BY <1>2, <1>3, <1>4, <1>5 DEF L

(* The bytes of complete lines and of a part of one are split where they   *)
(* should be.                                                              *)
LEMMA SplitBytes ==
    ASSUME NEW q \in Seq(Contents), NEW x \in Seq(NoLF)
    PROVE  Split(Bytes(q) \o x, LF) = Append(WithCR(q), x)
<1> DEFINE S == {z \in Seq(Contents) :
                   \A y \in Seq(NoLF) : Split(Bytes(z) \o y, LF) = Append(WithCR(z), y)}
<1>1. <<>> \in S
  <2> SUFFICES ASSUME NEW y \in Seq(NoLF) PROVE Split(Bytes(<<>>) \o y, LF) = Append(WithCR(<<>>), y)
    OBVIOUS
  <2>1. Bytes(<<>>) \o y = y
    BY BytesFacts
  <2>2. Split(y, LF) = <<y>>
    BY ContentsFacts, SplitNone
  <2>3. WithCR(<<>>) = <<>>
    BY DEF WithCR
  <2>4. Append(<<>>, y) = <<y>>
    OBVIOUS
  <2> QED
    BY <2>1, <2>2, <2>3, <2>4
<1>2. ASSUME NEW z \in Seq(Contents), NEW c \in Contents, z \in S PROVE Append(z, c) \in S
  <2>0. Append(z, c) \in Seq(Contents)
    OBVIOUS
  <2> SUFFICES ASSUME NEW y \in Seq(NoLF)
               PROVE  Split(Bytes(Append(z, c)) \o y, LF) = Append(WithCR(Append(z, c)), y)
    BY <2>0
  <2> DEFINE cr == c \o <<CR>>
             v == Bytes(z) \o cr
  <2>1. z \in Seq(Seq(Symbols)) /\ c \in Seq(Symbols) /\ cr \in Seq(NoLF) /\ y \in Seq(Symbols)
    BY ContentsFacts
  <2>2. Bytes(Append(z, c)) = Bytes(z) \o (c \o <<CR, LF>>)
    <3>1. Append(z, c) = z \o <<c>>
      OBVIOUS
    <3>2. Bytes(z \o <<c>>) = Bytes(z) \o Bytes(<<c>>)
      BY <2>1, BytesFacts
    <3>3. Bytes(<<c>>) = c \o <<CR, LF>>
      BY <2>1, BytesFacts
    <3> QED
      BY <3>1, <3>2, <3>3
  <2>3. c \o <<CR, LF>> = Append(cr, LF) /\ Bytes(z) \in Seq(Symbols) /\ cr \in Seq(Symbols) /\ LF \in Symbols
    BY <2>1, ContentsFacts, BytesFacts
  <2>4. Split(v, LF) = Append(WithCR(z), cr)
    BY <1>2, <2>1
  <2> HIDE DEF cr
  <2>5. Bytes(z) \o Append(cr, LF) = Append(v, LF) /\ v \in Seq(Symbols)
    <3>1. \A a, b \in Seq(Symbols), e \in Symbols :
              a \o Append(b, e) = Append(a \o b, e) /\ a \o b \in Seq(Symbols)
      BY ConcatFacts
    <3> QED
      BY <2>3, <3>1, Zenon
  <2> HIDE DEF v
  <2>6. Split(Append(v, LF) \o y, LF) = Split(v, LF) \o Split(y, LF)
    BY <2>1, <2>3, <2>5, SplitJoin
  <2>7. Split(y, LF) = <<y>>
    BY ContentsFacts, SplitNone
  <2>8. WithCR(Append(z, c)) = Append(WithCR(z), cr) /\ WithCR(z) \in Seq(Seq(Symbols))
    BY <2>1, OneMoreLine DEF cr
  <2>9. Append(WithCR(z), cr) \o <<y>> = Append(Append(WithCR(z), cr), y)
    <3> DEFINE w == Append(WithCR(z), cr)
    <3>1. w \in Seq(Seq(Symbols))
      BY <2>3, <2>8
    <3> HIDE DEF w
    <3>2. w \o <<y>> = Append(w, y)
      BY <2>1, <3>1
    <3> QED
      BY <3>2 DEF w
  <2> QED
    BY <2>2, <2>3, <2>4, <2>5, <2>6, <2>7, <2>8, <2>9, Zenon
<1> HIDE DEF S
<1>3. Seq(Contents) \subseteq S
  BY <1>1, <1>2, AppendInduction
<1> QED
  BY <1>3 DEF S

LEMMA JoinIs ==
    ASSUME NEW T, NEW p1 \in Seq(T), NEW q1 \in Seq(T), NEW w \in Seq(T), IsJoin(w, p1, q1)
    PROVE  w = p1 \o q1
<1> DEFINE z == p1 \o q1
<1>1. z \in Seq(T) /\ IsJoin(z, p1, q1)
  BY JoinFacts
<1> HIDE DEF z
<1>2. Len(p1) \in Nat /\ Len(q1) \in Nat /\ Len(w) = Len(p1) + Len(q1) /\ Len(z) = Len(p1) + Len(q1)
  BY <1>1 DEF IsJoin
<1>3. ASSUME NEW i \in 1 .. Len(w) PROVE w[i] = z[i]
  <2>1. CASE i <= Len(p1)
    <3>1. i \in 1 .. Len(p1)
      BY <2>1
    <3> QED
      BY <1>1, <3>1 DEF IsJoin
  <2>2. CASE i > Len(p1)
    <3> DEFINE j == i - Len(p1)
    <3>1. j \in 1 .. Len(q1) /\ Len(p1) + j = i
      BY <1>2, <2>2
    <3> HIDE DEF j
    <3>2. w[Len(p1) + j] = q1[j] /\ z[Len(p1) + j] = q1[j]
      BY <1>1, <3>1 DEF IsJoin
    <3> QED
      BY <3>1, <3>2
  <2> QED
    BY <1>2, <2>1, <2>2
<1>4. w = z
  BY <1>1, <1>2, <1>3, SameSeq
<1> QED
  BY <1>4 DEF z

LEMMA TextsJoin == \A k1, k2, k3 \in Seq(Symbols) : (k1 \o k2) \o k3 = k1 \o (k2 \o k3)
  BY ConcatFacts

LEMMA TypedJoin == \A k1, k2, k3 \in Seq(Contents) : (k1 \o k2) \o k3 = k1 \o (k2 \o k3)
  BY ConcatFacts

LEMMA LinesJoin == \A k1, k2, k3 \in Seq(Seq(Symbols)) : (k1 \o k2) \o k3 = k1 \o (k2 \o k3)
  BY ConcatFacts

(* The bytes of one line and those after it.                               *)
LEMMA BytesInFront ==
    ASSUME NEW c \in Contents, NEW z \in Seq(Contents)
    PROVE  /\ Cons(c, z) \in Seq(Contents)
           /\ Bytes(Cons(c, z)) = (c \o <<CR, LF>>) \o Bytes(z)
           /\ c \o <<CR, LF>> \in Seq(Symbols) /\ Bytes(z) \in Seq(Symbols)
<1> DEFINE v == <<c>>
<1>1. c \in Seq(Symbols) /\ v \in Seq(Contents) /\ v \in Seq(Seq(Symbols)) /\ z \in Seq(Seq(Symbols))
  BY ContentsFacts
<1> HIDE DEF v
<1>2. v \o z \in Seq(Contents)
  BY <1>1, ConcatFacts
<1>3. Bytes(v \o z) = Bytes(v) \o Bytes(z) /\ Bytes(z) \in Seq(Symbols)
  BY <1>1, BytesFacts
<1>4. Bytes(v) = c \o <<CR, LF>> /\ c \o <<CR, LF>> \in Seq(Symbols)
  BY <1>1, BytesFacts, ContentsFacts DEF v
<1>5. Cons(c, z) = v \o z
  BY DEF Cons, v
<1> QED
  BY <1>2, <1>3, <1>4, <1>5, Zenon

LEMMA EndOfLine ==
    \A c \in Contents, z \in Seq(Contents) : (c \o <<CR>>) \o (<<LF>> \o Bytes(z)) = Bytes(Cons(c, z))
<1> SUFFICES ASSUME NEW c \in Contents, NEW z \in Seq(Contents)
             PROVE  (c \o <<CR>>) \o (<<LF>> \o Bytes(z)) = Bytes(Cons(c, z))
  OBVIOUS
<1> DEFINE cr == c \o <<CR>>
           lf == <<LF>>
           y == Bytes(z)
<1>1. lf \in Seq(Symbols) /\ c \in Seq(Symbols) /\ LF \in Symbols /\ cr \in Seq(Symbols)
  BY ContentsFacts
<1>2. c \o <<CR, LF>> = cr \o lf
  <2>1. c \o <<CR, LF>> = Append(cr, LF)
    BY <1>1, ContentsFacts
  <2> HIDE DEF cr
  <2>2. Append(cr, LF) = cr \o lf
    BY <1>1
  <2> QED
    BY <2>1, <2>2
<1>3. Bytes(Cons(c, z)) = (c \o <<CR, LF>>) \o y /\ y \in Seq(Symbols)
  BY BytesInFront
<1> HIDE DEF cr, lf, y
<1>4. (cr \o lf) \o y = cr \o (lf \o y)
  BY <1>1, <1>3, TextsJoin
<1> QED
  BY <1>2, <1>3, <1>4, Zenon DEF cr, lf, y

(* A front of a line and what comes after it that ends before the LF holds *)
(* none, and is a lone CR only if the line is empty.                       *)
LEMMA LineStart ==
    ASSUME NEW c \in Contents, NEW b \in Seq(Symbols), NEW r \in Seq(Symbols), NEW y \in Seq(Symbols),
           NEW w, IsJoin(w, b, r), IsJoin(w, c \o <<CR, LF>>, y), Len(b) < Len(c \o <<CR, LF>>)
    PROVE  b \in Seq(NoLF) /\ (b = <<CR>> => c = <<>> /\ r = <<LF>> \o y)
<1> DEFINE cr == c \o <<CR>>
           line == c \o <<CR, LF>>
           m == Len(c)
<1>1. c \in Seq(NoLF) /\ c \in Seq(Symbols) /\ cr \in Seq(NoLF) /\ cr \in Seq(Symbols) /\ line = Append(cr, LF)
      /\ line \in Seq(Symbols) /\ LF \in Symbols /\ CR \in Symbols
  BY ContentsFacts
<1>2. c # <<>> => c[1] # CR
  BY DEF Contents
<1>3. IsJoin(cr, c, <<CR>>)
  <2>1. <<CR>> \in Seq(Symbols)
    BY <1>1
  <2> QED
    BY <1>1, <2>1, JoinFacts, Zenon
<1>4. m \in Nat /\ Len(cr) = m + 1 /\ (\A i \in 1 .. m : cr[i] = c[i]) /\ cr[m + 1] = CR
  <2>1. m \in Nat /\ Len(<<CR>>) = 1 /\ <<CR>>[1] = CR
    OBVIOUS
  <2>2. Len(cr) = m + 1 /\ \A i \in 1 .. m : cr[i] = c[i]
    BY <1>3, <2>1 DEF IsJoin
  <2>3. cr[m + 1] = CR
    BY <1>3, <2>1 DEF IsJoin
  <2> QED
    BY <2>1, <2>2, <2>3
<1> HIDE DEF cr, line
<1>5. Len(line) = m + 2 /\ (\A i \in 1 .. m + 1 : line[i] = cr[i]) /\ line[m + 2] = LF
  BY <1>1, <1>4
<1>6. Len(b) < m + 2 /\ Len(b) \in Nat
  BY <1>5 DEF line
<1>7. IsJoin(w, line, y)
  BY DEF line
<1> HIDE DEF m
<1>8. \A i \in 1 .. Len(b) : b[i] = cr[i]
  <2> TAKE i \in 1 .. Len(b)
  <2>1. i \in 1 .. Len(line) /\ i \in 1 .. m + 1
    BY <1>4, <1>5, <1>6
  <2>2. w[i] = b[i]
    BY DEF IsJoin
  <2>3. w[i] = line[i]
    BY <1>7, <2>1 DEF IsJoin
  <2> QED
    BY <1>5, <2>1, <2>2, <2>3
<1>9. b \in Seq(NoLF)
  <2>1. \A i \in 1 .. Len(b) : b[i] \in NoLF
    <3> TAKE i \in 1 .. Len(b)
    <3>1. i \in 1 .. Len(cr)
      BY <1>4, <1>6
    <3>2. cr[i] \in NoLF
      BY <1>1, <3>1
    <3> QED
      BY <1>8, <3>2
  <2> QED
    BY <2>1
<1>10. ASSUME b = <<CR>> PROVE c = <<>> /\ r = <<LF>> \o y
  <2>1. Len(b) = 1 /\ b[1] = CR
    BY <1>10
  <2>2. cr[1] = CR
    BY <1>8, <2>1
  <2>3. m = 0
    <3>1. m # 0 => c # <<>> /\ cr[1] = c[1]
      BY <1>4 DEF m
    <3> QED
      BY <1>2, <2>2, <3>1
  <2>4. c = <<>>
    BY <1>1, <2>3 DEF m
  <2> DEFINE lf == <<LF>>
             z == lf \o y
  <2>5. lf \in Seq(Symbols) /\ Len(lf) = 1 /\ lf[1] = LF
    BY <1>1
  <2> HIDE DEF lf
  <2>6. z \in Seq(Symbols) /\ IsJoin(z, lf, y)
    BY <2>5, JoinFacts
  <2> HIDE DEF z
  <2>7. Len(y) \in Nat /\ Len(r) \in Nat /\ Len(line) = 2 /\ line[2] = LF
    BY <1>5, <2>3
  <2>8. Len(w) = 2 + Len(y) /\ Len(w) = 1 + Len(r) /\ Len(z) = 1 + Len(y)
    BY <1>7, <2>1, <2>5, <2>6, <2>7 DEF IsJoin
  <2>9. ASSUME NEW i \in 1 .. Len(r) PROVE r[i] = z[i]
    <3>1. w[1 + i] = r[i]
      BY <2>1 DEF IsJoin
    <3>2. CASE i = 1
      <4>1. w[2] = LF
        BY <1>7, <2>7 DEF IsJoin
      <4>2. z[1] = LF
        BY <2>5, <2>6 DEF IsJoin
      <4> QED
        BY <3>1, <3>2, <4>1, <4>2
    <3>3. CASE i # 1
      <4> DEFINE j == i - 1
      <4>1. j \in 1 .. Len(y) /\ 1 + j = i /\ 2 + j = 1 + i
        BY <2>7, <2>8, <3>3
      <4> HIDE DEF j
      <4>2. w[2 + j] = y[j]
        BY <1>7, <2>7, <4>1 DEF IsJoin
      <4>3. z[1 + j] = y[j]
        BY <2>5, <2>6, <4>1 DEF IsJoin
      <4> QED
        BY <3>1, <4>1, <4>2, <4>3
    <3> QED
      BY <3>2, <3>3
  <2>10. r = z
    BY <2>6, <2>7, <2>8, <2>9, SameSeq
  <2> QED
    BY <2>4, <2>10 DEF z, lf
<1> QED
  BY <1>9, <1>10

(* The bytes of lines that are cut somewhere: complete lines and a part of *)
(* one are in front, and if that part is a lone CR the line is empty.      *)
IsCut(q, b, r, q1, q2, x) ==
    /\ q = q1 \o q2
    /\ b = Bytes(q1) \o x
    /\ x \o r = Bytes(q2)
    /\ x = <<CR>> => \E q3 \in Seq(Contents) : q2 = << <<>> >> \o q3 /\ r = <<LF>> \o Bytes(q3)

LEMMA CutBytes ==
    \A q \in Seq(Contents) : \A b, r \in Seq(Symbols) : b \o r = Bytes(q) =>
        \E q1, q2 \in Seq(Contents), x \in Seq(NoLF) : IsCut(q, b, r, q1, q2, x)
<1> DEFINE S == {z \in Seq(Contents) : \A p1, p2 \in Seq(Symbols) : p1 \o p2 = Bytes(z) =>
                     \E q1, q2 \in Seq(Contents), x \in Seq(NoLF) : IsCut(z, p1, p2, q1, q2, x)}
<1>0. \A k1, l1, k2, l2 \in Seq(Symbols) : \A k :
          IsJoin(k, k1, l1) /\ IsJoin(k, k2, l2) /\ Len(k2) <= Len(k1) =>
              FrontTaken(Symbols, k1, l1, k2, l2)
  BY TakeOff
<1>1. <<>> \in S
  <2>1. <<>> \in Seq(Contents) /\ <<>> \in Seq(NoLF) /\ <<>> # <<CR>>
    OBVIOUS
  <2> SUFFICES ASSUME NEW p1 \in Seq(Symbols), NEW p2 \in Seq(Symbols), p1 \o p2 = Bytes(<<>>)
               PROVE  IsCut(<<>>, p1, p2, <<>>, <<>>, <<>>)
    BY <2>1
  <2>2. p1 \o p2 = <<>>
    BY BytesFacts
  <2>3. p1 = <<>> /\ p2 = <<>>
    <3>1. p1 \o p2 \in Seq(Symbols) /\ IsJoin(p1 \o p2, p1, p2)
      BY JoinFacts
    <3>2. Len(p1) \in Nat /\ Len(p2) \in Nat /\ Len(<<>>) = 0
      OBVIOUS
    <3>3. Len(p1) = 0 /\ Len(p2) = 0
      BY <2>2, <3>1, <3>2 DEF IsJoin
    <3> QED
      BY <3>3
  <2>4. <<>> \o <<>> = <<>>
    OBVIOUS
  <2> QED
    BY <2>1, <2>3, <2>4, BytesFacts, Zenon DEF IsCut
<1>2. ASSUME NEW c \in Contents, NEW z \in Seq(Contents), z \in S PROVE Cons(c, z) \in S
  <2> DEFINE line == c \o <<CR, LF>>
             y == Bytes(z)
             cz == Cons(c, z)
             one == <<c>>
  <2>1. cz \in Seq(Contents) /\ Bytes(cz) = line \o y /\ line \in Seq(Symbols) /\ y \in Seq(Symbols)
    BY BytesInFront
  <2>2. cz = one \o z /\ one \in Seq(Contents)
    BY DEF Cons
  <2> SUFFICES ASSUME NEW p1 \in Seq(Symbols), NEW p2 \in Seq(Symbols), p1 \o p2 = Bytes(cz)
               PROVE  \E q1, q2 \in Seq(Contents), x \in Seq(NoLF) : IsCut(cz, p1, p2, q1, q2, x)
    BY <2>1
  <2> DEFINE w == Bytes(cz)
  <2>3. IsJoin(w, p1, p2) /\ IsJoin(w, line, y)
    <3>1. IsJoin(p1 \o p2, p1, p2) /\ IsJoin(line \o y, line, y)
      BY <2>1, Joined, Zenon
    <3> QED
      BY <2>1, <3>1, Zenon
  <2> HIDE DEF w, y, cz, one
  <2>4. CASE Len(line) <= Len(p1)
    <3> HIDE DEF line
    <3>1. PICK s1 \in Seq(Symbols) : p1 = line \o s1 /\ s1 \o p2 = y
      <4>1. FrontTaken(Symbols, p1, p2, line, y)
        BY <1>0, <2>1, <2>3, <2>4, Zenon
      <4> QED
        BY <4>1, Zenon DEF FrontTaken
    <3>2. PICK q1 \in Seq(Contents), q2 \in Seq(Contents), x \in Seq(NoLF) : IsCut(z, s1, p2, q1, q2, x)
      BY <1>2, <3>1 DEF y
    <3> DEFINE cq == Cons(c, q1)
    <3>3. cq \in Seq(Contents) /\ Bytes(cq) = line \o Bytes(q1) /\ Bytes(q1) \in Seq(Symbols)
      BY BytesInFront DEF line
    <3>4. cz = cq \o q2
      <4>1. cq = one \o q1
        BY DEF Cons, one
      <4>2. (one \o q1) \o q2 = one \o (q1 \o q2)
        BY TypedJoin, <2>2, Zenon
      <4>3. z = q1 \o q2
        BY <3>2 DEF IsCut
      <4> QED
        BY <2>2, <4>1, <4>2, <4>3, Zenon
    <3>5. p1 = Bytes(cq) \o x
      <4>1. s1 = Bytes(q1) \o x /\ x \in Seq(Symbols)
        BY <3>2, ContentsFacts DEF IsCut
      <4> DEFINE y1 == Bytes(q1)
      <4>3. (line \o y1) \o x = line \o (y1 \o x)
        <5>1. line \in Seq(Symbols) /\ y1 \in Seq(Symbols) /\ x \in Seq(Symbols)
          BY <2>1, <3>3, <4>1
        <5> HIDE DEF y1
        <5> QED
          BY TextsJoin, <5>1, ZenonT(30)
      <4> QED
        BY <3>1, <3>3, <4>1, <4>3, Zenon
    <3> HIDE DEF cq
    <3>6. IsCut(cz, p1, p2, cq, q2, x)
      BY <3>2, <3>4, <3>5 DEF IsCut
    <3> QED
      BY <3>3, <3>6
  <2>5. CASE ~(Len(line) <= Len(p1))
    <3>1. Len(p1) < Len(line)
      <4>1. Len(p1) \in Nat /\ Len(line) \in Nat
        BY <2>1
      <4> QED
        BY <2>5, <4>1
    <3>2. p1 \in Seq(NoLF) /\ (p1 = <<CR>> => c = <<>> /\ p2 = <<LF>> \o y)
      BY <2>1, <2>3, <3>1, LineStart
    <3>3. IsCut(cz, p1, p2, <<>>, cz, p1)
      <4>1. cz = <<>> \o cz /\ p1 = <<>> \o p1
        <5>1. IsSeq(cz) /\ IsSeq(p1)
          BY <2>1, SeqIsSeq
        <5> QED
          BY <5>1, ConcatEmpty, Zenon
      <4>2. p1 = Bytes(<<>>) \o p1
        BY <4>1, BytesFacts, Zenon
      <4>3. p1 = <<CR>> => cz = << <<>> >> \o z /\ p2 = <<LF>> \o Bytes(z)
        BY <2>2, <3>2, Zenon DEF one, y
      <4>4. p1 \o p2 = Bytes(cz)
        BY DEF w
      <4> QED
        BY <4>1, <4>2, <4>3, <4>4, Zenon DEF IsCut
    <3>4. <<>> \in Seq(Contents)
      OBVIOUS
    <3> QED
      BY <2>1, <3>2, <3>3, <3>4
  <2> QED
    BY <2>4, <2>5
<1> HIDE DEF S
<1>3. Seq(Contents) \subseteq S
  BY <1>1, <1>2, TextInduction
<1> QED
  BY <1>3 DEF S

LEMMA AppendEnds ==
    ASSUME NEW T, NEW s \in Seq(T), NEW e \in T
    PROVE  /\ Append(s, e) # <<>> /\ Len(Append(s, e)) = Len(s) + 1 /\ Len(s) \in Nat
           /\ Last(Append(s, e)) = e /\ Front(Append(s, e)) = s
<1> DEFINE v == Append(s, e)
<1>1. /\ v \in Seq(T) /\ Len(v) = Len(s) + 1 /\ Len(s) \in Nat /\ v[Len(s) + 1] = e
      /\ \A i \in 1 .. Len(s) : v[i] = s[i]
  OBVIOUS
<1> HIDE DEF v
<1>2. Last(v) = e /\ v # <<>>
  <2>1. v # <<>>
    BY <1>1
  <2> QED
    BY <1>1, <2>1 DEF Last
<1> DEFINE f == SubSeq(v, 1, Len(s))
<1>3. f \in Seq(T) /\ Len(f) = Len(s) /\ \A i \in 1 .. Len(s) : f[i] = v[i]
  <2>1. IsSeq(v) /\ Len(s) \in 0 .. Len(v)
    BY <1>1, SeqIsSeq
  <2>2. f \in Seq(T)
    BY <1>1
  <2> QED
    BY <2>1, <2>2, CutAt
<1>4. Front(v) = f
  <2>1. Len(v) - 1 = Len(s)
    BY <1>1
  <2> QED
    BY <2>1 DEF Front
<1> HIDE DEF f
<1>5. f = s
  BY <1>1, <1>3, SameSeq
<1> QED
  BY <1>1, <1>2, <1>4, <1>5 DEF v

LEMMA FrontThenLast ==
    ASSUME NEW T, NEW s \in Seq(T), s # <<>>
    PROVE  \E z \in Seq(T), e \in T : s = Append(z, e)
<1> DEFINE n == Len(s)
           z == SubSeq(s, 1, n - 1)
           v == Append(z, s[n])
<1>1. n \in Nat \ {0} /\ s[n] \in T /\ z \in Seq(T)
  OBVIOUS
<1>2. Len(z) = n - 1 /\ \A i \in 1 .. n - 1 : z[i] = s[i]
  <2>1. IsSeq(s) /\ n - 1 \in 0 .. Len(s)
    BY <1>1, SeqIsSeq
  <2> HIDE DEF n
  <2> QED
    BY <2>1, CutAt
<1> HIDE DEF z
<1>3. v \in Seq(T) /\ Len(v) = n /\ v[n] = s[n] /\ \A i \in 1 .. n - 1 : v[i] = s[i]
  BY <1>1, <1>2
<1> HIDE DEF v
<1>4. \A i \in 1 .. n : v[i] = s[i]
  BY <1>1, <1>3
<1>5. v = s
  BY <1>3, <1>4, SameSeq
<1> QED
  BY <1>1, <1>5 DEF v

(* What Pieces makes of the bytes of complete lines and a part of one.     *)
LEMMA PiecesOfCut ==
    ASSUME NEW q \in Seq(Contents), NEW x \in Seq(NoLF), NEW b, b = Bytes(q) \o x
    PROVE  Pieces(b) = IF x = <<CR>> THEN WithCR(q) ELSE Append(WithCR(q), x)
<1> DEFINE lines == WithCR(q)
<1>1. Split(b, LF) = Append(lines, x)
  BY SplitBytes
<1>2. lines \in Seq(Seq(Symbols)) /\ x \in Seq(Symbols)
  BY ContentsFacts, WithCRIs
<1> HIDE DEF lines
<1>3. Last(Append(lines, x)) = x /\ Front(Append(lines, x)) = lines
  BY <1>2, AppendEnds
<1> QED
  BY <1>1, <1>3 DEF Pieces, lines

NoEndLF(w) == w # <<>> => Last(w) # LF

LEMMA NoEnd ==
    /\ \A x \in Seq(NoLF) : NoEndLF(x)
    /\ \A w \in Seq(Symbols) : NoEndLF(w \o <<CR>>)
<1>1. ASSUME NEW x \in Seq(NoLF) PROVE NoEndLF(x)
  <2> SUFFICES ASSUME x # <<>> PROVE Last(x) # LF
    BY DEF NoEndLF
  <2>1. Last(x) \in NoLF
    BY LastAndFront
  <2> QED
    BY <2>1, ContentsFacts
<1>2. ASSUME NEW w \in Seq(Symbols) PROVE NoEndLF(w \o <<CR>>)
  <2>1. CR \in Symbols /\ CR # LF
    BY DEF CR, LF, Symbols, Separators
  <2>2. w \o <<CR>> = Append(w, CR)
    BY <2>1
  <2>3. Last(Append(w, CR)) = CR
    BY <2>1, AppendEnds
  <2> QED
    BY <2>1, <2>2, <2>3, Zenon DEF NoEndLF
<1> QED
  BY <1>1, <1>2

(* What is left of the typed lines after a turn of the reading loop:       *)
(* lines were handled, the buffer begins the bytes of the others, and only *)
(* an empty one may have been lost.                                        *)
IsTurn(turn, q, r, q1, q2) ==
    /\ turn.lines = WithCR(q1)
    /\ turn.msg \o r = Bytes(q2)
    /\ Kept(q1) \o Kept(q2) = Kept(q)
    /\ NoEndLF(turn.msg)

LEMMA TurnKeepsLines ==
    ASSUME NEW m \in Seq(Symbols), NEW k \in Seq(Symbols), NEW r \in Seq(Symbols),
           NEW q \in Seq(Contents), NEW b, b = m \o k, b \in Seq(Symbols), b \o r = Bytes(q)
    PROVE  \E q1, q2 \in Seq(Contents) : IsTurn(ReadChunk(m, k), q, r, q1, q2)
<1> DEFINE pieces == Pieces(b)
           turn == ReadChunk(m, k)
<1>1. turn = IF Len(pieces) < 2 THEN [msg |-> b, lines |-> <<>>]
             ELSE [msg |-> Last(pieces), lines |-> Front(pieces)]
  BY Zenon DEF ReadChunk
<1>2. PICK q1 \in Seq(Contents), q2 \in Seq(Contents), x \in Seq(NoLF) : IsCut(q, b, r, q1, q2, x)
  BY CutBytes
<1>3. /\ q1 \in Seq(Seq(Symbols)) /\ q2 \in Seq(Seq(Symbols)) /\ q \in Seq(Seq(Symbols)) /\ x \in Seq(Symbols)
      /\ <<>> \in Seq(Contents)
  BY ContentsFacts
<1>4. b = Bytes(q1) \o x /\ q = q1 \o q2 /\ x \o r = Bytes(q2)
  BY <1>2 DEF IsCut
<1>5. pieces = IF x = <<CR>> THEN WithCR(q1) ELSE Append(WithCR(q1), x)
  BY <1>4, PiecesOfCut
<1>6. Kept(q) = Kept(q1) \o Kept(q2)
  BY <1>3, <1>4, KeptIs, Zenon
<1>7. WithCR(<<>>) = <<>> /\ Kept(<<>>) = <<>>
  BY KeptIs DEF WithCR
<1>8. WithCR(q1) \in Seq(Seq(Symbols)) /\ Len(WithCR(q1)) = Len(q1) /\ Len(q1) \in Nat
  BY <1>3, WithCRIs
<1> HIDE DEF pieces, turn
<1>9. CASE x # <<CR>>
  <2> DEFINE lines == WithCR(q1)
  <2>1. pieces = Append(lines, x)
    BY <1>5, <1>9
  <2> HIDE DEF lines
  <2>2. Len(pieces) = Len(q1) + 1 /\ Last(pieces) = x /\ Front(pieces) = lines
    BY <1>3, <1>8, <2>1, AppendEnds DEF lines
  <2>3. turn.msg = x /\ turn.lines = lines
    <3>1. CASE Len(q1) = 0
      <4>1. q1 = <<>>
        BY <1>3, <3>1
      <4>2. lines = <<>> /\ b = x
        <5>1. Bytes(q1) = <<>>
          BY <4>1, BytesFacts
        <5>2. IsSeq(x)
          BY <1>3, SeqIsSeq
        <5> QED
          BY <1>4, <1>7, <4>1, <5>1, <5>2, ConcatEmpty, Zenon DEF lines
      <4>3. turn = [msg |-> b, lines |-> <<>>]
        BY <1>1, <2>2, <3>1
      <4> QED
        BY <4>2, <4>3
    <3>2. CASE Len(q1) # 0
      <4>1. turn = [msg |-> Last(pieces), lines |-> Front(pieces)]
        BY <1>1, <1>8, <2>2, <3>2
      <4> QED
        BY <2>2, <4>1
    <3> QED
      BY <3>1, <3>2
  <2>4. IsTurn(turn, q, r, q1, q2)
    BY <1>4, <1>6, <2>3, NoEnd, Zenon DEF IsTurn, lines
  <2> QED
    BY <2>4 DEF turn
<1>10. CASE x = <<CR>> /\ Len(q1) < 2
  <2>1. turn = [msg |-> b, lines |-> <<>>]
    <3>1. Len(pieces) < 2
      BY <1>5, <1>8, <1>10
    <3> QED
      BY <1>1, <3>1, Zenon
  <2>2. turn.msg = b /\ turn.lines = <<>>
    BY <2>1
  <2>3. NoEndLF(b)
    <3>1. Bytes(q1) \in Seq(Symbols)
      BY <1>3, BytesFacts
    <3> QED
      BY <1>4, <1>10, <3>1, NoEnd, Zenon
  <2>4. <<>> \o Kept(q) = Kept(q)
    <3>1. IsSeq(Kept(q))
      BY <1>3, KeptIs, SeqIsSeq
    <3> QED
      BY <3>1, ConcatEmpty, Zenon
  <2>5. IsTurn(turn, q, r, <<>>, q)
    BY <1>7, <2>2, <2>3, <2>4, Zenon DEF IsTurn
  <2> QED
    BY <1>3, <2>5 DEF turn
<1>11. CASE x = <<CR>> /\ ~(Len(q1) < 2)
  <2>1. PICK z \in Seq(Contents), c \in Contents : q1 = Append(z, c)
    <3>1. q1 # <<>>
      BY <1>11
    <3> QED
      BY <3>1, FrontThenLast
  <2>2. PICK q3 \in Seq(Contents) : q2 = << <<>> >> \o q3 /\ r = <<LF>> \o Bytes(q3)
    BY <1>2, <1>11 DEF IsCut
  <2> DEFINE cr == c \o <<CR>>
             qc == Cons(c, q3)
             lines == WithCR(z)
             y == Bytes(q3)
  <2>3. z \in Seq(Seq(Symbols)) /\ c \in Seq(Symbols) /\ q3 \in Seq(Seq(Symbols))
    BY ContentsFacts
  <2>4. /\ WithCR(q1) = Append(lines, cr) /\ lines \in Seq(Seq(Symbols)) /\ cr \in Seq(Symbols)
        /\ Kept(q1) = IF c = <<>> THEN Kept(z) ELSE Append(Kept(z), c)
    BY <2>1, <2>3, OneMoreLine
  <2>5. qc \in Seq(Contents) /\ Bytes(qc) = (c \o <<CR, LF>>) \o y /\ y \in Seq(Symbols)
    BY BytesInFront
  <2> HIDE DEF cr, lines, qc, y
  <2>6. turn.msg = cr /\ turn.lines = lines
    <3>1. pieces = Append(lines, cr)
      BY <1>5, <1>11, <2>4
    <3>2. Last(pieces) = cr /\ Front(pieces) = lines
      BY <2>4, <3>1, AppendEnds
    <3>3. turn = [msg |-> Last(pieces), lines |-> Front(pieces)]
      <4>1. ~(Len(pieces) < 2)
        BY <1>5, <1>8, <1>11
      <4> QED
        BY <1>1, <4>1, Zenon
    <3> QED
      BY <3>2, <3>3
  <2>7. cr \o r = Bytes(qc)
    BY <2>2, EndOfLine, Zenon DEF cr, qc
  <2>8. Kept(z) \o Kept(qc) = Kept(q)
    <3> DEFINE kz == Kept(z)
               kc == Keep[c]
               k3 == Kept(q3)
               one == <<c>>
               none == << <<>> >>
    <3>1. kz \in Seq(Seq(Symbols)) /\ k3 \in Seq(Seq(Symbols)) /\ kc \in Seq(Seq(Symbols))
      <4>1. <<c>> \in Seq(Seq(Symbols)) /\ <<>> \in Seq(Seq(Symbols))
        BY <2>3
      <4>2. kc \in Seq(Seq(Symbols))
        BY <2>3, <4>1 DEF Keep
      <4> QED
        BY <2>3, <4>2, KeptIs
    <3>2. one \in Seq(Seq(Symbols)) /\ none \in Seq(Seq(Symbols)) /\ <<>> \in Seq(Symbols)
      BY <2>3
    <3>3. Kept(one) = kc /\ Kept(none) = <<>>
      <4>1. Kept(none) = Keep[<<>>] /\ Keep[<<>>] = <<>>
        BY <3>2, KeptIs DEF Keep
      <4> QED
        BY <2>3, <4>1, KeptIs
    <3> HIDE DEF kz, kc, k3, one, none
    <3>4. qc = one \o q3
      BY DEF qc, one, Cons
    <3>5. Kept(qc) = kc \o k3
      BY <2>3, <3>2, <3>3, <3>4, KeptIs, Zenon DEF k3
    <3>6. Kept(q2) = k3
      <4>1. Kept(q2) = <<>> \o k3
        BY <2>2, <2>3, <3>2, <3>3, KeptIs, ZenonT(30) DEF k3, none
      <4>2. IsSeq(k3)
        BY <3>1, SeqIsSeq
      <4> QED
        BY <4>1, <4>2, ConcatEmpty, Zenon
    <3>7. Kept(q1) = kz \o kc
      <4>1. q1 = z \o one
        BY <2>1 DEF one
      <4> QED
        BY <2>3, <3>2, <3>3, <4>1, KeptIs, Zenon DEF kz
    <3>9. (kz \o kc) \o k3 = kz \o (kc \o k3)
      BY <3>1, LinesJoin, Zenon
    <3> QED
      BY <1>6, <3>5, <3>6, <3>7, <3>9, Zenon DEF kz
  <2>9. NoEndLF(cr)
    BY <2>3, NoEnd, Zenon DEF cr
  <2>10. IsTurn(turn, q, r, z, qc)
    BY <2>6, <2>7, <2>8, <2>9, Zenon DEF IsTurn, lines
  <2> QED
    BY <2>5, <2>10 DEF turn
<1> QED
  BY <1>9, <1>10, <1>11

-----------------------------------------------------------------------------
(* The inductive invariant of the reading loop: there are lines that were  *)
(* handled and lines whose bytes are in the buffer and in the stream, and  *)
(* together they are what was typed, but for empty ones.                   *)
Lines == [i \in DOMAIN typed |-> Content(typed[i])]

Handling(p, q) ==
    /\ Kept(p) \o Kept(q) = Kept(Lines)
    /\ msg \o unread = Bytes(q)
    /\ AllHandled(NoUser, WithCR(p)).user = user
    /\ AllHandled(NoUser, WithCR(p)).sent = sent

Framed ==
    /\ typed \in Inputs
    /\ NoEndLF(msg)
    /\ \E p, q \in Seq(Contents) : Handling(p, q)

LEMMA LinesFacts ==
    ASSUME typed \in Inputs
    PROVE  /\ Lines \in Seq(Contents)
           /\ Mapped(LineBytes, typed) = Bytes(Lines)
           /\ OneByOne = AllHandled(NoUser, WithCR(Lines))
<1>1. typed \in Seq(TypedLines)
  BY WireAssumption
<1>2. \A i \in DOMAIN typed : Content(typed[i]) \in Contents
  <2> SUFFICES ASSUME NEW i \in DOMAIN typed PROVE Content(typed[i]) \in Contents
    OBVIOUS
  <2> DEFINE l == Content(typed[i])
  <2>1. l \in Seq(Symbols)
    BY <1>1, ElementType, ContentType
  <2>2. LF \notin ToSet(l) /\ (l # <<>> => l[1] # CR)
    BY FramingAssumption
  <2> HIDE DEF l
  <2>3. \A j \in DOMAIN l : l[j] \in NoLF
    BY <2>1, <2>2 DEF ToSet, NoLF
  <2>4. l \in Seq(NoLF)
    BY <2>1, <2>3
  <2>5. l \in Contents
    BY <2>2, <2>4 DEF Contents
  <2> QED
    BY <2>5 DEF l
<1>3. Lines \in Seq(Contents)
  <2>1. Lines \in [1 .. Len(typed) -> Contents] /\ Len(typed) \in Nat
    BY <1>1, <1>2 DEF Lines
  <2> QED
    BY <2>1, FunctionIsSeq
<1>4. DOMAIN Lines = DOMAIN typed /\ \A i \in DOMAIN typed : Lines[i] = Content(typed[i])
  BY DEF Lines
<1>5. Mapped(LineBytes, typed) = Bytes(Lines)
  <2>1. \A i \in DOMAIN typed : LineBytes(typed[i]) = OnWire[Lines[i]]
    BY <1>2, <1>4, ContentsFacts DEF LineBytes, OnWire
  <2>2. [i \in DOMAIN typed |-> LineBytes(typed[i])] = [i \in DOMAIN Lines |-> OnWire[Lines[i]]]
    BY <1>4, <2>1, Zenon
  <2> QED
    BY <2>2, Zenon DEF Mapped, Bytes, FlatMap
<1>6. OneByOne = AllHandled(NoUser, WithCR(Lines))
  <2>1. [i \in DOMAIN typed |-> Content(typed[i]) \o <<CR>>] = WithCR(Lines)
    BY <1>4, Zenon DEF WithCR
  <2> QED
    BY <2>1, Zenon DEF OneByOne
<1> QED
  BY <1>3, <1>5, <1>6

LEMMA FramedInit == Init => Framed
<1> SUFFICES ASSUME Init PROVE Framed
  OBVIOUS
<1>1. typed \in Inputs /\ unread = Mapped(LineBytes, typed) /\ msg = <<>> /\ user = NoUser /\ sent = <<>>
  BY DEF Init
<1>2. Lines \in Seq(Contents) /\ unread = Bytes(Lines) /\ <<>> \in Seq(Contents) /\ Lines \in Seq(Seq(Symbols))
  BY <1>1, LinesFacts, ContentsFacts
<1>3. NoEndLF(msg)
  BY <1>1, Zenon DEF NoEndLF
<1>4. msg \o unread = Bytes(Lines)
  <2>1. IsSeq(unread)
    BY <1>2, BytesFacts, SeqIsSeq
  <2> QED
    BY <1>1, <1>2, <2>1, ConcatEmpty, Zenon
<1>5. AllHandled(NoUser, WithCR(<<>>)) = [user |-> NoUser, sent |-> <<>>]
  <2>1. WithCR(<<>>) = <<>>
    BY DEF WithCR
  <2>2. NoUser \in Users
    BY DEF Users
  <2> QED
    BY <2>1, <2>2, AllHandledFacts
<1>6. Kept(<<>>) \o Kept(Lines) = Kept(Lines)
  <2>1. IsSeq(Kept(Lines)) /\ Kept(<<>>) = <<>>
    BY <1>2, KeptIs, SeqIsSeq
  <2> QED
    BY <2>1, ConcatEmpty, Zenon
<1>7. Handling(<<>>, Lines)
  BY <1>1, <1>4, <1>5, <1>6 DEF Handling
<1> QED
  BY <1>1, <1>2, <1>3, <1>7 DEF Framed

(* A turn: what it handled is added to what was handled before.            *)
Turned(turn, p, q1, q2) ==
    LET all == AllHandled(NoUser, WithCR(p \o q1))
        end == AllHandled(user, turn.lines)
    IN  /\ p \o q1 \in Seq(Contents)
        /\ Kept(p \o q1) \o Kept(q2) = Kept(Lines)
        /\ all.user = end.user
        /\ all.sent = sent \o end.sent

LEMMA HandlingTurn ==
    ASSUME NEW p \in Seq(Contents), NEW q \in Seq(Contents), NEW q1 \in Seq(Contents),
           NEW q2 \in Seq(Contents), NEW r, NEW turn, IsTurn(turn, q, r, q1, q2),
           Handling(p, q), user \in Users
    PROVE  Turned(turn, p, q1, q2)
<1>1. /\ p \in Seq(Seq(Symbols)) /\ q \in Seq(Seq(Symbols))
      /\ q1 \in Seq(Seq(Symbols)) /\ q2 \in Seq(Seq(Symbols))
  BY ContentsFacts
<1>2. p \o q1 \in Seq(Contents)
  BY ConcatFacts
<1>3. Kept(p \o q1) \o Kept(q2) = Kept(Lines)
  <2> DEFINE kp == Kept(p)
             k1 == Kept(q1)
             k2 == Kept(q2)
  <2>1. Kept(p \o q1) = kp \o k1
    BY <1>1, KeptIs, Zenon
  <2>2. kp \in Seq(Seq(Symbols)) /\ k1 \in Seq(Seq(Symbols)) /\ k2 \in Seq(Seq(Symbols))
    BY <1>1, KeptIs
  <2>3. k1 \o k2 = Kept(q)
    BY Zenon DEF IsTurn
  <2> HIDE DEF kp, k1, k2
  <2>4. (kp \o k1) \o k2 = kp \o (k1 \o k2)
    BY <2>2, LinesJoin, Zenon
  <2> QED
    BY <2>1, <2>3, <2>4, Zenon DEF Handling, kp, k2
<1>4. WithCR(p \o q1) = WithCR(p) \o WithCR(q1)
  BY <1>1, WithCRJoin
<1> DEFINE s1 == WithCR(p)
           s2 == WithCR(q1)
           had == AllHandled(NoUser, s1)
           end == AllHandled(had.user, s2)
<1>5. s1 \in Seq(Seq(Symbols)) /\ s2 \in Seq(Seq(Symbols)) /\ NoUser \in Users
  BY <1>1, WithCRIs DEF Users
<1>6. turn.lines = s2 /\ had.user = user /\ had.sent = sent
  BY DEF IsTurn, Handling
<1> HIDE DEF s1, s2
<1>7. /\ AllHandled(NoUser, s1 \o s2).user = end.user
      /\ AllHandled(NoUser, s1 \o s2).sent = had.sent \o end.sent
  BY <1>5, AllHandledJoin
<1> HIDE DEF had
<1> QED
  BY <1>2, <1>3, <1>4, <1>6, <1>7, Zenon DEF Turned, s1, s2

LEMMA FramedNext == SentOK /\ Framed /\ [Next]_vars => Framed'
<1> SUFFICES ASSUME SentOK, Framed, [Next]_vars PROVE Framed'
  OBVIOUS
<1>1. CASE Receive
  <2>1. PICK k \in 1 .. Len(unread) :
            LET turn == ReadChunk(msg, SubSeq(unread, 1, k))
                end == AllHandled(user, turn.lines)
            IN  /\ msg' = turn.msg
                /\ unread' = SubSeq(unread, k + 1, Len(unread))
                /\ user' = end.user
                /\ sent' = sent \o end.sent
                /\ typed' = typed
    BY <1>1 DEF Receive
  <2>2. PICK p \in Seq(Contents), q \in Seq(Contents) : Handling(p, q)
    BY DEF Framed
  <2> DEFINE chunk == SubSeq(unread, 1, k)
             rest == SubSeq(unread, k + 1, Len(unread))
             b == msg \o chunk
             turn == ReadChunk(msg, chunk)
             end == AllHandled(user, turn.lines)
  <2>3. /\ unread \in Seq(Symbols) /\ msg \in Seq(Symbols) /\ user \in Users
        /\ chunk \in Seq(Symbols) /\ rest \in Seq(Symbols)
    BY <2>1 DEF SentOK
  <2>4. chunk \o rest = unread
    <3>1. IsSeq(unread) /\ k \in 0 .. Len(unread)
      BY <2>1, <2>3, SeqIsSeq
    <3> QED
      BY <3>1, CutAt
  <2>5. /\ msg' = turn.msg /\ unread' = rest /\ user' = end.user /\ sent' = sent \o end.sent
        /\ typed' = typed
    BY <2>1
  <2> HIDE DEF chunk, rest
  <2>6. b \in Seq(Symbols) /\ b \o rest = Bytes(q)
    <3>1. b \o rest = msg \o (chunk \o rest)
      BY <2>3, TextsJoin, Zenon
    <3>2. b \in Seq(Symbols)
      BY <2>3, ConcatFacts
    <3> QED
      BY <2>2, <2>4, <3>1, <3>2, Zenon DEF Handling
  <2>7. PICK q1 \in Seq(Contents), q2 \in Seq(Contents) : IsTurn(turn, q, rest, q1, q2)
    <3> HIDE DEF b
    <3>1. b = msg \o chunk
      BY DEF b
    <3> QED
      BY <2>3, <2>6, <3>1, TurnKeepsLines
  <2> HIDE DEF turn, end, b
  <2>8. /\ p \o q1 \in Seq(Contents)
        /\ Kept(p \o q1) \o Kept(q2) = Kept(Lines)
        /\ AllHandled(NoUser, WithCR(p \o q1)).user = end.user
        /\ AllHandled(NoUser, WithCR(p \o q1)).sent = sent \o end.sent
    <3>1. Turned(turn, p, q1, q2)
      BY <2>2, <2>3, <2>7, HandlingTurn
    <3> QED
      BY <3>1, Zenon DEF Turned, end
  <2>9. Lines' = Lines
    BY <2>5 DEF Lines
  <2>10. Handling(p \o q1, q2)'
    <3>1. turn.msg \o rest = Bytes(q2)
      BY <2>7, Zenon DEF IsTurn
    <3> QED
      BY <2>5, <2>8, <2>9, <3>1, Zenon DEF Handling
  <2>11. NoEndLF(msg)'
    <3>1. NoEndLF(turn.msg)
      BY <2>7, Zenon DEF IsTurn
    <3> QED
      BY <2>5, <3>1, Zenon DEF NoEndLF
  <2>12. typed' \in Inputs
    BY <2>5 DEF Framed
  <2> DEFINE pp == p \o q1
  <2> HIDE DEF pp
  <2>13. pp \in Seq(Contents) /\ Handling(pp, q2)'
    BY <2>8, <2>10, Zenon DEF pp
  <2> QED
    BY <2>11, <2>12, <2>13, Zenon DEF Framed
<1>2. CASE UNCHANGED vars
  <2>1. Lines' = Lines /\ typed' = typed /\ msg' = msg
    BY <1>2 DEF Lines, vars
  <2>2. \A p, q : Handling(p, q)' = Handling(p, q)
    BY <1>2, <2>1 DEF Handling, vars
  <2>3. NoEndLF(msg)' /\ typed' \in Inputs
    BY <2>1 DEF Framed, NoEndLF
  <2> QED
    BY <2>2, <2>3, Zenon DEF Framed
<1> QED
  BY <1>1, <1>2 DEF Next, AllRead

LEMMA FramedAlways == Spec => [](SentOK /\ Framed)
<1>1. Init => SentOK /\ Framed
  BY SentOKInit, FramedInit
<1>2. SentOK /\ Framed /\ [Next]_vars => (SentOK /\ Framed)'
  BY SentOKNext, FramedNext
<1> QED
  BY <1>1, <1>2, PTL DEF Spec

(* Complete lines that nothing is kept of but the text after the last LF.  *)
LEMMA NothingLeft ==
    ASSUME NEW q \in Seq(Contents), NoEndLF(Bytes(q))
    PROVE  q = <<>> /\ Bytes(q) = <<>>
<1>1. SUFFICES ASSUME q # <<>> PROVE FALSE
  BY BytesFacts
<1>2. PICK z \in Seq(Contents), c \in Contents : q = Append(z, c)
  BY <1>1, FrontThenLast
<1> DEFINE y == Bytes(z)
           cr == c \o <<CR>>
<1>3. /\ y \in Seq(Symbols) /\ cr \in Seq(Symbols) /\ LF \in Symbols
      /\ z \in Seq(Seq(Symbols)) /\ c \in Seq(Symbols)
  BY BytesFacts, ContentsFacts
<1>4. Bytes(q) = y \o Append(cr, LF)
  <2>1. q = z \o <<c>>
    BY <1>2
  <2>2. Bytes(z \o <<c>>) = y \o Bytes(<<c>>)
    <3>1. <<c>> \in Seq(Seq(Symbols))
      BY <1>3
    <3> QED
      BY <1>3, <3>1, BytesFacts, Zenon
  <2>3. Bytes(<<c>>) = Append(cr, LF)
    <3>1. Bytes(<<c>>) = c \o <<CR, LF>>
      BY <1>3, BytesFacts, Zenon
    <3>2. c \o <<CR, LF>> = Append(cr, LF)
      BY <1>3, ContentsFacts, Zenon
    <3> QED
      BY <3>1, <3>2, Zenon
  <2> QED
    BY <2>1, <2>2, <2>3, Zenon
<1> HIDE DEF y, cr
<1>5. y \o Append(cr, LF) = Append(y \o cr, LF) /\ y \o cr \in Seq(Symbols)
  BY <1>3, ConcatFacts
<1> DEFINE w == y \o cr
<1> HIDE DEF w
<1>6. w \in Seq(Symbols) /\ Bytes(q) = Append(w, LF)
  BY <1>4, <1>5, Zenon DEF w
<1>7. Append(w, LF) # <<>> /\ Last(Append(w, LF)) = LF
  BY <1>3, <1>6, AppendEnds
<1> QED
  BY <1>6, <1>7, Zenon DEF NoEndLF

(* Once it has read everything, the server holds no line back and has      *)
(* answered each line that was typed, one by one and in order, but for     *)
(* empty ones: whatever the chunks were, and although the loop throws a    *)
(* lone CR away with the line before it.                                   *)
THEOREM EachLineAnswered == Spec => []NothingHeldBack
<1>1. ASSUME SentOK, Framed PROVE NothingHeldBack
  <2> SUFFICES ASSUME unread = <<>> PROVE msg = <<>> /\ Answered(sent) = Answered(OneByOne.sent)
    BY DEF NothingHeldBack
  <2>1. PICK p \in Seq(Contents), q \in Seq(Contents) : Handling(p, q)
    BY <1>1 DEF Framed
  <2>2. typed \in Inputs /\ NoEndLF(msg) /\ msg \in Seq(Symbols)
    BY <1>1 DEF Framed, SentOK
  <2>3. msg = Bytes(q)
    <3>1. IsSeq(msg)
      BY <2>2, SeqIsSeq
    <3> QED
      BY <2>1, <3>1, ConcatEmpty, Zenon DEF Handling
  <2>4. q = <<>> /\ msg = <<>>
    BY <2>2, <2>3, NothingLeft
  <2>5. Lines \in Seq(Seq(Symbols)) /\ p \in Seq(Seq(Symbols))
    BY <2>2, LinesFacts, ContentsFacts
  <2>6. Kept(p) = Kept(Lines)
    <3>1. IsSeq(Kept(p)) /\ Kept(<<>>) = <<>>
      BY <2>5, KeptIs, SeqIsSeq
    <3> QED
      BY <2>1, <2>4, <3>1, ConcatEmpty, Zenon DEF Handling
  <2>7. NoUser \in Users
    BY DEF Users
  <2>8. /\ Answered(AllHandled(NoUser, WithCR(p)).sent)
            = Answered(AllHandled(NoUser, WithCR(Kept(p))).sent)
        /\ Answered(AllHandled(NoUser, WithCR(Lines)).sent)
            = Answered(AllHandled(NoUser, WithCR(Kept(Lines))).sent)
    BY <2>5, <2>7, EmptyLinesChangeNothing
  <2>9. OneByOne = AllHandled(NoUser, WithCR(Lines))
    BY <2>2, LinesFacts
  <2>10. Answered(sent) = Answered(OneByOne.sent)
    BY <2>1, <2>6, <2>8, <2>9, Zenon DEF Handling
  <2> QED
    BY <2>4, <2>10
<1> QED
  BY <1>1, FramedAlways, PTL

-----------------------------------------------------------------------------
(* A line of a command and two arguments.                                  *)
Composed(cmd, k1, v1, k2, v2) == <<cmd, "\t", k1, "=">> \o v1 \o <<"\t", k2, "=">> \o v2
Argument(k, v) == <<k, "=">> \o v

Tabless == Symbols \ {"\t"}
Names == Tabless \ ({"=", BS, CR, "1", Unknown} \cup DOMAIN Lowercase)

LEMMA TablessFacts ==
    /\ Tabless \subseteq Symbols /\ Seq(Tabless) \subseteq Seq(Symbols) /\ "\t" \in Symbols
    /\ Names \subseteq Tabless /\ "=" \in Tabless /\ "\t" \notin Tabless
    /\ {"LOGIN", "PRIVMSG", "CHANMSG", "USERNAME", "PASSWORD", "TARGET", "MESSAGE"} \subseteq Names
<1>1. Tabless \subseteq Symbols
  BY DEF Tabless
<1>2. Seq(Tabless) \subseteq Seq(Symbols)
  BY <1>1, SeqMonotone
<1>3. "\t" \in Symbols /\ "=" \in Tabless
  BY DEF Tabless, Symbols, Separators
<1>4. DOMAIN Lowercase = {"ping", "cookie"}
  BY DEF Lowercase
<1>5. {"LOGIN", "PRIVMSG", "CHANMSG", "USERNAME", "PASSWORD", "TARGET", "MESSAGE"} \subseteq Tabless
  BY DEF Tabless, Symbols, Words
<1>6. {"LOGIN", "PRIVMSG", "CHANMSG", "USERNAME", "PASSWORD", "TARGET", "MESSAGE"}
          \cap {"=", BS, CR, "1", Unknown, "ping", "cookie"} = {}
  BY DEF BS, CR, Unknown
<1>7. {"LOGIN", "PRIVMSG", "CHANMSG", "USERNAME", "PASSWORD", "TARGET", "MESSAGE"} \subseteq Names
  BY <1>4, <1>5, <1>6 DEF Names
<1> QED
  BY <1>1, <1>2, <1>3, <1>7 DEF Names, Tabless

LEMMA ArgumentType ==
    ASSUME NEW k \in Names, NEW v \in Seq(Symbols)
    PROVE  /\ Argument(k, v) \in Seq(Symbols)
           /\ v \in Seq(Tabless) => Argument(k, v) \in Seq(Tabless)
           /\ Argument(k, v)[1] = k /\ Argument(k, v)[2] = "="
           /\ Len(Argument(k, v)) = Len(v) + 2 /\ Len(v) \in Nat
           /\ \A i \in 1 .. Len(v) : Argument(k, v)[i + 2] = v[i]
<1> DEFINE p == <<k, "=">>
<1>1. p \in Seq(Tabless) /\ Len(p) = 2 /\ p[1] = k /\ p[2] = "="
  BY TablessFacts
<1>2. p \in Seq(Symbols)
  BY <1>1, TablessFacts
<1> HIDE DEF p
<1>3. p \o v \in Seq(Symbols) /\ IsJoin(p \o v, p, v)
  BY <1>2, JoinFacts
<1>4. ASSUME v \in Seq(Tabless) PROVE p \o v \in Seq(Tabless)
  BY <1>1, <1>4, JoinFacts
<1> DEFINE a == p \o v
<1>5. Argument(k, v) = a
  BY DEF Argument, p
<1>6. Len(v) \in Nat
  OBVIOUS
<1> HIDE DEF a
<1>7. Len(a) = Len(v) + 2 /\ a[1] = k /\ a[2] = "=" /\ \A i \in 1 .. Len(v) : a[i + 2] = v[i]
  BY <1>1, <1>3, <1>6 DEF IsJoin, a
<1> QED
  BY <1>3, <1>4, <1>5, <1>6, <1>7 DEF a

(* Its key is what is before the first equals sign, its value the rest.    *)
LEMMA ArgumentParts ==
    ASSUME NEW k \in Names, NEW v \in Seq(Symbols)
    PROVE  LET a == Argument(k, v) IN ~IsCommand(a) /\ Key(a) = <<k>> /\ Value(a) = v
<1> DEFINE a == Argument(k, v)
<1>1. /\ a \in Seq(Symbols) /\ a[1] = k /\ a[2] = "=" /\ Len(a) = Len(v) + 2 /\ Len(v) \in Nat
      /\ \A i \in 1 .. Len(v) : a[i + 2] = v[i]
  BY ArgumentType
<1> HIDE DEF a
<1>2. DOMAIN a = 1 .. Len(a) /\ 2 \in DOMAIN a
  BY <1>1
<1>3. ~IsCommand(a)
  BY <1>1, <1>2 DEF IsCommand, ToSet
<1>4. EqualsSign(a) = 2
  <2> DEFINE I == {i \in 1 .. Len(a) : a[i] = "="}
  <2>1. EqualsSign(a) = IF I # {} THEN Min(I) ELSE 0
    BY DEF EqualsSign, SelectInSeq
  <2>2. 2 \in I /\ 1 \notin I /\ I \subseteq Nat \ {0}
    BY <1>1, <1>2, TablessFacts DEF Names
  <2> HIDE DEF I
  <2>3. Min(I) \in I /\ Min(I) <= 2
    BY <2>2, MinIs
  <2>4. Min(I) \in Nat /\ Min(I) # 0 /\ Min(I) # 1
    BY <2>2, <2>3
  <2> QED
    BY <2>1, <2>2, <2>3, <2>4
<1>5. Key(a) = <<k>>
  <2> DEFINE z == SubSeq(a, 1, 1)
  <2>1. z = <<k>>
    <3>1. z \in Seq(Symbols) /\ Len(z) = 1 /\ z[1] = a[1]
      BY <1>1
    <3>2. <<k>> \in Seq(Symbols) /\ Len(<<k>>) = 1 /\ <<k>>[1] = k
      BY TablessFacts
    <3> HIDE DEF z
    <3>3. \A i \in 1 .. 1 : z[i] = <<k>>[i]
      BY <1>1, <3>1, <3>2
    <3> QED
      BY <3>1, <3>2, <3>3, SameSeq
  <2>2. Key(a) = Upper(<<k>>)
    <3>1. EqualsSign(a) - 1 = 1
      BY <1>4
    <3> QED
      BY <2>1, <3>1 DEF Key
  <2>3. k \notin DOMAIN Lowercase
    BY DEF Names
  <2>4. Upper(<<k>>) = <<k>>
    BY <2>3 DEF Upper
  <2> QED
    BY <2>2, <2>4
<1>6. Value(a) = v
  <2>1. Value(a) = SubSeq(a, 3, Len(v) + 2)
    BY <1>1, <1>4 DEF Value
  <2> DEFINE w == SubSeq(a, 3, Len(v) + 2)
  <2>2. w \in Seq(Symbols) /\ Len(w) = Len(v)
    BY <1>1
  <2>3. \A i \in 1 .. Len(v) : w[i] = a[i + 2]
    BY <1>1
  <2> HIDE DEF w
  <2>4. w = v
    BY <1>1, <2>2, <2>3, SameSeq
  <2> QED
    BY <2>1, <2>4 DEF w
<1> QED
  BY <1>3, <1>5, <1>6 DEF a

LEMMA ThreeJoin ==
    ASSUME NEW x, NEW y, NEW z
    PROVE  <<x>> \o (<<y>> \o <<z>>) = <<x, y, z>>
<1> DEFINE T == {x, y, z}
           p == <<x>>
           q == <<y>>
           r == <<z>>
           qr == q \o r
           c == p \o qr
           d == <<x, y, z>>
<1>1. p \in Seq(T) /\ q \in Seq(T) /\ r \in Seq(T)
  BY SingleType
<1>2. Len(p) = 1 /\ p[1] = x /\ Len(q) = 1 /\ q[1] = y /\ Len(r) = 1 /\ r[1] = z
  OBVIOUS
<1>3. d \in Seq(T) /\ Len(d) = 3 /\ d[1] = x /\ d[2] = y /\ d[3] = z
  OBVIOUS
<1> HIDE DEF p, q, r, d, T
<1>4. qr \in Seq(T) /\ IsJoin(qr, q, r)
  BY <1>1, JoinFacts
<1> HIDE DEF qr
<1>5. c \in Seq(T) /\ IsJoin(c, p, qr)
  BY <1>1, <1>4, JoinFacts
<1> HIDE DEF c
<1>6. Len(qr) = 2 /\ qr[1] = y /\ qr[2] = z
  <2>1. Len(qr) = 2
    BY <1>2, <1>4 DEF IsJoin
  <2>2. 1 \in 1 .. Len(q) /\ 1 \in 1 .. Len(r) /\ Len(q) + 1 = 2
    BY <1>2
  <2> QED
    BY <1>2, <1>4, <2>1, <2>2 DEF IsJoin
<1>7. Len(c) = 3 /\ c[1] = x /\ c[2] = y /\ c[3] = z
  <2>1. Len(c) = 3
    BY <1>2, <1>5, <1>6 DEF IsJoin
  <2>2. 1 \in 1 .. Len(p) /\ 1 \in 1 .. Len(qr) /\ 2 \in 1 .. Len(qr) /\ Len(p) + 1 = 2 /\ Len(p) + 2 = 3
    BY <1>2, <1>6
  <2>3. c[1] = x
    BY <1>2, <1>5, <2>2 DEF IsJoin
  <2>4. c[2] = y
    BY <1>5, <1>6, <2>2 DEF IsJoin
  <2>5. c[3] = z
    BY <1>5, <1>6, <2>2 DEF IsJoin
  <2> QED
    BY <2>1, <2>3, <2>4, <2>5
<1>8. c = d
  BY <1>3, <1>5, <1>7
<1> QED
  BY <1>8 DEF c, d, p, q, qr, r

(* The tabs cut such a line into the command and its two arguments.        *)
LEMMA ComposedArguments ==
    ASSUME NEW cmd \in Names, NEW k1 \in Names, NEW k2 \in Names,
           NEW v1 \in Seq(Tabless), NEW v2 \in Seq(Tabless)
    PROVE  /\ Composed(cmd, k1, v1, k2, v2) \in Seq(Symbols)
           /\ Arguments(Composed(cmd, k1, v1, k2, v2) \o <<CR>>) =
                  <<<<cmd>>, Argument(k1, v1), Argument(k2, v2)>>
<1> DEFINE tab == "\t"
           c == <<cmd>>
           a == Argument(k1, v1)
           b == Argument(k2, v2)
           line == Composed(cmd, k1, v1, k2, v2)
<1>1. c \in Seq(Tabless) /\ a \in Seq(Tabless) /\ b \in Seq(Tabless)
  BY TablessFacts, SeqMonotone, ArgumentType
<1>2. c \in Seq(Symbols) /\ a \in Seq(Symbols) /\ b \in Seq(Symbols) /\ tab \in Symbols
  BY <1>1, TablessFacts
<1>3. \A s, t, u \in Seq(Symbols) : s \o t \in Seq(Symbols) /\ (s \o t) \o u = s \o (t \o u)
  BY ConcatFacts, SMTT(30)
<1>4. line = Append(c, tab) \o (Append(a, tab) \o b)
  <2> DEFINE p1 == <<k1, "=">>
             p2 == <<k2, "=">>
             q1 == <<cmd, tab, k1, "=">>
             q2 == <<tab, k2, "=">>
             t == <<tab>>
             ct == <<cmd, tab>>
  <2>1. /\ p1 \in Seq(Symbols) /\ p2 \in Seq(Symbols) /\ t \in Seq(Symbols) /\ ct \in Seq(Symbols)
        /\ v1 \in Seq(Symbols) /\ v2 \in Seq(Symbols)
    BY TablessFacts
  <2>2. q1 = ct \o p1
    OBVIOUS
  <2>3. q2 = t \o p2
    OBVIOUS
  <2>4. line = ((q1 \o v1) \o q2) \o v2
    BY DEF Composed
  <2>5. a = p1 \o v1 /\ b = p2 \o v2
    BY DEF Argument
  <2>6. ct = Append(c, tab)
    OBVIOUS
  <2>7. Append(a, tab) = a \o t
    BY <1>2
  <2> HIDE DEF p1, p2, q1, q2, t, ct, a, b, c, line, tab
  <2>8. q1 \o v1 = ct \o a
    BY <2>1, <2>2, <2>5, TextsJoin, Zenon
  <2>9. q2 \o v2 = t \o b
    BY <2>1, <2>3, <2>5, TextsJoin, Zenon
  <2> DEFINE ca == ct \o a
             tb == t \o b
  <2>10. ca \in Seq(Symbols) /\ q2 \in Seq(Symbols) /\ tb \in Seq(Symbols)
    BY <1>2, <1>3, <2>1, <2>3, Zenon
  <2>11. (ca \o q2) \o v2 = ca \o (q2 \o v2)
    <3>1. ca \in Seq(Symbols) /\ q2 \in Seq(Symbols) /\ v2 \in Seq(Symbols)
      BY <2>1, <2>10
    <3> HIDE DEF ca
    <3> QED
      BY <3>1, TextsJoin, ZenonT(30)
  <2>12. ca \o tb = ct \o (a \o tb)
    <3>1. ct \in Seq(Symbols) /\ a \in Seq(Symbols) /\ tb \in Seq(Symbols)
      BY <1>2, <2>1, <2>10
    <3> HIDE DEF tb
    <3> QED
      BY <3>1, TextsJoin, ZenonT(30)
  <2>13. (a \o t) \o b = a \o tb
    <3>1. a \in Seq(Symbols) /\ t \in Seq(Symbols) /\ b \in Seq(Symbols)
      BY <1>2, <2>1
    <3> QED
      BY <3>1, TextsJoin, ZenonT(30)
  <2> QED
    BY <2>4, <2>6, <2>7, <2>8, <2>9, <2>11, <2>12, <2>13, Zenon
<1>5. line \in Seq(Symbols) /\ Append(a, tab) \o b \in Seq(Symbols)
  <2>1. Append(c, tab) \in Seq(Symbols) /\ Append(a, tab) \in Seq(Symbols)
    BY <1>2
  <2> QED
    BY <1>2, <1>3, <1>4, <2>1
<1>6. Split(line, tab) = <<c, a, b>>
  <2> HIDE DEF a, b, c, line
  <2>1. tab \notin Tabless
    BY TablessFacts
  <2> HIDE DEF tab
  <2>2. Split(c, tab) = <<c>> /\ Split(a, tab) = <<a>> /\ Split(b, tab) = <<b>>
    BY <1>1, <2>1, SplitNone
  <2> DEFINE ab == Append(a, tab) \o b
  <2>3. Split(ab, tab) = Split(a, tab) \o Split(b, tab)
    BY <1>2, SplitJoin
  <2>4. ab \in Seq(Symbols) /\ line = Append(c, tab) \o ab
    BY <1>4, <1>5
  <2> HIDE DEF ab
  <2>5. Split(line, tab) = Split(c, tab) \o Split(ab, tab)
    BY <1>2, <2>4, SplitJoin
  <2>6. Split(line, tab) = <<c>> \o (<<a>> \o <<b>>)
    BY <2>2, <2>3, <2>5
  <2>7. <<c>> \o (<<a>> \o <<b>>) = <<c, a, b>>
    BY ThreeJoin
  <2> QED
    BY <2>6, <2>7
<1>7. WithoutCR(line \o <<CR>>) = line
  <2> HIDE DEF line
  <2>1. line \o <<CR>> = Append(line, CR) /\ CR \in Symbols
    BY <1>5, ContentsFacts DEF NoLF
  <2>2. Append(line, CR) # <<>> /\ Last(Append(line, CR)) = CR /\ Front(Append(line, CR)) = line
    BY <1>5, <2>1, AppendEnds
  <2> QED
    BY <2>1, <2>2 DEF WithoutCR
<1> QED
  BY <1>5, <1>6, <1>7 DEF Arguments, a, b, c, tab

(* What bytesToStd makes of such a line: it is refused only for a value.   *)
LEMMA UpperName == ASSUME NEW k \in Names PROVE Upper(<<k>>) = <<k>>
<1>1. k \notin DOMAIN Lowercase
  BY DEF Names
<1> QED
  BY <1>1 DEF Upper

LEMMA NameFacts ==
    ASSUME NEW k \in Names
    PROVE  Alphabetic(<<k>>) /\ IsCommand(<<k>>) /\ <<k>> # <<>>
<1>1. ToSet(<<k>>) = {k} /\ <<k>> # <<>>
  BY DEF ToSet
<1>2. k \notin {BS, CR, "1", Unknown, "="}
  BY DEF Names
<1> QED
  BY <1>1, <1>2 DEF Alphabetic, IsCommand

IsParsed(line, cmd, k1, v1, k2, v2) ==
    /\ Command(line) = <<cmd>>
    /\ DOMAIN Std(line) = {<<k1>>, <<k2>>}
    /\ Std(line)[<<k1>>] = ServerUnescape(v1)
    /\ Std(line)[<<k2>>] = ServerUnescape(v2)
    /\ IsSeq(ParseChecks(line))
    /\ (\A k \in DOMAIN ParseChecks(line) : ~ParseChecks(line)[k].raised)
           <=> ~Refused(v1) /\ ~Refused(v2)

LEMMA ComposedParse ==
    ASSUME NEW cmd \in Names, NEW k1 \in Names, NEW k2 \in Names, k1 # k2,
           NEW v1 \in Seq(Tabless), NEW v2 \in Seq(Tabless)
    PROVE  IsParsed(Composed(cmd, k1, v1, k2, v2) \o <<CR>>, cmd, k1, v1, k2, v2)
<1> DEFINE line == Composed(cmd, k1, v1, k2, v2) \o <<CR>>
           args == Arguments(line)
<1>1. args = <<<<cmd>>, Argument(k1, v1), Argument(k2, v2)>>
  BY ComposedArguments, ZenonT(60)
<1>2. line \in Seq(Symbols)
  BY ComposedArguments, LineWithCR
<1> HIDE DEF line
<1>3. /\ DOMAIN args = {1, 2, 3} /\ Len(args) = 3
      /\ args[1] = <<cmd>> /\ args[2] = Argument(k1, v1) /\ args[3] = Argument(k2, v2)
  <2> HIDE DEF args
  <2> QED
    BY <1>1
<1>4. args \in Seq(Seq(Symbols))
  BY <1>2, ArgumentsType
<1> HIDE DEF args
<1>5. v1 \in Seq(Symbols) /\ v2 \in Seq(Symbols)
  BY TablessFacts
<1>6. /\ IsCommand(args[1]) /\ args[1] # <<>>
      /\ ~IsCommand(args[2]) /\ Key(args[2]) = <<k1>> /\ Value(args[2]) = v1
      /\ ~IsCommand(args[3]) /\ Key(args[3]) = <<k2>> /\ Value(args[3]) = v2
  BY <1>3, <1>5, ArgumentParts, NameFacts
<1>7. Command(line) = <<cmd>>
  <2> DEFINE I == {i \in 1 .. Len(args) : IsCommand(args[i]) /\ args[i] # <<>>}
             n == IF I # {} THEN Min(I) ELSE 0
  <2>1. Command(line) = IF n = 0 THEN <<>> ELSE Upper(args[n])
    BY DEF Command, SelectInSeq, args
  <2>2. I = {1}
    BY <1>3, <1>6
  <2> HIDE DEF I
  <2>3. Min(I) \in I
    BY <2>2, MinIs
  <2>4. n = 1
    BY <2>2, <2>3
  <2> HIDE DEF n
  <2> QED
    <3>1. Command(line) = Upper(args[1])
      BY <2>1, <2>4
    <3>2. Upper(<<cmd>>) = <<cmd>>
      BY UpperName
    <3> QED
      BY <1>3, <3>1, <3>2
<1>8. /\ DOMAIN Std(line) = {<<k1>>, <<k2>>}
      /\ Std(line)[<<k1>>] = ServerUnescape(v1) /\ Std(line)[<<k2>>] = ServerUnescape(v2)
  <2> DEFINE pairs == {i \in DOMAIN args : ~IsCommand(args[i])}
             same(key) == {i \in pairs : Key(args[i]) = key}
             last(key) == Max(same(key))
  <2>1. Std(line) = [key \in {Key(args[i]) : i \in pairs} |-> ServerUnescape(Value(args[last(key)]))]
    BY DEF Std, args
  <2>2. pairs = {2, 3}
    BY <1>3, <1>6
  <2> HIDE DEF pairs
  <2>3. {Key(args[i]) : i \in pairs} = {<<k1>>, <<k2>>}
    BY <1>6, <2>2
  <2>4. <<k1>> # <<k2>>
    OBVIOUS
  <2>5. same(<<k1>>) = {2} /\ same(<<k2>>) = {3}
    BY <1>6, <2>2, <2>4
  <2> HIDE DEF same
  <2>6. last(<<k1>>) = 2 /\ last(<<k2>>) = 3
    <3>1. \A m \in {2, 3} : 3 \in Nat /\ {m} \subseteq 0 .. 3 /\ {m} # {}
      OBVIOUS
    <3>2. \A m \in {2, 3} : Max({m}) \in {m}
      BY <3>1, MaxIs
    <3> QED
      BY <2>5, <3>2
  <2> HIDE DEF last
  <2>7. Std(line) = [key \in {<<k1>>, <<k2>>} |-> ServerUnescape(Value(args[last(key)]))]
    BY <2>1, <2>3
  <2> QED
    BY <1>6, <2>6, <2>7
<1> DEFINE second(i) == \E j \in 1 .. i - 1 : IsCommand(args[j]) /\ args[j] # <<>>
           value(i) == Value(args[i])
           bad(i) == IF Refused(value(i)) THEN <<BS, BadCharacter(value(i))>> ELSE <<>>
           c1(i) == Check(second(i), "MULTIPLE_CMDS", <<>>)
           c2(i) == Check(~Alphabetic(Key(args[i])), "INVALID_KEYWORD", <<>>)
           c3(i) == Check(Refused(value(i)), "DONT_KNOW", bad(i))
           s == [i \in DOMAIN args |-> IF IsCommand(args[i]) THEN <<c1(i)>>
                                       ELSE <<c2(i), c3(i)>>]
           checks == ParseChecks(line)
<1>9. checks = FlattenSeq(s)
  BY DEF ParseChecks, args
<1>10. s[1] = <<c1(1)>> /\ s[2] = <<c2(2), c3(2)>> /\ s[3] = <<c2(3), c3(3)>> /\ DOMAIN s = {1, 2, 3}
  BY <1>3, <1>6
<1>11. ~c1(1).raised
  BY DEF Check
<1>12. ~c2(2).raised /\ ~c2(3).raised
  BY <1>6, NameFacts DEF Check
<1>13. c3(2).raised = Refused(v1) /\ c3(3).raised = Refused(v2)
  BY <1>6 DEF Check
<1> HIDE DEF c1, c2, c3, checks
<1>14. IsSeq(s)
  <2>1. s \in [1 .. 3 -> {s[i] : i \in DOMAIN s}]
    BY <1>3
  <2> HIDE DEF s
  <2> QED
    BY <1>10, <2>1, FunctionIsSeq DEF IsSeq
<1> HIDE DEF s
<1>15. \A i \in DOMAIN s : IsSeq(s[i])
  BY <1>10, SingleIsSeq, PairIsSeq
<1>16. /\ IsSeq(checks)
       /\ \A k \in DOMAIN checks : \E i \in DOMAIN s : \E j \in DOMAIN s[i] : checks[k] = s[i][j]
  BY <1>9, <1>14, <1>15, FlattenElements
<1>17. ASSUME ~Refused(v1), ~Refused(v2), NEW i \in DOMAIN s, NEW j \in DOMAIN s[i]
       PROVE  ~s[i][j].raised
  <2>1. CASE i = 1
    BY <1>10, <1>11, <2>1
  <2>2. CASE i = 2
    <3>1. \A m \in DOMAIN <<c2(2), c3(2)>> : <<c2(2), c3(2)>>[m] \in {c2(2), c3(2)}
      BY PairIsSeq
    <3> QED
      BY <1>10, <1>12, <1>13, <1>17, <2>2, <3>1
  <2>3. CASE i = 3
    <3>1. \A m \in DOMAIN <<c2(3), c3(3)>> : <<c2(3), c3(3)>>[m] \in {c2(3), c3(3)}
      BY PairIsSeq
    <3> QED
      BY <1>10, <1>12, <1>13, <1>17, <2>3, <3>1
  <2> QED
    BY <1>10, <2>1, <2>2, <2>3
<1>18. (\A k \in DOMAIN checks : ~checks[k].raised) => ~Refused(v1) /\ ~Refused(v2)
  <2>1. (\A k \in DOMAIN checks : ~checks[k].raised) =>
            \A i \in DOMAIN args : ~IsCommand(args[i]) => ~Refused(Value(args[i]))
    BY <1>2, ParseChecksAre DEF checks, args
  <2>2. 2 \in DOMAIN args /\ 3 \in DOMAIN args
    BY <1>3
  <2> QED
    BY <1>6, <2>1, <2>2
<1>19. ~Refused(v1) /\ ~Refused(v2) => \A k \in DOMAIN checks : ~checks[k].raised
  BY <1>16, <1>17
<1> QED
  BY <1>7, <1>8, <1>16, <1>18, <1>19 DEF IsParsed, line, checks

(* A client reads any text as one of the symbols, and one that has no      *)
(* backslash as it is.                                                     *)
LEMMA ClientReadType ==
    ASSUME NEW w \in Seq(Symbols)
    PROVE  ClientUnescape(w) \in Seq(Symbols)
<1> DEFINE A == Symbols
           S == {v \in Seq(A) : ClientUnescape(v) \in Seq(A)}
<1>1. BS \in A /\ Unknown \in A /\ \A c \in DOMAIN Separator : Separator[c] \in A
  BY EscapeTable DEF Symbols
<1>2. <<>> \in Seq(A) /\ <<BS>> \in Seq(A)
  BY <1>1
<1>3. <<>> \in S /\ <<BS>> \in S
  BY <1>2, ReadEmpty, ReadLast
<1> HIDE DEF A
<1>4. ASSUME NEW a \in A \ {BS}, NEW z \in Seq(A), z \in S PROVE Cons(a, z) \in S
  <2>1. \A v \in Seq(A) : Cons(a, v) \in Seq(A)
    BY FrontFacts
  <2> QED
    BY <1>4, <2>1, ReadFront
<1>5. ASSUME NEW c \in A, NEW z \in Seq(A), z \in S PROVE Cons(BS, Cons(c, z)) \in S
  <2> DEFINE y == Cons(BS, Cons(c, z))
             q == IF c = BS THEN <<BS>> ELSE Unlettered(c, <<Unknown>>)
  <2>1. y \in Seq(A)
    BY <1>1, FrontFacts
  <2>2. ClientUnescape(y) = q \o ClientUnescape(z)
    BY <1>1, ReadPair
  <2>3. q \in Seq(A)
    <3>1. /\ <<BS>> \in Seq(A) /\ <<Unknown>> \in Seq(A)
          /\ \A s \in DOMAIN Separator : <<Separator[s]>> \in Seq(A)
      BY <1>1, SingleType
    <3> QED
      BY <3>1 DEF Unlettered
  <2>4. ClientUnescape(z) \in Seq(A)
    BY <1>5
  <2> HIDE DEF q, y
  <2>5. ClientUnescape(y) \in Seq(A)
    BY <2>2, <2>3, <2>4, ConcatFacts
  <2> QED
    BY <2>1, <2>5 DEF y
<1> HIDE DEF S
<1>6. Seq(A) \subseteq S
  BY <1>3, <1>4, <1>5, PairInduction
<1> QED
  BY <1>6 DEF S, A

PlainTexts == Seq(Tabless \ {BS})

LEMMA PlainIs ==
    ASSUME NEW v \in PlainTexts
    PROVE  /\ v \in Seq(Tabless) /\ v \in Seq(Symbols)
           /\ ServerUnescape(v) = v /\ ClientUnescape(v) = v /\ ~Refused(v)
<1> DEFINE T == Tabless \ {BS}
           S == {x \in Seq(T) : ClientUnescape(x) = x}
<1>1. <<>> \in S
  BY ReadEmpty
<1>2. ASSUME NEW a \in T, NEW z \in Seq(T), z \in S PROVE Cons(a, z) \in S
  <2>1. Cons(a, z) \in Seq(T) /\ a \in T \ {BS}
    BY FrontFacts
  <2> HIDE DEF T
  <2>2. ClientUnescape(Cons(a, z)) = Cons(a, ClientUnescape(z))
    BY <2>1, ReadFront
  <2> QED
    BY <1>2, <2>1, <2>2
<1>3. v \in Seq(T)
  BY DEF PlainTexts
<1>4. T \subseteq Tabless /\ T \subseteq Clean /\ \A i \in DOMAIN v : v[i] # BS
  <2>1. \A i \in DOMAIN v : v[i] \in T
    BY <1>3, ElementType
  <2> QED
    BY <2>1, TablessFacts, CleanFacts
<1> HIDE DEF S, T
<1>5. v \in S
  BY <1>1, <1>2, <1>3, TextInduction
<1>6. v \in Seq(Tabless) /\ v \in Seq(Clean)
  BY <1>3, <1>4, SeqMonotone
<1>7. ServerUnescape(v) = v /\ ~Refused(v)
  BY <1>4, <1>6, NotRefusedClean
<1>8. v \in Seq(Symbols)
  BY <1>6, TablessFacts
<1> QED
  BY <1>5, <1>6, <1>7, <1>8 DEF S

-----------------------------------------------------------------------------
(* A line that raises nothing has its effects, any other is answered with  *)
(* a complaint.                                                            *)
Raises(checks) == \E k \in DOMAIN checks : checks[k].raised
Mistaken(u, line) ==
    Raises(ParseChecks(line)) \/ Raises(CommandChecks(u, Command(line), Std(line)))

LEMMA HandledEither ==
    ASSUME NEW u, NEW line, IsSeq(ParseChecks(line))
    PROVE  /\ Mistaken(u, line) =>
                  \E e : Handled(u, line) = [user |-> u, sent |-> <<Complaint(e)>>]
           /\ ~Mistaken(u, line) =>
                  Handled(u, line) =
                      [user |-> IF Command(line) = <<"LOGIN">> THEN Arg(Std(line), "USERNAME") ELSE u,
                       sent |-> Effects(u, Command(line), Std(line))]
<1> DEFINE cmd == Command(line)
           std == Std(line)
           parse == ParseChecks(line)
           command == CommandChecks(u, cmd, std)
           checks == parse \o command
           first == FirstRaised(checks)
           done == [user |-> IF cmd = <<"LOGIN">> THEN Arg(std, "USERNAME") ELSE u,
                    sent |-> Effects(u, cmd, std)]
<1>1. Handled(u, line) = IF first # 0
          THEN [user |-> u, sent |-> <<Complaint(checks[first].error)>>]
          ELSE done
  BY DEF Handled
<1>2. IsSeq(parse) /\ IsSeq(command)
  BY CommandChecksSeq
<1>3. Mistaken(u, line) <=> Raises(parse) \/ Raises(command)
  BY DEF Mistaken
<1> HIDE DEF cmd, std, parse, command, done
<1>4. IsJoin(checks, parse, command)
  <2> DEFINE T == {parse[i] : i \in DOMAIN parse} \cup {command[i] : i \in DOMAIN command}
  <2>1. parse \in Seq(T) /\ command \in Seq(T)
    BY <1>2 DEF IsSeq
  <2> HIDE DEF T
  <2> QED
    BY <2>1, JoinFacts
<1> HIDE DEF checks
<1>5. /\ Len(parse) \in Nat /\ DOMAIN parse = 1 .. Len(parse)
      /\ Len(command) \in Nat /\ DOMAIN command = 1 .. Len(command)
      /\ Len(checks) = Len(parse) + Len(command)
  BY <1>2, <1>4 DEF IsSeq, IsJoin
<1>6. /\ first \in 0 .. Len(checks)
      /\ first = 0 => \A i \in 1 .. Len(checks) : ~checks[i].raised
      /\ first # 0 => checks[first].raised
  <2>1. Len(checks) \in Nat
    BY <1>5
  <2> QED
    BY <2>1, FirstRaisedIs, Zenon
<1> HIDE DEF first
<1>7. \A i \in 1 .. Len(parse) : i \in 1 .. Len(checks) /\ checks[i] = parse[i]
  BY <1>4, <1>5 DEF IsJoin
<1>8. \A i \in 1 .. Len(command) :
           Len(parse) + i \in 1 .. Len(checks) /\ checks[Len(parse) + i] = command[i]
  BY <1>4, <1>5 DEF IsJoin
<1>9. ASSUME Raises(parse) \/ Raises(command) PROVE first # 0
  BY <1>5, <1>6, <1>7, <1>8, <1>9 DEF Raises
<1>10. ASSUME first # 0 PROVE Raises(parse) \/ Raises(command)
  <2>1. CASE first \in 1 .. Len(parse)
    BY <1>5, <1>6, <1>7, <1>10, <2>1 DEF Raises
  <2>2. CASE first \notin 1 .. Len(parse)
    <3>1. first - Len(parse) \in 1 .. Len(command) /\ Len(parse) + (first - Len(parse)) = first
      BY <1>5, <1>6, <1>10, <2>2
    <3>2. checks[first] = command[first - Len(parse)]
      BY <1>8, <3>1
    <3> QED
      BY <1>5, <1>6, <1>10, <3>1, <3>2 DEF Raises
  <2> QED
    BY <2>1, <2>2
<1> QED
  BY <1>1, <1>3, <1>9, <1>10 DEF done, cmd, std

LEMMA FourChecks ==
    ASSUME NEW a, NEW b, NEW c, NEW d
    PROVE  Raises(<<a, b, c, d>>) <=> a.raised \/ b.raised \/ c.raised \/ d.raised
  BY DEF Raises

-----------------------------------------------------------------------------
(* What of some lines goes to the targets, and what is read there.         *)
Choosing(T) == [l \in T |-> IF l.to = "target" THEN <<l>> ELSE <<>>]

LEMMA RelayedIs ==
    ASSUME NEW T
    PROVE  /\ Maps(Choosing(T), T, T)
           /\ \A s \in Seq(T) : RelayedOf(s) = FlatMap(Choosing(T), s)
<1>1. \A l \in T : <<l>> \in Seq(T) /\ <<>> \in Seq(T)
  OBVIOUS
<1>2. Maps(Choosing(T), T, T)
  BY <1>1 DEF Maps, Choosing
<1>3. ASSUME NEW s \in Seq(T) PROVE RelayedOf(s) = FlatMap(Choosing(T), s)
  <2> DEFINE f == [i \in DOMAIN s |-> IF s[i].to = "target" THEN <<s[i]>> ELSE <<>>]
             g == [i \in DOMAIN s |-> Choosing(T)[s[i]]]
  <2>1. \A i \in DOMAIN s : s[i] \in T
    BY ElementType
  <2>2. f = g
    BY <2>1 DEF Choosing
  <2> QED
    BY <2>2 DEF RelayedOf, FlatMap
<1> QED
  BY <1>2, <1>3

LEMMA RelayedJoin ==
    ASSUME NEW T, NEW s \in Seq(T), NEW t \in Seq(T)
    PROVE  /\ RelayedOf(s \o t) = RelayedOf(s) \o RelayedOf(t)
           /\ RelayedOf(s) \in Seq(T)
<1> DEFINE f == Choosing(T)
<1>1. Maps(f, T, T) /\ \A z \in Seq(T) : RelayedOf(z) = FlatMap(f, z)
  BY RelayedIs
<1> HIDE DEF f
<1>2. s \o t \in Seq(T)
  BY ConcatFacts
<1>3. FlatMap(f, s \o t) = FlatMap(f, s) \o FlatMap(f, t) /\ FlatMap(f, s) \in Seq(T)
  BY <1>1, FlatMapJoin
<1> QED
  BY <1>1, <1>2, <1>3

LEMMA RelayedOne ==
    /\ RelayedOf(<<>>) = <<>>
    /\ \A l : RelayedOf(<<l>>) = IF l.to = "target" THEN <<l>> ELSE <<>>
<1>1. RelayedOf(<<>>) = <<>>
  <2> DEFINE f == Choosing({})
  <2>1. RelayedOf(<<>>) = FlatMap(f, <<>>)
    <3>1. <<>> \in Seq({})
      OBVIOUS
    <3> QED
      BY <3>1, RelayedIs
  <2> QED
    BY <2>1, FlatMapEmpty
<1>2. ASSUME NEW l PROVE RelayedOf(<<l>>) = IF l.to = "target" THEN <<l>> ELSE <<>>
  <2> DEFINE T == {l}
             f == Choosing(T)
  <2>1. <<l>> \in Seq(T)
    OBVIOUS
  <2>2. RelayedOf(<<l>>) = FlatMap(f, <<l>>)
    BY <2>1, RelayedIs
  <2>3. FlatMap(f, <<l>>) = f[l]
    BY FlatMapSingle
  <2> QED
    BY <2>2, <2>3 DEF Choosing
<1> QED
  BY <1>1, <1>2

LEMMA ReadOfFacts ==
    /\ ReadOf(<<>>) = <<>>
    /\ \A l : ReadOf(<<l>>) = << <<ClientUnescape(l.args.TARGET), ClientUnescape(l.args.MESSAGE)>> >>
<1>1. ReadOf(<<>>) = <<>>
  BY DEF ReadOf
<1>2. ASSUME NEW l
      PROVE  ReadOf(<<l>>) = << <<ClientUnescape(l.args.TARGET), ClientUnescape(l.args.MESSAGE)>> >>
  <2> DEFINE s == <<l>>
             g(x) == <<ClientUnescape(x.args.TARGET), ClientUnescape(x.args.MESSAGE)>>
  <2>1. ReadOf(s) = [i \in DOMAIN s |-> g(s[i])]
    BY DEF ReadOf
  <2>2. DOMAIN s = {1} /\ s[1] = l
    OBVIOUS
  <2> HIDE DEF s, g
  <2>3. ReadOf(s) = [i \in {1} |-> g(l)]
    BY <2>1, <2>2
  <2>4. [i \in {1} |-> g(l)] = <<g(l)>>
    OBVIOUS
  <2> QED
    BY <2>3, <2>4 DEF s, g
<1> QED
  BY <1>1, <1>2

(* What a client reads because of the lines that the server sends.         *)
Reads(lines) == ReadOf(RelayedOf(lines))

LEMMA ReadsAnswer ==
    /\ \A l : l.to # "target" => Reads(<<l>>) = <<>>
    /\ \A e : Reads(<<Complaint(e)>>) = <<>>
    /\ \A l, x : /\ l.to = "target"
                 /\ x = <<>> \/ \E k : k.to # "target" /\ x = <<k>>
                 => Reads(<<l>> \o x) =
                        << <<ClientUnescape(l.args.TARGET), ClientUnescape(l.args.MESSAGE)>> >>
<1>1. \A l : l.to # "target" => Reads(<<l>>) = <<>>
  BY RelayedOne, ReadOfFacts DEF Reads
<1>2. ASSUME NEW e PROVE Complaint(e).to # "target"
  BY DEF Complaint, Sent
<1>3. ASSUME NEW l, NEW x, l.to = "target", x = <<>> \/ \E k : k.to # "target" /\ x = <<k>>
      PROVE  Reads(<<l>> \o x) =
                 << <<ClientUnescape(l.args.TARGET), ClientUnescape(l.args.MESSAGE)>> >>
  <2> DEFINE ls == <<l>>
  <2>1. IsSeq(ls) /\ RelayedOf(ls) = ls
    BY <1>3, RelayedOne, SingleIsSeq
  <2>2. RelayedOf(x) = <<>> /\ IsSeq(x)
    BY <1>3, RelayedOne, SingleIsSeq, EmptyIsSeq
  <2>3. RelayedOf(ls \o x) = ls \o <<>>
    <3> DEFINE T == {ls[i] : i \in DOMAIN ls} \cup {x[i] : i \in DOMAIN x}
    <3>1. ls \in Seq(T) /\ x \in Seq(T)
      BY <2>1, <2>2 DEF IsSeq
    <3> HIDE DEF T, ls
    <3>2. RelayedOf(ls \o x) = RelayedOf(ls) \o RelayedOf(x)
      BY <3>1, RelayedJoin
    <3> QED
      BY <2>1, <2>2, <3>2
  <2>4. ls \o <<>> = ls
    BY <2>1, ConcatEmpty
  <2> QED
    BY <2>3, <2>4, ReadOfFacts DEF Reads
<1> QED
  BY <1>1, <1>2, <1>3

-----------------------------------------------------------------------------
(* What the server makes of a message, and a client of what it sends on.   *)
MessageIs(h, u, cmd, target, w) ==
    /\ h.user = u
    /\ Reads(h.sent) = IF u # NoUser /\ target \in Targets(<<cmd>>) /\ ~Refused(w)
                       THEN << <<target, ClientUnescape(w)>> >> ELSE <<>>

LEMMA MessageEffects ==
    ASSUME NEW u, NEW cmd \in {"PRIVMSG", "CHANMSG"}, NEW args
    PROVE  LET read == << <<ClientUnescape(ServerEscape(Arg(args, "TARGET"))),
                            ClientUnescape(ServerEscape(Arg(args, "MESSAGE")))>> >>
           IN  Reads(Effects(u, <<cmd>>, args)) = read
<1> DEFINE text == [SOURCE |-> u, TARGET |-> Arg(args, "TARGET"),
                    TYPE |-> IF Has(args, "TYPE") THEN Arg(args, "TYPE") ELSE <<"NORMAL">>,
                    MESSAGE |-> Arg(args, "MESSAGE")]
           k == Sent("target", cmd, text)
           l == Sent("client", "PRIVMSG", text)
           e == Effects(u, <<cmd>>, args)
           read == << <<ClientUnescape(ServerEscape(Arg(args, "TARGET"))),
                        ClientUnescape(ServerEscape(Arg(args, "MESSAGE")))>> >>
<1>1. /\ cmd = "CHANMSG" => e = <<k>>
      /\ cmd = "PRIVMSG" => e = <<k>> \o (IF text.TARGET = u THEN <<>> ELSE <<l>>)
  BY CommandsApart DEF Effects, Texts
<1>2. /\ k.to = "target"
      /\ k.args.TARGET = ServerEscape(Arg(args, "TARGET"))
      /\ k.args.MESSAGE = ServerEscape(Arg(args, "MESSAGE"))
  BY DEF Sent
<1>3. l.to # "target"
  BY DEF Sent
<1> HIDE DEF k, l, e, text
<1>4. \E x : e = <<k>> \o x /\ (x = <<>> \/ \E z : z.to # "target" /\ x = <<z>>)
  <2>1. <<k>> \o <<>> = <<k>>
    BY SingleIsSeq, ConcatEmpty
  <2>2. CASE cmd = "CHANMSG"
    BY <1>1, <2>1, <2>2
  <2>3. CASE cmd = "PRIVMSG"
    BY <1>1, <1>3, <2>3
  <2> QED
    BY <2>2, <2>3
<1>5. Reads(e) = << <<ClientUnescape(k.args.TARGET), ClientUnescape(k.args.MESSAGE)>> >>
  BY <1>2, <1>4, ReadsAnswer
<1> QED
  BY <1>2, <1>5 DEF e

LEMMA MessageHandled ==
    ASSUME NEW u, NEW cmd \in {"PRIVMSG", "CHANMSG"},
           NEW target \in PlainTexts, NEW w \in Seq(Tabless)
    PROVE  MessageIs(Handled(u, Composed(cmd, "TARGET", target, "MESSAGE", w) \o <<CR>>),
                     u, cmd, target, w)
<1> DEFINE line == Composed(cmd, "TARGET", target, "MESSAGE", w) \o <<CR>>
           args == Std(line)
           parse == ParseChecks(line)
           h == Handled(u, line)
           kt == "TARGET"
           km == "MESSAGE"
<1>1. target \in Seq(Tabless) /\ ServerUnescape(target) = target /\ ~Refused(target)
  BY PlainIs
<1>2. cmd \in Names /\ kt \in Names /\ km \in Names /\ kt # km
  BY TablessFacts
<1>3. IsParsed(line, cmd, kt, target, km, w)
  <2> HIDE DEF kt, km
  <2>1. IsParsed(Composed(cmd, kt, target, km, w) \o <<CR>>, cmd, kt, target, km, w)
    BY <1>1, <1>2, ComposedParse
  <2> QED
    BY <2>1 DEF kt, km
<1> HIDE DEF line
<1>4. /\ Command(line) = <<cmd>> /\ IsSeq(parse)
      /\ DOMAIN args = {<<kt>>, <<km>>} /\ args[<<kt>>] = target /\ args[<<km>>] = ServerUnescape(w)
      /\ Raises(parse) <=> Refused(w)
  BY <1>1, <1>3 DEF IsParsed, Raises
<1> HIDE DEF args, parse, h
<1>5. /\ Has(args, "TARGET") /\ Arg(args, "TARGET") = target
      /\ Has(args, "MESSAGE") /\ Arg(args, "MESSAGE") = ServerUnescape(w)
  BY <1>4 DEF Has, Arg
<1>6. Raises(CommandChecks(u, <<cmd>>, args)) <=> u = NoUser \/ target \notin Targets(<<cmd>>)
  <2> DEFINE a == Check(u = NoUser, "NOT_LOGGED_IN", <<>>)
             b == Missing(args, "TARGET")
             c == Check(Arg(args, "TARGET") \notin Targets(<<cmd>>), "NONEXISTANT_TARGET",
                        Arg(args, "TARGET"))
             d == Missing(args, "MESSAGE")
  <2>1. CommandChecks(u, <<cmd>>, args) = <<a, b, c, d>>
    <3>1. <<cmd>> \in Texts
      BY DEF Texts
    <3> QED
      BY <3>1, CommandsApart DEF CommandChecks
  <2>2. a.raised <=> u = NoUser
    BY DEF Check
  <2>3. ~b.raised /\ ~d.raised
    BY <1>5 DEF Check, Missing
  <2>4. c.raised <=> target \notin Targets(<<cmd>>)
    <3>1. \A type, quoted : \A raised \in BOOLEAN : Check(raised, type, quoted).raised = raised
      BY DEF Check
    <3>2. c.raised = (Arg(args, "TARGET") \notin Targets(<<cmd>>))
      BY <3>1, Zenon
    <3> QED
      BY <1>5, <3>2
  <2> HIDE DEF a, b, c, d
  <2> QED
    BY <2>1, <2>2, <2>3, <2>4, FourChecks, SMTT(30)
<1> DEFINE good == u # NoUser /\ target \in Targets(<<cmd>>) /\ ~Refused(w)
<1>7. Mistaken(u, line) <=> ~good
  BY <1>4, <1>6 DEF Mistaken, args, parse
<1>8. CASE ~good
  <2>1. PICK e : h = [user |-> u, sent |-> <<Complaint(e)>>]
    BY <1>4, <1>7, <1>8, HandledEither DEF h, parse
  <2>2. h.user = u /\ Reads(h.sent) = <<>>
    BY <2>1, ReadsAnswer
  <2> QED
    BY <1>8, <2>2 DEF MessageIs, h, line
<1>9. CASE good
  <2>1. <<cmd>> # <<"LOGIN">>
    OBVIOUS
  <2>2. h = [user |-> u, sent |-> Effects(u, <<cmd>>, args)]
    BY <1>4, <1>7, <1>9, <2>1, HandledEither DEF h, parse, args
  <2>3. Reads(Effects(u, <<cmd>>, args)) =
            << <<ClientUnescape(ServerEscape(target)),
                 ClientUnescape(ServerEscape(ServerUnescape(w)))>> >>
    BY <1>5, MessageEffects
  <2>4. Closed(All) /\ w \in Seq(All) /\ target \in Seq(All)
    BY <1>1, CleanFacts, TablessFacts, SeqMonotone
  <2>5. Meaning(w) = ClientUnescape(w) /\ Meaning(target) = ClientUnescape(target)
    BY <1>1, <1>9, <2>4, MeaningKept DEF KeepsMeaning
  <2>6. ClientUnescape(ServerEscape(target)) = target
    BY <1>1, <2>5, PlainIs DEF Meaning
  <2>7. h.user = u /\ Reads(h.sent) = << <<target, ClientUnescape(w)>> >>
    BY <2>2, <2>3, <2>5, <2>6 DEF Meaning
  <2> QED
    BY <1>9, <2>7 DEF MessageIs, h, line
<1> QED
  BY <1>8, <1>9

(* What it makes of a login.                                               *)
LEMMA LoginHandled ==
    ASSUME NEW u, NEW name \in PlainTexts, NEW password \in PlainTexts
    PROVE  LET h == Handled(u, Composed("LOGIN", "USERNAME", name, "PASSWORD", password) \o <<CR>>)
               good == u = NoUser /\ name \in DOMAIN Passwords /\ Passwords[name] = password
           IN  h.user = (IF good THEN name ELSE u) /\ Reads(h.sent) = <<>>
<1> DEFINE cmd == "LOGIN"
           kn == "USERNAME"
           kp == "PASSWORD"
           line == Composed("LOGIN", "USERNAME", name, "PASSWORD", password) \o <<CR>>
           args == Std(line)
           parse == ParseChecks(line)
           h == Handled(u, line)
<1>1. /\ name \in Seq(Tabless) /\ ServerUnescape(name) = name /\ ~Refused(name)
      /\ password \in Seq(Tabless) /\ ServerUnescape(password) = password /\ ~Refused(password)
  BY PlainIs
<1>2. cmd \in Names /\ kn \in Names /\ kp \in Names /\ kn # kp
  BY TablessFacts
<1>3. IsParsed(line, cmd, kn, name, kp, password)
  <2> HIDE DEF cmd, kn, kp
  <2>1. IsParsed(Composed(cmd, kn, name, kp, password) \o <<CR>>, cmd, kn, name, kp, password)
    BY <1>1, <1>2, ComposedParse
  <2> QED
    BY <2>1 DEF cmd, kn, kp
<1> HIDE DEF line
<1>4. /\ Command(line) = <<cmd>> /\ IsSeq(parse)
      /\ DOMAIN args = {<<kn>>, <<kp>>} /\ args[<<kn>>] = name /\ args[<<kp>>] = password
      /\ ~Raises(parse)
  BY <1>1, <1>3 DEF IsParsed, Raises
<1> HIDE DEF args, parse, h
<1>5. /\ Has(args, "USERNAME") /\ Arg(args, "USERNAME") = name
      /\ Has(args, "PASSWORD") /\ Arg(args, "PASSWORD") = password
  BY <1>4 DEF Has, Arg
<1> DEFINE good == u = NoUser /\ name \in DOMAIN Passwords /\ Passwords[name] = password
<1>6. Raises(CommandChecks(u, <<cmd>>, args)) <=> ~good
  <2> DEFINE a == Check(u # NoUser, "REDUNDENT_LOGIN", u)
             b == Missing(args, "USERNAME")
             c == Missing(args, "PASSWORD")
             d == Check(~LoginGood(args), "LOGIN_FAILED", Arg(args, "USERNAME"))
  <2>1. CommandChecks(u, <<cmd>>, args) = <<a, b, c, d>>
    BY CommandsApart DEF CommandChecks
  <2>2. /\ a.raised = (u # NoUser) /\ b.raised = FALSE /\ c.raised = FALSE
        /\ d.raised = ~LoginGood(args)
    BY <1>5 DEF Check, Missing
  <2>3. LoginGood(args) <=> name \in DOMAIN Passwords /\ Passwords[name] = password
    BY <1>5 DEF LoginGood
  <2> HIDE DEF a, b, c, d
  <2> QED
    BY <2>1, <2>2, <2>3, FourChecks, ZenonT(60)
<1>7. Mistaken(u, line) <=> ~good
  BY <1>4, <1>6 DEF Mistaken, args, parse
<1>8. CASE ~good
  <2>1. PICK e : h = [user |-> u, sent |-> <<Complaint(e)>>]
    BY <1>4, <1>7, <1>8, HandledEither DEF h, parse
  <2>2. h.user = u /\ Reads(h.sent) = <<>>
    BY <2>1, ReadsAnswer
  <2> QED
    BY <1>8, <2>2 DEF h, line
<1>9. CASE good
  <2>1. h = [user |-> name, sent |-> Effects(u, <<cmd>>, args)]
    BY <1>4, <1>5, <1>7, <1>9, HandledEither DEF h, parse, args
  <2> DEFINE l == Sent("client", "LOGIN_GOOD", [USERNAME |-> Arg(args, "USERNAME")])
  <2>2. Effects(u, <<cmd>>, args) = <<l>>
    BY CommandsApart DEF Effects
  <2>3. l.to # "target"
    BY DEF Sent
  <2>4. h.user = name /\ Reads(h.sent) = <<>>
    BY <2>1, <2>2, <2>3, ReadsAnswer
  <2> QED
    BY <1>9, <2>4 DEF h, line
<1> QED
  BY <1>8, <1>9

-----------------------------------------------------------------------------
(* A line that a client typed: what it leads to, if its values are plain.  *)
LEMMA PlainText == ASSUME NEW v \in Seq(Symbols), Plain(v) PROVE v \in PlainTexts
<1>1. \A i \in DOMAIN v : v[i] \in Tabless \ {BS}
  <2> TAKE i \in DOMAIN v
  <2>1. v[i] \in Symbols
    BY ElementType
  <2>2. v[i] \in ToSet(v)
    BY DEF ToSet
  <2>3. v[i] \notin {BS, "\t"}
    BY <2>2 DEF Plain, Separators
  <2> QED
    BY <2>1, <2>3 DEF Tabless
<1>2. Len(v) \in Nat /\ v \in [1 .. Len(v) -> Tabless \ {BS}]
  BY <1>1
<1>3. v \in Seq(Tabless \ {BS})
  BY <1>2, FunctionIsSeq
<1> QED
  BY <1>3 DEF PlainTexts

(* A plain value is written as it is, whichever client writes it.          *)
LEMMA PlainBytes ==
    ASSUME NEW e, NEW v \in Seq(Symbols), Plain(v) PROVE ValueBytes(e, v) = v
<1> DEFINE T == Symbols \ ({BS} \cup Separators)
<1>1. v \in Seq(T)
  <2>1. \A i \in DOMAIN v : v[i] \in T
    <3> TAKE i \in DOMAIN v
    <3>1. v[i] \in Symbols /\ v[i] \in ToSet(v)
      BY ElementType DEF ToSet
    <3> QED
      BY <3>1 DEF Plain
  <2> HIDE DEF T
  <2>2. Len(v) \in Nat /\ v \in [1 .. Len(v) -> T]
    BY <2>1
  <2> QED
    BY <2>2, FunctionIsSeq
<1>2. ClientCode(T) = [c \in T |-> <<c>>]
  BY DEF ClientCode
<1> HIDE DEF T
<1>3. Maps(ClientCode(T), T, T) /\ \A c \in T : ClientCode(T)[c] = <<c>>
  BY <1>2, SingleType DEF Maps
<1>4. FlatMap(ClientCode(T), v) = v
  BY <1>1, <1>3, ElementType, FlatMapSame
<1>5. ClientEscape(v) = v
  BY <1>1, <1>4, ClientWrites
<1> QED
  BY <1>5 DEF ValueBytes

LEMMA NoTabIs == ASSUME NEW v \in Seq(Symbols), "\t" \notin ToSet(v) PROVE v \in Seq(Tabless)
<1>1. \A i \in DOMAIN v : v[i] \in Tabless
  <2> TAKE i \in DOMAIN v
  <2>1. v[i] \in Symbols
    BY ElementType
  <2>2. v[i] \in ToSet(v)
    BY DEF ToSet
  <2> QED
    BY <2>1, <2>2 DEF Tabless
<1>2. Len(v) \in Nat /\ v \in [1 .. Len(v) -> Tabless]
  BY <1>1
<1> QED
  BY <1>2, FunctionIsSeq

LEMMA TextBytesAre ==
    ASSUME NEW e, e.client \in {"miniirc", "haxcurses", "shell"}, e.text \in Seq(Symbols),
           e.client # "miniirc" => "\t" \notin ToSet(e.text)
    PROVE  /\ TextBytes(e) \in Seq(Tabless)
           /\ Refused(TextBytes(e)) <=> e.client = "shell" /\ Refused(e.text)
           /\ ClientUnescape(TextBytes(e)) = Meant(e)
           /\ Meant(e) \in Seq(Symbols)
<1>1. Closed(All) /\ e.text \in Seq(All \ {Bad})
  BY CleanFacts, SeqMonotone
<1>2. CASE e.client = "miniirc"
  <2>1. TextBytes(e) = ClientEscape(e.text) /\ Meant(e) = e.text
    BY <1>2 DEF TextBytes, Meant
  <2>2. ClientEscape(e.text) \in Seq(Symbols \ Separators)
    BY WrittenType, CleanFacts
  <2>3. Symbols \ Separators \subseteq Tabless
    BY DEF Tabless, Separators
  <2>4. ClientEscape(e.text) \in Seq(Tabless)
    BY <2>2, <2>3, SeqMonotone
  <2>5. ClientUnescape(ClientEscape(e.text)) = e.text /\ ~Refused(ClientEscape(e.text))
    BY <1>1, TypedIsRead
  <2> QED
    BY <1>2, <2>1, <2>4, <2>5
<1>3. CASE e.client = "haxcurses"
  <2>1. TextBytes(e) = HaxEscape(e.text) /\ Meant(e) = e.text
    BY <1>3 DEF TextBytes, Meant
  <2>2. e.text \in Seq(Tabless)
    BY <1>3, NoTabIs
  <2>3. Escaped(Tabless) = Tabless
    <3>1. BS \in Tabless /\ {"r", "n", "t"} \subseteq Tabless
      BY DEF Tabless, Symbols, BS
    <3> QED
      BY <3>1, EscapeTable DEF Escaped
  <2>4. HaxEscape(e.text) \in Seq(Tabless)
    BY <2>2, <2>3, WrittenType
  <2>5. ClientUnescape(HaxEscape(e.text)) = e.text /\ ~Refused(HaxEscape(e.text))
    BY <1>1, HaxTypedIsRead
  <2> QED
    BY <1>3, <2>1, <2>4, <2>5
<1>4. CASE e.client = "shell"
  <2>1. TextBytes(e) = e.text /\ Meant(e) = ClientUnescape(e.text)
    BY <1>4 DEF TextBytes, Meant
  <2>2. e.text \in Seq(Tabless) /\ ClientUnescape(e.text) \in Seq(Symbols)
    BY <1>4, NoTabIs, ClientReadType
  <2> QED
    BY <1>4, <2>1, <2>2
<1> QED
  BY <1>2, <1>3, <1>4

LogsIn(e) == e.kind = "login" /\ e.password = Passwords[Me]
Named == DOMAIN Passwords \cup ChannelNames
GetsThrough(e) ==
    /\ e.kind = "message" /\ e.target \in Named
    /\ e.client = "shell" => ~Refused(e.text)
LineIs(h, e, u) ==
    /\ h.user = IF LogsIn(e) THEN Me ELSE u
    /\ Reads(h.sent) = IF GetsThrough(e) /\ u # NoUser THEN << <<e.target, Meant(e)>> >> ELSE <<>>

PlainMe == Me \in DOMAIN Passwords \ {NoUser} /\ Plain(Me)

LEMMA LineRead ==
    ASSUME PlainMe, NEW e \in TypedLines, Ordinary(e), NEW u \in {NoUser, Me}
    PROVE  LineIs(Handled(u, Content(e) \o <<CR>>), e, u)
<1> DEFINE h == Handled(u, Content(e) \o <<CR>>)
<1>1. CASE e \in [kind : {"login"}, client : Programs, password : Seq(Symbols)]
  <2>1. e.kind = "login" /\ e.password \in Seq(Symbols) /\ Plain(e.password)
    BY <1>1 DEF Ordinary
  <2>7. ValueBytes(e, Me) = Me /\ ValueBytes(e, e.password) = e.password
    BY <2>1, PlainBytes, WireAssumption DEF PlainMe
  <2>2. Content(e) = Composed("LOGIN", "USERNAME", Me, "PASSWORD", e.password)
    BY <2>1, <2>7 DEF Content, Composed
  <2>3. e.password \in PlainTexts /\ Me \in PlainTexts
    BY <2>1, PlainText, WireAssumption DEF PlainMe
  <2>4. /\ h.user = (IF u = NoUser /\ Me \in DOMAIN Passwords /\ Passwords[Me] = e.password
                     THEN Me ELSE u)
        /\ Reads(h.sent) = <<>>
    BY <2>2, <2>3, LoginHandled
  <2> HIDE DEF h
  <2>5. h.user = IF LogsIn(e) THEN Me ELSE u
    BY <2>1, <2>4 DEF LogsIn, PlainMe
  <2>6. ~GetsThrough(e)
    BY <2>1 DEF GetsThrough
  <2> QED
    BY <2>4, <2>5, <2>6 DEF LineIs, h
<1>2. CASE e \in [kind : {"message"}, client : Programs, target : Seq(Symbols),
                  text : Seq(Symbols)]
  <2> DEFINE cmd == IF e.target \in ChannelNames THEN "CHANMSG" ELSE "PRIVMSG"
             w == TextBytes(e)
  <2>1. /\ e.kind = "message" /\ e.target \in Seq(Symbols) /\ e.text \in Seq(Symbols)
        /\ e.client \in {"miniirc", "haxcurses", "shell"}
    BY <1>2 DEF Programs
  <2>2. Plain(e.target) /\ (e.client # "miniirc" => "\t" \notin ToSet(e.text))
    BY <2>1 DEF Ordinary
  <2>3. e.target \in PlainTexts
    BY <2>1, <2>2, PlainText
  <2>4. /\ w \in Seq(Tabless) /\ ClientUnescape(w) = Meant(e)
        /\ Refused(w) <=> e.client = "shell" /\ Refused(e.text)
    BY <2>1, <2>2, TextBytesAre
  <2>5. cmd \in {"PRIVMSG", "CHANMSG"}
    OBVIOUS
  <2>11. ValueBytes(e, e.target) = e.target
    BY <2>1, <2>2, PlainBytes
  <2>6. Content(e) = Composed(cmd, "TARGET", e.target, "MESSAGE", w)
    BY <2>1, <2>11 DEF Content, Composed
  <2>7. e.target \in Targets(<<cmd>>) <=> e.target \in Named
    BY CommandsApart DEF Targets, Named
  <2> HIDE DEF cmd, w
  <2>8. MessageIs(h, u, cmd, e.target, w)
    BY <2>3, <2>4, <2>5, <2>6, MessageHandled
  <2> HIDE DEF h
  <2>9. ~LogsIn(e)
    BY <2>1 DEF LogsIn
  <2>10. GetsThrough(e) <=> e.target \in Targets(<<cmd>>) /\ ~Refused(w)
    BY <2>1, <2>4, <2>7 DEF GetsThrough
  <2> QED
    BY <2>4, <2>8, <2>9, <2>10 DEF LineIs, MessageIs, h
<1>3. CASE e \in [kind : {"raw"}, line : Seq(Symbols)]
  <2>1. e.kind = "raw"
    BY <1>3
  <2>2. Content(e) = e.line
    BY <2>1 DEF Content
  <2>3. u \in DOMAIN Passwords \cup {NoUser}
    BY DEF PlainMe
  <2>4. h.user = u /\ RelayedOf(h.sent) = <<>>
    BY <2>1, <2>2, <2>3 DEF Ordinary
  <2> HIDE DEF h
  <2>5. Reads(h.sent) = <<>>
    BY <2>4, ReadOfFacts DEF Reads
  <2>6. ~LogsIn(e) /\ ~GetsThrough(e)
    BY <2>1 DEF LogsIn, GetsThrough
  <2> QED
    BY <2>4, <2>5, <2>6 DEF LineIs, h
<1> QED
  BY <1>1, <1>2, <1>3 DEF TypedLines

-----------------------------------------------------------------------------
(* What is read of the answers to one line after the other.                *)
AnswerLines == UNION {{a[i] : i \in DOMAIN a} : a \in LineAnswers}
ReadOne(l) == <<ClientUnescape(l.args.TARGET), ClientUnescape(l.args.MESSAGE)>>
GotValues == {ReadOne(l) : l \in AnswerLines}
ReadsAll(answers) == Reads(FlattenSeq(answers))

LEMMA AnswersType == LineAnswers \subseteq Seq(AnswerLines)
<1> SUFFICES ASSUME NEW a \in LineAnswers PROVE a \in Seq(AnswerLines)
  OBVIOUS
<1>1. PICK u \in Users, l \in Seq(Symbols) : a = Handled(u, l).sent
  BY DEF LineAnswers
<1>2. IsSeq(a)
  BY <1>1, HandledIs DEF AnswersOK
<1> DEFINE T == {a[i] : i \in DOMAIN a}
<1>3. T \subseteq AnswerLines
  BY DEF AnswerLines
<1>4. a \in Seq(T)
  BY <1>2 DEF IsSeq
<1> HIDE DEF T
<1> QED
  BY <1>3, <1>4, SeqMonotone

LEMMA ReadOfType ==
    ASSUME NEW s \in Seq(AnswerLines)
    PROVE  /\ ReadOf(s) \in Seq(GotValues) /\ Len(ReadOf(s)) = Len(s) /\ Len(s) \in Nat
           /\ \A i \in 1 .. Len(s) : ReadOf(s)[i] = ReadOne(s[i])
<1> DEFINE r == [i \in DOMAIN s |-> ReadOne(s[i])]
<1>1. ReadOf(s) = r
  BY DEF ReadOf, ReadOne
<1>2. Len(s) \in Nat /\ DOMAIN s = 1 .. Len(s)
  OBVIOUS
<1>3. \A i \in DOMAIN s : ReadOne(s[i]) \in GotValues
  BY ElementType DEF GotValues
<1>4. r \in [1 .. Len(s) -> GotValues]
  BY <1>2, <1>3
<1>5. \A i \in 1 .. Len(s) : r[i] = ReadOne(s[i])
  BY <1>2
<1> HIDE DEF r
<1> QED
  BY <1>1, <1>2, <1>4, <1>5, FunctionIsSeq

LEMMA ReadOfJoin ==
    ASSUME NEW s \in Seq(AnswerLines), NEW t \in Seq(AnswerLines)
    PROVE  ReadOf(s \o t) = ReadOf(s) \o ReadOf(t)
<1> DEFINE st == s \o t
           r == ReadOf(s)
           q == ReadOf(t)
           rq == r \o q
           all == ReadOf(st)
<1>1. st \in Seq(AnswerLines) /\ IsJoin(st, s, t)
  BY JoinFacts
<1> HIDE DEF st
<1>2. /\ r \in Seq(GotValues) /\ Len(r) = Len(s) /\ Len(s) \in Nat
      /\ q \in Seq(GotValues) /\ Len(q) = Len(t) /\ Len(t) \in Nat
      /\ all \in Seq(GotValues) /\ Len(all) = Len(st)
  BY <1>1, ReadOfType
<1>3. \A i \in 1 .. Len(s) : r[i] = ReadOne(s[i])
  BY ReadOfType
<1>4. \A i \in 1 .. Len(t) : q[i] = ReadOne(t[i])
  BY ReadOfType
<1>5. \A i \in 1 .. Len(st) : all[i] = ReadOne(st[i])
  BY <1>1, ReadOfType
<1> HIDE DEF r, q, all
<1>6. rq \in Seq(GotValues) /\ IsJoin(rq, r, q)
  BY <1>2, JoinFacts
<1> HIDE DEF rq
<1>7. Len(st) = Len(s) + Len(t) /\ Len(rq) = Len(s) + Len(t)
  BY <1>1, <1>2, <1>6 DEF IsJoin
<1>8. \A i \in 1 .. Len(all) : all[i] = rq[i]
  <2> TAKE i \in 1 .. Len(all)
  <2>1. all[i] = ReadOne(st[i])
    BY <1>2, <1>5
  <2>2. CASE i <= Len(s)
    <3>1. i \in 1 .. Len(s)
      BY <1>2, <1>7, <2>2
    <3>2. st[i] = s[i] /\ rq[i] = r[i]
      BY <1>1, <1>2, <1>6, <3>1 DEF IsJoin
    <3> QED
      BY <1>3, <2>1, <3>1, <3>2
  <2>3. CASE i > Len(s)
    <3>1. i - Len(s) \in 1 .. Len(t) /\ Len(s) + (i - Len(s)) = i
      BY <1>2, <1>7, <2>3
    <3>2. st[i] = t[i - Len(s)] /\ rq[i] = q[i - Len(s)]
      BY <1>1, <1>2, <1>6, <3>1 DEF IsJoin
    <3> QED
      BY <1>4, <2>1, <3>1, <3>2
  <2> QED
    BY <1>2, <1>7, <2>2, <2>3
<1>9. all = rq
  BY <1>2, <1>6, <1>7, <1>8, SameSeq
<1> QED
  BY <1>9 DEF all, rq, r, q, st

LEMMA ReadsJoin ==
    ASSUME NEW s \in Seq(AnswerLines), NEW t \in Seq(AnswerLines)
    PROVE  /\ Reads(s \o t) = Reads(s) \o Reads(t)
           /\ Reads(s) \in Seq(GotValues) /\ Len(Reads(s)) = Len(RelayedOf(s))
<1>1. RelayedOf(s \o t) = RelayedOf(s) \o RelayedOf(t)
  BY RelayedJoin
<1>2. RelayedOf(s) \in Seq(AnswerLines) /\ RelayedOf(t) \in Seq(AnswerLines)
  BY RelayedJoin
<1> DEFINE r == RelayedOf(s)
           q == RelayedOf(t)
<1>3. r \in Seq(AnswerLines) /\ q \in Seq(AnswerLines)
  BY <1>2
<1> HIDE DEF r, q
<1>4. ReadOf(r \o q) = ReadOf(r) \o ReadOf(q)
  BY <1>3, ReadOfJoin
<1>5. ReadOf(r) \in Seq(GotValues) /\ Len(ReadOf(r)) = Len(r)
  BY <1>3, ReadOfType
<1> QED
  BY <1>1, <1>4, <1>5 DEF Reads, r, q

LEMMA ReadsAllFacts ==
    /\ ReadsAll(<<>>) = <<>>
    /\ \A a \in LineAnswers : ReadsAll(<<a>>) = Reads(a)
    /\ \A s, t \in Seq(LineAnswers) : ReadsAll(s \o t) = ReadsAll(s) \o ReadsAll(t)
    /\ \A s \in Seq(LineAnswers) :
           ReadsAll(s) \in Seq(GotValues) /\ Len(ReadsAll(s)) = Len(RelayedOf(FlattenSeq(s)))
<1>1. ReadsAll(<<>>) = <<>>
  BY FlattenEmpty, RelayedOne, ReadOfFacts DEF ReadsAll, Reads
<1>2. \A a \in LineAnswers : ReadsAll(<<a>>) = Reads(a)
  BY FlattenSingle DEF ReadsAll
<1>3. ASSUME NEW s \in Seq(LineAnswers), NEW t \in Seq(LineAnswers)
      PROVE  ReadsAll(s \o t) = ReadsAll(s) \o ReadsAll(t)
  <2>1. s \in Seq(Seq(AnswerLines)) /\ t \in Seq(Seq(AnswerLines))
    BY AnswersType, SeqMonotone
  <2>2. FlattenSeq(s \o t) = FlattenSeq(s) \o FlattenSeq(t)
    BY <2>1, FlattenJoin
  <2>3. FlattenSeq(s) \in Seq(AnswerLines) /\ FlattenSeq(t) \in Seq(AnswerLines)
    BY <2>1, FlattenJoin
  <2>4. Reads(FlattenSeq(s) \o FlattenSeq(t)) = Reads(FlattenSeq(s)) \o Reads(FlattenSeq(t))
    BY <2>3, ReadsJoin
  <2> QED
    BY <2>2, <2>4 DEF ReadsAll
<1>4. ASSUME NEW s \in Seq(LineAnswers)
      PROVE  ReadsAll(s) \in Seq(GotValues) /\ Len(ReadsAll(s)) = Len(RelayedOf(FlattenSeq(s)))
  <2>1. s \in Seq(Seq(AnswerLines))
    BY AnswersType, SeqMonotone
  <2>2. FlattenSeq(s) \in Seq(AnswerLines)
    BY <2>1, FlattenJoin
  <2> QED
    BY <2>2, ReadsJoin DEF ReadsAll
<1> QED
  BY <1>1, <1>2, <1>3, <1>4

-----------------------------------------------------------------------------
(* What of some lines should get through.                                  *)
OrdinaryLines == {e \in TypedLines : Ordinary(e)}
LinesOf(s) == [i \in DOMAIN s |-> Content(s[i])]
LoggedInBy(s, i) == \E j \in 1 .. i - 1 : LogsIn(s[j])
Getting(s, i) ==
    IF GetsThrough(s[i]) /\ LoggedInBy(s, i) THEN << <<s[i].target, Meant(s[i])>> >> ELSE <<>>
WantedOf(s) == FlattenSeq([i \in DOMAIN s |-> Getting(s, i)])
Passed == Named \X Seq(Symbols)

LEMMA MeantType ==
    ASSUME NEW e \in TypedLines, e.kind = "message", Ordinary(e)
    PROVE  Meant(e) \in Seq(Symbols)
<1>1. e.client \in {"miniirc", "haxcurses", "shell"} /\ e.text \in Seq(Symbols)
  BY DEF TypedLines, Programs
<1>2. e.client # "miniirc" => "\t" \notin ToSet(e.text)
  BY DEF Ordinary
<1> QED
  BY <1>1, <1>2, TextBytesAre

LEMMA GettingType ==
    ASSUME NEW s \in Seq(OrdinaryLines), NEW i \in DOMAIN s
    PROVE  Getting(s, i) \in Seq(Passed)
<1>1. s[i] \in OrdinaryLines
  BY ElementType
<1>2. GetsThrough(s[i]) => s[i].target \in Named /\ Meant(s[i]) \in Seq(Symbols)
  BY <1>1, MeantType DEF GetsThrough, OrdinaryLines
<1>3. GetsThrough(s[i]) => << <<s[i].target, Meant(s[i])>> >> \in Seq(Passed)
  BY <1>2, SingleType DEF Passed
<1>4. <<>> \in Seq(Passed)
  OBVIOUS
<1> QED
  BY <1>3, <1>4 DEF Getting

LEMMA WantedGrows ==
    ASSUME NEW z \in Seq(OrdinaryLines), NEW e \in OrdinaryLines
    PROVE  WantedOf(Append(z, e)) = WantedOf(z) \o Getting(Append(z, e), Len(z) + 1)
<1> DEFINE n == Len(z)
           s == Append(z, e)
           f == [i \in DOMAIN z |-> Getting(z, i)]
           g == [i \in DOMAIN s |-> Getting(s, i)]
           new == Getting(s, n + 1)
<1>1. /\ s \in Seq(OrdinaryLines) /\ n \in Nat /\ Len(s) = n + 1
      /\ DOMAIN z = 1 .. n /\ DOMAIN s = 1 .. n + 1
      /\ \A i \in 1 .. n : s[i] = z[i]
  OBVIOUS
<1> HIDE DEF s
<1>2. \A i \in 1 .. n : Getting(s, i) = Getting(z, i)
  <2> TAKE i \in 1 .. n
  <2>1. LoggedInBy(s, i) <=> LoggedInBy(z, i)
    BY <1>1 DEF LoggedInBy
  <2> QED
    BY <1>1, <2>1 DEF Getting
<1>3. \A i \in 1 .. n : f[i] = Getting(z, i)
  BY <1>1
<1>4. \A i \in 1 .. n + 1 : g[i] = Getting(s, i)
  BY <1>1
<1>5. f \in [1 .. n -> Seq(Passed)] /\ g \in [1 .. n + 1 -> Seq(Passed)] /\ new \in Seq(Passed)
  BY <1>1, GettingType
<1> HIDE DEF f, g, new
<1>6. /\ f \in Seq(Seq(Passed)) /\ Len(f) = n
      /\ g \in Seq(Seq(Passed)) /\ Len(g) = n + 1
  <2>1. n \in Nat /\ n + 1 \in Nat
    BY <1>1
  <2> DEFINE m == n + 1
  <2> HIDE DEF n, m
  <2>2. f \in [1 .. n -> Seq(Passed)] /\ g \in [1 .. m -> Seq(Passed)] /\ n \in Nat /\ m \in Nat
    BY <1>5, <2>1 DEF m
  <2>3. f \in Seq(Seq(Passed)) /\ Len(f) = n
    BY <2>2, FunctionIsSeq
  <2>4. g \in Seq(Seq(Passed)) /\ Len(g) = m
    BY <2>2, FunctionIsSeq
  <2> QED
    BY <2>3, <2>4 DEF m
<1> DEFINE fn == Append(f, new)
<1>7. /\ fn \in Seq(Seq(Passed)) /\ Len(fn) = n + 1 /\ fn[n + 1] = new
      /\ \A i \in 1 .. n : fn[i] = f[i]
  BY <1>1, <1>5, <1>6
<1> HIDE DEF fn
<1>8. \A i \in 1 .. n + 1 : g[i] = fn[i]
  <2> TAKE i \in 1 .. n + 1
  <2>1. CASE i = n + 1
    BY <1>4, <1>7, <2>1 DEF new
  <2>2. CASE i # n + 1
    <3>1. i \in 1 .. n
      BY <1>1, <2>2
    <3> QED
      BY <1>2, <1>3, <1>4, <1>7, <3>1
  <2> QED
    BY <2>1, <2>2
<1>9. g = fn
  BY <1>6, <1>7, <1>8, SameSeq
<1>10. FlattenSeq(fn) = FlattenSeq(f) \o new
  BY <1>5, <1>6, FlattenAppend DEF fn
<1> QED
  BY <1>9, <1>10 DEF WantedOf, f, g, new, s

(* What is read of the answers to some lines, given one after the other to *)
(* a server that nobody is logged in to.                                   *)
Outcome(lines) == AllHandled(NoUser, WithCR(lines))
ReadOfLines(lines) == ReadsAll(Outcome(lines).sent)

LEMMA LinesOfGrows ==
    ASSUME NEW z \in Seq(OrdinaryLines), NEW e \in OrdinaryLines
    PROVE  /\ LinesOf(Append(z, e)) = Append(LinesOf(z), Content(e))
           /\ LinesOf(z) \in Seq(Seq(Symbols)) /\ Content(e) \in Seq(Symbols)
<1> DEFINE n == Len(z)
           s == Append(z, e)
           c == Content(e)
           f == LinesOf(z)
           g == LinesOf(s)
<1>1. /\ n \in Nat /\ DOMAIN z = 1 .. n /\ DOMAIN s = 1 .. n + 1
      /\ \A i \in 1 .. n : s[i] = z[i] /\ s[n + 1] = e
  OBVIOUS
<1>2. \A x \in OrdinaryLines : Content(x) \in Seq(Symbols)
  BY ContentType DEF OrdinaryLines
<1>3. \A i \in 1 .. n : z[i] \in OrdinaryLines
  BY <1>1
<1>4. f \in [1 .. n -> Seq(Symbols)] /\ \A i \in 1 .. n : f[i] = Content(z[i])
  BY <1>1, <1>2, <1>3 DEF LinesOf
<1>5. g = [i \in 1 .. n + 1 |-> Content(s[i])]
  BY <1>1 DEF LinesOf
<1>6. \A i \in 1 .. n + 1 : g[i] = Content(s[i])
  BY <1>5
<1>7. c \in Seq(Symbols) /\ s[n + 1] = e
  BY <1>2
<1>8. DOMAIN g = 1 .. n + 1 /\ g = [i \in 1 .. n + 1 |-> g[i]]
  BY <1>5
<1>9. Content(s[n + 1]) = c
  BY <1>7
<1> HIDE DEF n, s, c, f, g
<1>10. f \in Seq(Seq(Symbols)) /\ Len(f) = n
  BY <1>1, <1>4, FunctionIsSeq
<1> DEFINE fc == Append(f, c)
<1>11. /\ fc \in Seq(Seq(Symbols)) /\ Len(fc) = n + 1 /\ fc[n + 1] = c
       /\ \A i \in 1 .. n : fc[i] = f[i]
  BY <1>1, <1>7, <1>10
<1> HIDE DEF fc
<1>12. \A i \in 1 .. n + 1 : g[i] = fc[i]
  <2> TAKE i \in 1 .. n + 1
  <2>1. CASE i = n + 1
    <3>1. g[i] = Content(s[n + 1])
      BY <1>6, <2>1
    <3> QED
      BY <1>9, <1>11, <2>1, <3>1
  <2>2. CASE i # n + 1
    <3>1. i \in 1 .. n
      BY <1>1, <2>2
    <3>2. g[i] = Content(s[i]) /\ s[i] = z[i]
      BY <1>1, <1>6, <3>1
    <3> QED
      BY <1>4, <1>11, <3>1, <3>2
  <2> QED
    BY <2>1, <2>2
<1>13. fc = [i \in 1 .. n + 1 |-> fc[i]]
  BY <1>11
<1>14. g = fc
  BY <1>8, <1>12, <1>13
<1> QED
  BY <1>7, <1>10, <1>14 DEF g, fc, f, c, s

(* Of ordinary lines, what should get through is read.                     *)
AsWanted(s) ==
    /\ Outcome(LinesOf(s)).user =
           IF \E j \in 1 .. Len(s) : LogsIn(s[j]) THEN Me ELSE NoUser
    /\ ReadOfLines(LinesOf(s)) = WantedOf(s)

LEMMA OneMoreWanted ==
    ASSUME PlainMe, NEW z \in Seq(OrdinaryLines), NEW e \in OrdinaryLines, AsWanted(z)
    PROVE  AsWanted(Append(z, e))
<1> DEFINE s == Append(z, e)
           n == Len(z)
           lines == LinesOf(z)
           c == Content(e)
           bytes == c \o <<CR>>
           a == Outcome(lines)
           h == Handled(a.user, bytes)
           logged(x) == \E j \in 1 .. Len(x) : LogsIn(x[j])
           new == Reads(h.sent)
<1>1. LinesOf(s) = Append(lines, c) /\ lines \in Seq(Seq(Symbols)) /\ c \in Seq(Symbols)
  BY LinesOfGrows
<1>2. e \in TypedLines /\ Ordinary(e)
  BY DEF OrdinaryLines
<1>3. /\ n \in Nat /\ Len(s) = n + 1 /\ s[n + 1] = e /\ \A i \in 1 .. n : s[i] = z[i]
  OBVIOUS
<1>4. NoUser \in Users
  BY DEF Users
<1>5. /\ Outcome(Append(lines, c)) = AfterLine(a, bytes) /\ a \in Turns /\ bytes \in Seq(Symbols)
  <2>1. /\ WithCR(Append(lines, c)) = Append(WithCR(lines), bytes)
        /\ WithCR(lines) \in Seq(Seq(Symbols)) /\ bytes \in Seq(Symbols)
    <3> HIDE DEF lines, c
    <3> QED
      BY <1>1, OneMoreLine
  <2> DEFINE w == WithCR(lines)
  <2>2. w \in Seq(Seq(Symbols))
    BY <2>1
  <2> HIDE DEF w, bytes
  <2>3. AllHandled(NoUser, Append(w, bytes)) = AfterLine(AllHandled(NoUser, w), bytes)
    BY <1>4, <2>1, <2>2, AllHandledFacts
  <2>4. AllHandled(NoUser, w) \in Turns
    BY <1>4, <2>2, AllHandledFacts
  <2> QED
    BY <2>1, <2>3, <2>4 DEF Outcome, w
<1>6. a.user = (IF logged(z) THEN Me ELSE NoUser) /\ ReadsAll(a.sent) = WantedOf(z)
  BY DEF AsWanted, ReadOfLines
<1>7. LineIs(h, e, a.user)
  <2>1. a.user \in {NoUser, Me}
    BY <1>6
  <2> HIDE DEF a
  <2>2. LineIs(Handled(a.user, Content(e) \o <<CR>>), e, a.user)
    BY <1>2, <2>1, LineRead
  <2> QED
    BY <2>2
<1>8. a.user # NoUser <=> logged(z)
  BY <1>6 DEF PlainMe
<1>9. logged(s) <=> logged(z) \/ LogsIn(e)
  <2>1. logged(z) => logged(s)
    BY <1>3
  <2>2. LogsIn(e) => logged(s)
    BY <1>3
  <2>3. logged(s) => logged(z) \/ LogsIn(e)
    <3> SUFFICES ASSUME NEW j \in 1 .. Len(s), LogsIn(s[j]) PROVE logged(z) \/ LogsIn(e)
      OBVIOUS
    <3>1. j = n + 1 \/ j \in 1 .. n
      BY <1>3
    <3> QED
      BY <1>3, <3>1
  <2> QED
    BY <2>1, <2>2, <2>3
<1>10. new = Getting(s, n + 1)
  <2>1. LoggedInBy(s, n + 1) <=> logged(z)
    <3>1. (n + 1) - 1 = n
      BY <1>3
    <3> QED
      BY <1>3, <3>1 DEF LoggedInBy
  <2>2. new = IF GetsThrough(e) /\ a.user # NoUser THEN << <<e.target, Meant(e)>> >> ELSE <<>>
    BY <1>7 DEF LineIs
  <2> HIDE DEF new, s, a
  <2> QED
    BY <1>3, <1>8, <2>1, <2>2 DEF Getting
<1>11. WantedOf(s) = WantedOf(z) \o Getting(s, n + 1)
  BY WantedGrows
<1>12. /\ Outcome(LinesOf(s)).user = h.user
       /\ Outcome(LinesOf(s)).sent = Append(a.sent, h.sent)
  BY <1>1, <1>5 DEF AfterLine
<1>13. a.sent \in Seq(LineAnswers) /\ h.sent \in LineAnswers
  <2>1. a.user \in Users /\ a.sent \in Seq(LineAnswers)
    BY <1>5 DEF Turns
  <2> HIDE DEF a, bytes
  <2> QED
    BY <1>5, <2>1 DEF LineAnswers
<1>14. ReadsAll(Append(a.sent, h.sent)) = ReadsAll(a.sent) \o new
  <2> DEFINE x == a.sent
             y == h.sent
             one == <<y>>
  <2>1. x \in Seq(LineAnswers) /\ y \in LineAnswers
    BY <1>13
  <2>2. new = Reads(y)
    OBVIOUS
  <2> HIDE DEF x, y, new
  <2>3. one \in Seq(LineAnswers) /\ Append(x, y) = x \o one
    BY <2>1
  <2>4. ReadsAll(one) = Reads(y)
    BY <2>1, ReadsAllFacts
  <2> HIDE DEF one
  <2>5. ReadsAll(x \o one) = ReadsAll(x) \o ReadsAll(one)
    BY <2>1, <2>3, ReadsAllFacts
  <2> QED
    BY <2>2, <2>3, <2>4, <2>5 DEF x, y
<1>15. h.user = IF logged(s) THEN Me ELSE NoUser
  <2>1. h.user = IF LogsIn(e) THEN Me ELSE a.user
    BY <1>7 DEF LineIs
  <2> HIDE DEF h, a
  <2> QED
    BY <1>6, <1>9, <2>1
<1> HIDE DEF s, a, h, new, lines
<1>16. ReadOfLines(LinesOf(s)) = WantedOf(s)
  BY <1>6, <1>10, <1>11, <1>12, <1>14, Zenon DEF ReadOfLines
<1>17. AsWanted(s)
  BY <1>12, <1>15, <1>16 DEF AsWanted
<1> QED
  BY <1>17 DEF s

LEMMA WantedIsRead ==
    ASSUME PlainMe, NEW s \in Seq(OrdinaryLines)
    PROVE  AsWanted(s)
<1> DEFINE S == {z \in Seq(OrdinaryLines) : AsWanted(z)}
<1>1. <<>> \in S
  <2>1. LinesOf(<<>>) = <<>> /\ WithCR(<<>>) = <<>> /\ Len(<<>>) = 0
    BY DEF LinesOf, WithCR
  <2>2. Outcome(<<>>) = [user |-> NoUser, sent |-> <<>>]
    <3>1. NoUser \in Users
      BY DEF Users
    <3> QED
      BY <2>1, <3>1, AllHandledFacts DEF Outcome
  <2>3. WantedOf(<<>>) = <<>>
    <3>1. [i \in DOMAIN <<>> |-> Getting(<<>>, i)] = <<>>
      OBVIOUS
    <3> QED
      BY <3>1, FlattenEmpty DEF WantedOf
  <2>4. ReadOfLines(<<>>) = <<>>
    BY <2>2, ReadsAllFacts DEF ReadOfLines
  <2>5. <<>> \in Seq(OrdinaryLines) /\ ~(\E j \in 1 .. 0 : LogsIn(<<>>[j]))
    OBVIOUS
  <2>6. AsWanted(<<>>)
    BY <2>1, <2>2, <2>3, <2>4, <2>5 DEF AsWanted
  <2> QED
    BY <2>5, <2>6
<1>2. \A z \in Seq(OrdinaryLines), e \in OrdinaryLines : z \in S => Append(z, e) \in S
  <2> SUFFICES ASSUME NEW z \in Seq(OrdinaryLines), NEW e \in OrdinaryLines, AsWanted(z)
               PROVE  Append(z, e) \in S
    OBVIOUS
  <2>1. AsWanted(Append(z, e))
    BY OneMoreWanted
  <2>2. Append(z, e) \in Seq(OrdinaryLines)
    OBVIOUS
  <2> QED
    BY <2>1, <2>2
<1> HIDE DEF S
<1>3. Seq(OrdinaryLines) \subseteq S
  BY <1>1, <1>2, AppendInduction
<1> QED
  BY <1>3 DEF S

(* Nothing is read of the answers to empty lines.                          *)
LEMMA BlanksUnread ==
    ASSUME NEW s \in Seq(LineAnswers)
    PROVE  ReadsAll(Answered(s)) = ReadsAll(s)
<1> DEFINE S == {z \in Seq(LineAnswers) : ReadsAll(Answered(z)) = ReadsAll(z)}
<1>1. <<>> \in S
  <2>1. Answered(<<>>) = <<>> /\ <<>> \in Seq(LineAnswers)
    <3>1. FlatMap(Answering, <<>>) = <<>>
      BY FlatMapEmpty
    <3>2. <<>> \in Seq(LineAnswers)
      OBVIOUS
    <3>3. Answered(<<>>) = FlatMap(Answering, <<>>)
      BY <3>2, AnsweredIs
    <3> QED
      BY <3>1, <3>2, <3>3
  <2> QED
    BY <2>1
<1>2. \A z \in Seq(LineAnswers), x \in LineAnswers : z \in S => Append(z, x) \in S
  <2> SUFFICES ASSUME NEW z \in Seq(LineAnswers), NEW x \in LineAnswers, z \in S
               PROVE  Append(z, x) \in S
    OBVIOUS
  <2> DEFINE one == <<x>>
             az == Answered(z)
             ax == Answering[x]
  <2>1. one \in Seq(LineAnswers) /\ Append(z, x) = z \o one /\ Append(z, x) \in Seq(LineAnswers)
    OBVIOUS
  <2>2. Answered(Append(z, x)) = az \o ax
    BY AnsweredAppend
  <2>3. az \in Seq(LineAnswers) /\ ax \in Seq(LineAnswers)
    <3>1. az \in Seq(LineAnswers)
      BY AnsweredIs, FlatMapType
    <3>2. ax \in Seq(LineAnswers)
      BY AnsweredIs DEF Maps
    <3> QED
      BY <3>1, <3>2
  <2>4. ReadsAll(one) = Reads(x)
    BY ReadsAllFacts
  <2>5. ReadsAll(ax) = Reads(x)
    <3>1. CASE x = BlankAnswer
      <4>1. ax = <<>>
        BY <3>1 DEF Answering
      <4>2. Reads(x) = <<>>
        BY <3>1, ReadsAnswer DEF BlankAnswer
      <4> QED
        BY <4>1, <4>2, ReadsAllFacts
    <3>2. CASE x # BlankAnswer
      BY <2>4, <3>2 DEF Answering
    <3> QED
      BY <3>1, <3>2
  <2>6. ReadsAll(az) = ReadsAll(z)
    OBVIOUS
  <2> HIDE DEF one, az, ax, S
  <2>7. ReadsAll(az \o ax) = ReadsAll(az) \o ReadsAll(ax)
    BY <2>3, ReadsAllFacts
  <2>8. ReadsAll(z \o one) = ReadsAll(z) \o ReadsAll(one)
    BY <2>1, ReadsAllFacts
  <2>9. ReadsAll(Answered(Append(z, x))) = ReadsAll(Append(z, x))
    BY <2>1, <2>2, <2>4, <2>5, <2>6, <2>7, <2>8, Zenon
  <2> QED
    BY <2>1, <2>9 DEF S
<1> HIDE DEF S
<1>3. Seq(LineAnswers) \subseteq S
  BY <1>1, <1>2, AppendInduction
<1> QED
  BY <1>3 DEF S

LEMMA OutcomeType ==
    ASSUME NEW lines \in Seq(Seq(Symbols))
    PROVE  Outcome(lines).user \in Users /\ Outcome(lines).sent \in Seq(LineAnswers)
<1>1. NoUser \in Users /\ WithCR(lines) \in Seq(Seq(Symbols))
  BY WithCRIs DEF Users
<1>2. Outcome(lines) \in Turns
  BY <1>1, AllHandledFacts DEF Outcome
<1> QED
  BY <1>2 DEF Turns

LEMMA KeptRead ==
    ASSUME NEW lines \in Seq(Seq(Symbols))
    PROVE  ReadOfLines(Kept(lines)) = ReadOfLines(lines)
<1>1. Kept(lines) \in Seq(Seq(Symbols)) /\ NoUser \in Users
  BY KeptIs DEF Users
<1>2. Answered(Outcome(lines).sent) = Answered(Outcome(Kept(lines)).sent)
  BY <1>1, EmptyLinesChangeNothing DEF Outcome
<1>3. Outcome(lines).sent \in Seq(LineAnswers) /\ Outcome(Kept(lines)).sent \in Seq(LineAnswers)
  BY <1>1, OutcomeType
<1> QED
  BY <1>2, <1>3, BlanksUnread DEF ReadOfLines

(* What is read of the lines that were handled is what is read of all of   *)
(* them but for the end.                                                   *)
LEMMA ReadInFront ==
    ASSUME NEW p \in Seq(Seq(Symbols)), NEW q \in Seq(Seq(Symbols)), NEW l \in Seq(Seq(Symbols)),
           Kept(p) \o Kept(q) = Kept(l)
    PROVE  \E rest \in Seq(GotValues) : ReadOfLines(l) = ReadOfLines(p) \o rest
<1> DEFINE s == WithCR(p)
           t == WithCR(q)
           a == AllHandled(NoUser, s)
           b == AllHandled(a.user, t)
           pq == p \o q
<1>1. pq \in Seq(Seq(Symbols)) /\ s \in Seq(Seq(Symbols)) /\ t \in Seq(Seq(Symbols)) /\ NoUser \in Users
  BY ConcatFacts, WithCRIs DEF Users
<1>2. ReadOfLines(l) = ReadOfLines(pq)
  <2>1. Kept(pq) = Kept(l)
    BY KeptIs
  <2> HIDE DEF pq
  <2> QED
    BY <1>1, <2>1, KeptRead
<1>3. WithCR(pq) = s \o t
  BY WithCRJoin
<1> HIDE DEF s, t
<1>4. AllHandled(NoUser, s \o t).sent = a.sent \o b.sent
  BY <1>1, AllHandledJoin
<1>5. a.sent \in Seq(LineAnswers) /\ b.sent \in Seq(LineAnswers)
  <2>1. a \in Turns
    BY <1>1, AllHandledFacts
  <2>2. a.user \in Users /\ a.sent \in Seq(LineAnswers)
    BY <2>1 DEF Turns
  <2> HIDE DEF a
  <2>3. b \in Turns
    BY <1>1, <2>2, AllHandledFacts
  <2> QED
    BY <2>2, <2>3 DEF Turns
<1>6. Outcome(pq).sent = a.sent \o b.sent
  BY <1>3, <1>4 DEF Outcome
<1>7. Outcome(p) = a
  BY DEF Outcome, s
<1> DEFINE x == a.sent
           y == b.sent
<1>8. x \in Seq(LineAnswers) /\ y \in Seq(LineAnswers) /\ Outcome(pq).sent = x \o y /\ Outcome(p).sent = x
  BY <1>5, <1>6, <1>7
<1> HIDE DEF x, y, pq, a, b
<1>9. ReadsAll(x \o y) = ReadsAll(x) \o ReadsAll(y) /\ ReadsAll(y) \in Seq(GotValues)
  BY <1>8, ReadsAllFacts
<1> QED
  BY <1>2, <1>8, <1>9, Zenon DEF ReadOfLines

-----------------------------------------------------------------------------
(* The refinement.  The values that came out are those read of what was    *)
(* sent, and with those to come they are all that is wanted.               *)
LEMMA TypedOrdinary ==
    ASSUME OrdinaryInputs, typed \in Inputs
    PROVE  typed \in Seq(OrdinaryLines)
<1>1. typed \in Seq(TypedLines)
  BY WireAssumption
<1>2. \A i \in DOMAIN typed : typed[i] \in OrdinaryLines
  BY <1>1, ElementType DEF OrdinaryInputs, OrdinaryLines
<1> QED
  BY <1>1, <1>2

LEMMA WantedIs ==
    ASSUME typed \in Seq(OrdinaryLines)
    PROVE  Wanted = WantedOf(typed)
<1> DEFINE part(i) ==
        IF /\ typed[i].kind = "message" /\ LoggedIn(i)
           /\ typed[i].target \in DOMAIN Passwords \cup ChannelNames
           /\ typed[i].client = "shell" => ~Refused(typed[i].text)
        THEN << <<typed[i].target, Meant(typed[i])>> >> ELSE <<>>
<1>1. \A i \in DOMAIN typed : part(i) = Getting(typed, i)
  <2> TAKE i \in DOMAIN typed
  <2>1. LoggedIn(i) <=> LoggedInBy(typed, i)
    BY DEF LoggedIn, LoggedInBy, LogsIn
  <2> QED
    BY <2>1 DEF Getting, GetsThrough, Named
<1>2. [i \in DOMAIN typed |-> part(i)] = [i \in DOMAIN typed |-> Getting(typed, i)]
  BY <1>1, Zenon
<1> QED
  BY <1>2, Zenon DEF Wanted, WantedOf

LEMMA WantedType ==
    ASSUME NEW s \in Seq(OrdinaryLines)
    PROVE  WantedOf(s) \in Seq(Passed)
<1> DEFINE f == [i \in DOMAIN s |-> Getting(s, i)]
           n == Len(s)
<1>1. n \in Nat /\ DOMAIN s = 1 .. n
  OBVIOUS
<1>2. f \in [1 .. n -> Seq(Passed)]
  BY <1>1, GettingType
<1>3. WantedOf(s) = FlattenSeq(f)
  BY DEF WantedOf
<1> HIDE DEF f, n
<1>4. f \in Seq(Seq(Passed))
  BY <1>1, <1>2, FunctionIsSeq
<1>5. <<>> \in Seq(Seq(Passed))
  OBVIOUS
<1> QED
  BY <1>3, <1>4, <1>5, FlattenJoin

(* What came out and what is to come.                                      *)
Came == ReadOf(Relayed)
Coming == SubSeq(Wanted, Len(Relayed) + 1, Len(Wanted))

LEMMA CameIs ==
    ASSUME sent \in Seq(LineAnswers)
    PROVE  Came = ReadsAll(sent) /\ Came \in Seq(GotValues) /\ Len(Came) = Len(Relayed)
<1>1. Came = ReadsAll(sent) /\ Relayed = RelayedOf(FlattenSeq(sent))
  BY DEF Came, Relayed, SentLines, ReadsAll, Reads
<1> QED
  BY <1>1, ReadsAllFacts

LEMMA JoinEnd ==
    ASSUME NEW T, NEW a \in Seq(T), NEW b \in Seq(T)
    PROVE  SubSeq(a \o b, Len(a) + 1, Len(a \o b)) = b
<1> DEFINE w == a \o b
           m == Len(a)
           n == Len(b)
           v == SubSeq(w, m + 1, Len(w))
<1>1. w \in Seq(T) /\ IsJoin(w, a, b)
  BY JoinFacts
<1>2. m \in Nat /\ n \in Nat
  OBVIOUS
<1> HIDE DEF w, m, n
<1>3. Len(w) = m + n /\ \A i \in 1 .. n : w[m + i] = b[i]
  BY <1>1 DEF IsJoin, m, n
<1>4. v \in Seq(T) /\ Len(v) = n /\ \A i \in 1 .. n : v[i] = w[m + i]
  BY <1>1, <1>2, <1>3
<1> HIDE DEF v
<1>5. Len(v) = Len(b) /\ \A i \in 1 .. Len(v) : v[i] = b[i]
  BY <1>3, <1>4 DEF n
<1>6. v = b
  BY <1>4, <1>5, SameSeq
<1> QED
  BY <1>6 DEF v, w, m

AllComes ==
    /\ Came \in Seq(GotValues) /\ Coming \in Seq(GotValues)
    /\ Wanted = Came \o Coming
    /\ Wanted \in Seq(Passed)

LEMMA CameAndComing ==
    ASSUME OrdinaryInputs, SentOK, Framed
    PROVE  AllComes
<1>1. typed \in Inputs /\ sent \in Seq(LineAnswers)
  BY DEF Framed, SentOK
<1>2. PICK p \in Seq(Contents), q \in Seq(Contents) : Handling(p, q)
  BY DEF Framed
<1>3. p \in Seq(Seq(Symbols)) /\ q \in Seq(Seq(Symbols)) /\ Lines \in Seq(Seq(Symbols))
  BY <1>1, ContentsFacts, LinesFacts
<1>4. Kept(p) \o Kept(q) = Kept(Lines) /\ Outcome(p).sent = sent
  BY <1>2 DEF Handling, Outcome
<1>5. PICK rest \in Seq(GotValues) : ReadOfLines(Lines) = ReadOfLines(p) \o rest
  BY <1>3, <1>4, ReadInFront
<1>6. typed \in Seq(OrdinaryLines)
  BY <1>1, TypedOrdinary
<1>7. AsWanted(typed)
  BY <1>6, WantedIsRead DEF OrdinaryInputs, PlainMe
<1>8. Lines = LinesOf(typed)
  BY DEF Lines, LinesOf
<1>9. Wanted = ReadOfLines(Lines)
  BY <1>6, <1>7, <1>8, WantedIs DEF AsWanted
<1>10. ReadOfLines(p) = Came /\ Came \in Seq(GotValues) /\ Len(Came) = Len(Relayed)
  BY <1>1, <1>4, CameIs DEF ReadOfLines
<1>11. Wanted = Came \o rest
  BY <1>5, <1>9, <1>10
<1>12. Coming = rest
  <2>1. SubSeq(Came \o rest, Len(Came) + 1, Len(Came \o rest)) = rest
    BY <1>10, JoinEnd
  <2> QED
    BY <1>10, <1>11, <2>1 DEF Coming
<1>13. Wanted \in Seq(Passed)
  BY <1>6, WantedIs, WantedType
<1> QED
  BY <1>10, <1>11, <1>12, <1>13 DEF AllComes

(* A turn delivers the values that are read of what it sent.               *)
LEMMA TurnDelivers ==
    ASSUME SentOK, SentOK', AllComes, AllComes', NEW more \in Seq(LineAnswers),
           sent' = sent \o more, typed' = typed
    PROVE  \E out \in Seq(GotValues) : Came' = Came \o out /\ Coming = out \o Coming'
<1>1. sent \in Seq(LineAnswers)
  BY DEF SentOK
<1>2. Came = ReadsAll(sent)
  BY <1>1, CameIs
<1>3. Came' = ReadsAll(sent')
  BY DEF Came, Relayed, SentLines, ReadsAll, Reads
<1> DEFINE out == ReadsAll(more)
<1>4. out \in Seq(GotValues) /\ Came' = Came \o out
  <2>1. ReadsAll(sent \o more) = ReadsAll(sent) \o ReadsAll(more)
    BY <1>1, ReadsAllFacts
  <2>2. ReadsAll(more) \in Seq(GotValues)
    BY ReadsAllFacts
  <2> QED
    BY <1>2, <1>3, <2>1, <2>2
<1> HIDE DEF out
<1>5. Came \in Seq(GotValues) /\ Coming \in Seq(GotValues) /\ Wanted = Came \o Coming
  BY DEF AllComes
<1>6. Came' \in Seq(GotValues) /\ Coming' \in Seq(GotValues) /\ Wanted' = Came' \o Coming'
  BY DEF AllComes
<1>7. Wanted' = Wanted
  BY DEF Wanted, LoggedIn
<1> DEFINE c == Came
           d == Coming
           e == Coming'
<1>8. c \in Seq(GotValues) /\ d \in Seq(GotValues) /\ e \in Seq(GotValues) /\ c \o d = (c \o out) \o e
  BY <1>4, <1>5, <1>6, <1>7
<1> DEFINE oe == out \o e
<1> HIDE DEF c, d, e
<1>9. (c \o out) \o e = c \o oe
  BY <1>4, <1>8, ConcatFacts, SMTT(30)
<1>10. oe \in Seq(GotValues)
  BY <1>4, <1>8, ConcatFacts
<1> HIDE DEF oe
<1>11. d = oe
  BY <1>8, <1>9, <1>10, Cancel
<1> QED
  BY <1>4, <1>11, Zenon DEF oe, d, e

Delivered(d, out, e) == \E n \in 1 .. Len(d) : out = SubSeq(d, 1, n) /\ e = SubSeq(d, n + 1, Len(d))

LEMMA Delivers ==
    ASSUME NEW T, NEW out \in Seq(T), NEW e \in Seq(T), out # <<>>
    PROVE  Delivered(out \o e, out, e)
<1> DEFINE n == Len(out)
           d == out \o e
<1>1. IsJoin(d, out, e) /\ d \in Seq(T)
  BY JoinFacts
<1>2. n \in Nat /\ Len(e) \in Nat /\ n # 0
  OBVIOUS
<1>3. Len(d) = n + Len(e)
  BY <1>1 DEF IsJoin
<1>4. n \in 1 .. Len(d)
  BY <1>2, <1>3
<1>5. e = SubSeq(d, n + 1, Len(d))
  BY JoinEnd
<1>6. out = SubSeq(d, 1, n)
  <2> DEFINE v == SubSeq(d, 1, n)
  <2> HIDE DEF n
  <2>1. v \in Seq(T) /\ Len(v) = n /\ \A i \in 1 .. n : v[i] = d[i]
    BY <1>4
  <2> HIDE DEF v
  <2>2. \A i \in 1 .. n : d[i] = out[i]
    BY <1>1 DEF IsJoin, n
  <2>3. v = out
    BY <2>1, <2>2, SameSeq DEF n
  <2> QED
    BY <2>3 DEF v
<1> HIDE DEF n, d
<1>7. Delivered(d, out, e)
  BY <1>4, <1>5, <1>6 DEF Delivered
<1> QED
  BY <1>7 DEF d

(* Each turn is a step of the stream: it delivers what is read of what it  *)
(* sent, or, if that is nothing, is none.                                  *)
LEMMA TurnIsStep ==
    ASSUME SentOK, SentOK', AllComes, AllComes', [Next]_vars
    PROVE  [Transparent!Deliver]_(Transparent!vars)
<1>1. ASSUME Came' = Came, Coming' = Coming PROVE UNCHANGED Transparent!vars
  BY <1>1, Zenon DEF Transparent!vars, Came, Coming
<1>2. ASSUME NEW n \in 1 .. Len(Coming), Came' = Came \o SubSeq(Coming, 1, n),
             Coming' = SubSeq(Coming, n + 1, Len(Coming))
      PROVE  Transparent!Deliver
  BY <1>2, Zenon DEF Transparent!Deliver, Came, Coming
<1>3. CASE Receive
  <2>1. PICK k \in 1 .. Len(unread) :
            LET turn == ReadChunk(msg, SubSeq(unread, 1, k))
                end == AllHandled(user, turn.lines)
            IN  /\ msg' = turn.msg
                /\ unread' = SubSeq(unread, k + 1, Len(unread))
                /\ user' = end.user
                /\ sent' = sent \o end.sent
                /\ typed' = typed
    BY <1>3 DEF Receive
  <2> DEFINE chunk == SubSeq(unread, 1, k)
             turn == ReadChunk(msg, chunk)
             more == AllHandled(user, turn.lines).sent
  <2>2. sent' = sent \o more /\ typed' = typed
    BY <2>1
  <2>3. more \in Seq(LineAnswers)
    <3>1. unread \in Seq(Symbols) /\ msg \in Seq(Symbols) /\ user \in Users /\ chunk \in Seq(Symbols)
      BY <2>1 DEF SentOK
    <3> HIDE DEF chunk
    <3>2. turn.lines \in Seq(Seq(Symbols))
      BY <3>1, ReadChunkType
    <3> DEFINE end == AllHandled(user, turn.lines)
    <3> HIDE DEF turn
    <3>3. end \in Turns
      BY <3>1, <3>2, AllHandledFacts
    <3> QED
      BY <3>3 DEF Turns
  <2> HIDE DEF more
  <2>4. PICK out \in Seq(GotValues) : Came' = Came \o out /\ Coming = out \o Coming'
    BY <2>2, <2>3, TurnDelivers
  <2> DEFINE c == Came
             d == Coming
             e == Coming'
  <2>5. c \in Seq(GotValues) /\ d \in Seq(GotValues) /\ e \in Seq(GotValues)
    BY DEF AllComes
  <2>6. Came' = c \o out /\ d = out \o e /\ Came = c /\ Coming = d /\ Coming' = e
    BY <2>4
  <2> HIDE DEF c, d, e
  <2>7. CASE out = <<>>
    <3>1. c \o <<>> = c /\ <<>> \o e = e
      BY <2>5, SeqIsSeq, ConcatEmpty
    <3>2. Came' = Came /\ Coming' = Coming
      BY <2>6, <2>7, <3>1, Zenon
    <3> QED
      BY <1>1, <3>2
  <2>8. CASE out # <<>>
    <3>1. PICK n \in 1 .. Len(d) : out = SubSeq(d, 1, n) /\ e = SubSeq(d, n + 1, Len(d))
      <4>1. d = out \o e
        BY <2>6
      <4>2. Delivered(out \o e, out, e)
        BY <2>5, <2>8, Delivers
      <4> QED
        BY <4>1, <4>2, Zenon DEF Delivered
    <3>2. Transparent!Deliver
      BY <1>2, <2>6, <3>1, Zenon
    <3> QED
      BY <3>2
  <2> QED
    BY <2>7, <2>8
<1>4. CASE UNCHANGED vars
  <2>1. Came' = Came /\ Coming' = Coming
    BY <1>4 DEF vars, Came, Coming, Relayed, SentLines, Wanted, LoggedIn
  <2> QED
    BY <1>1, <2>1
<1> QED
  BY <1>3, <1>4 DEF Next, AllRead

LEMMA StreamInit ==
    ASSUME Init, AllComes
    PROVE  Transparent!Init
<1>1. Came = <<>>
  <2>1. Relayed = RelayedOf(FlattenSeq(<<>>))
    BY DEF Init, Relayed, SentLines
  <2> QED
    BY <2>1, FlattenEmpty, RelayedOne, ReadOfFacts DEF Came
<1>2. Coming = Wanted
  <2>1. IsSeq(Coming)
    BY SeqIsSeq DEF AllComes
  <2> QED
    BY <1>1, <2>1, ConcatEmpty DEF AllComes
<1>3. Coming \in Seq((DOMAIN Passwords \cup ChannelNames) \X Seq(Symbols))
  BY <1>2 DEF AllComes, Passed, Named
<1> QED
  BY <1>1, <1>3, Zenon DEF Transparent!Init, Came, Coming

(* Messages get through the server to other clients in order, once and     *)
(* unchanged, from whichever client to whichever and in whatever chunks    *)
(* the server reads them, among whatever other lines: for every password,  *)
(* channel and sequence of lines, as long as nobody writes a backslash or  *)
(* a tab where no client escapes one.                                      *)
THEOREM MessagesGetThrough ==
    ASSUME OrdinaryInputs
    PROVE  Spec => ImplementsLineStream
<1>1. SentOK /\ Framed => AllComes
  BY CameAndComing
<1>2. Init /\ AllComes => Transparent!Init
  BY StreamInit
<1>3. SentOK /\ SentOK' /\ AllComes /\ AllComes' /\ [Next]_vars => [Transparent!Deliver]_(Transparent!vars)
  BY TurnIsStep
<1> QED
  BY <1>1, <1>2, <1>3, FramedAlways, PTL DEF Spec, ImplementsLineStream, Transparent!Spec
=============================================================================

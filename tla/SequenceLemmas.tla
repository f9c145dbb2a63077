--------------------------- MODULE SequenceLemmas ---------------------------
(***************************************************************************)
(* Sequences of any values, for proofs about variables whose elements      *)
(* nothing restricts: the lines that a server sends, the jobs of an        *)
(* executor, the conversations of a client.  And what FlattenSeq makes of  *)
(* a sequence of sequences, by induction over their number: the library's  *)
(* theorems about induction have an operator as a parameter, but that no   *)
(* set of numbers lacks a smallest one has only sets.                      *)
(***************************************************************************)
EXTENDS Integers, Sequences, SequencesExt, WellFoundedInduction, TLAPS

IsSeq(s) == s \in Seq({s[i] : i \in DOMAIN s})

LEMMA SeqIsSeq == ASSUME NEW S, NEW s \in Seq(S) PROVE IsSeq(s)
  BY DEF IsSeq

LEMMA ElementType ==
    ASSUME NEW S, NEW s \in Seq(S), NEW i \in DOMAIN s
    PROVE  s[i] \in S
  OBVIOUS

LEMMA EmptyIsSeq == IsSeq(<<>>) /\ Len(<<>>) = 0 /\ DOMAIN <<>> = {}
  BY DEF IsSeq

LEMMA SingleIsSeq == ASSUME NEW a PROVE IsSeq(<<a>>) /\ Len(<<a>>) = 1
<1>1. <<a>> \in Seq({a})
  OBVIOUS
<1> QED
  BY <1>1, SeqIsSeq

LEMMA PairIsSeq == ASSUME NEW a, NEW b PROVE IsSeq(<<a, b>>) /\ Len(<<a, b>>) = 2
<1>1. <<a, b>> \in Seq({a, b})
  OBVIOUS
<1> QED
  BY <1>1, SeqIsSeq

LEMMA JoinIsSeq ==
    ASSUME NEW s, NEW t, IsSeq(s), IsSeq(t)
    PROVE  /\ IsSeq(s \o t) /\ Len(s \o t) = Len(s) + Len(t)
           /\ \A i \in DOMAIN s : i \in DOMAIN (s \o t) /\ (s \o t)[i] = s[i]
<1> DEFINE S == {s[i] : i \in DOMAIN s} \cup {t[i] : i \in DOMAIN t}
<1>1. s \in Seq(S) /\ t \in Seq(S)
  BY DEF IsSeq
<1> HIDE DEF S
<1>2. s \o t \in Seq(S) /\ Len(s \o t) = Len(s) + Len(t)
  BY <1>1
<1>3. \A i \in DOMAIN s : i \in DOMAIN (s \o t) /\ (s \o t)[i] = s[i]
  BY <1>1
<1>4. IsSeq(s \o t)
  BY <1>2, SeqIsSeq
<1> QED
  BY <1>2, <1>3, <1>4

LEMMA AppendIsSeq ==
    ASSUME NEW s, NEW e, IsSeq(s)
    PROVE  /\ IsSeq(Append(s, e)) /\ Len(Append(s, e)) = Len(s) + 1 /\ Len(s) \in Nat
           /\ DOMAIN s = 1 .. Len(s) /\ DOMAIN Append(s, e) = 1 .. Len(s) + 1
           /\ \A i \in DOMAIN s : Append(s, e)[i] = s[i]
           /\ Append(s, e)[Len(s) + 1] = e
<1> DEFINE S == {s[i] : i \in DOMAIN s} \cup {e}
<1>1. s \in Seq(S) /\ e \in S
  BY DEF IsSeq
<1> HIDE DEF S
<1>2. Append(s, e) \in Seq(S) /\ Len(Append(s, e)) = Len(s) + 1
  BY <1>1
<1>3. IsSeq(Append(s, e))
  BY <1>2, SeqIsSeq
<1> QED
  BY <1>1, <1>2, <1>3

LEMMA TailIsSeq ==
    ASSUME NEW s, IsSeq(s), s # <<>>
    PROVE  IsSeq(Tail(s)) /\ Len(Tail(s)) = Len(s) - 1
<1> DEFINE S == {s[i] : i \in DOMAIN s}
<1>1. s \in Seq(S)
  BY DEF IsSeq
<1> HIDE DEF S
<1>2. Tail(s) \in Seq(S) /\ Len(Tail(s)) = Len(s) - 1
  BY <1>1
<1> QED
  BY <1>2, SeqIsSeq

LEMMA DropIsSeq ==
    ASSUME NEW s, IsSeq(s), NEW n \in 1 .. Len(s)
    PROVE  IsSeq(SubSeq(s, n + 1, Len(s))) /\ Len(SubSeq(s, n + 1, Len(s))) = Len(s) - n
<1> DEFINE S == {s[i] : i \in DOMAIN s}
<1>1. s \in Seq(S)
  BY DEF IsSeq
<1> HIDE DEF S
<1>2. SubSeq(s, n + 1, Len(s)) \in Seq(S) /\ Len(SubSeq(s, n + 1, Len(s))) = Len(s) - n
  BY <1>1
<1> QED
  BY <1>2, SeqIsSeq

(* Where the elements of two sequences are when they are joined.           *)
IsJoin(c, a, b) ==
    /\ Len(c) = Len(a) + Len(b)
    /\ \A i \in 1 .. Len(a) : c[i] = a[i]
    /\ \A i \in 1 .. Len(b) : c[Len(a) + i] = b[i]

LEMMA JoinFacts ==
    ASSUME NEW T, NEW a \in Seq(T), NEW b \in Seq(T)
    PROVE  a \o b \in Seq(T) /\ IsJoin(a \o b, a, b)
<1>1. a \o b \in Seq(T) /\ Len(a \o b) = Len(a) + Len(b)
  OBVIOUS
<1>2. \A i \in 1 .. Len(a) : (a \o b)[i] = a[i]
  OBVIOUS
<1>3. \A i \in 1 .. Len(b) : (a \o b)[Len(a) + i] = b[i]
  OBVIOUS
<1> QED BY <1>1, <1>2, <1>3 DEF IsJoin

(* A sequence is what comes before one of its elements, that element and   *)
(* what comes after it.                                                    *)
LEMMA SplitAt ==
    ASSUME NEW T, NEW s \in Seq(T), NEW k \in 1 .. Len(s)
    PROVE  s = (SubSeq(s, 1, k - 1) \o <<s[k]>>) \o SubSeq(s, k + 1, Len(s))
<1> DEFINE n == Len(s)
           a == SubSeq(s, 1, k - 1)
           e == <<s[k]>>
           b == SubSeq(s, k + 1, n)
           u == a \o e
           v == u \o b
<1>1. n \in Nat /\ k \in 1 .. n /\ s[k] \in T
  OBVIOUS
<1>2. a \in Seq(T) /\ Len(a) = k - 1 /\ \A i \in 1 .. k - 1 : a[i] = s[i]
  BY <1>1
<1>3. e \in Seq(T) /\ Len(e) = 1 /\ e[1] = s[k]
  BY <1>1
<1>4. b \in Seq(T) /\ Len(b) = n - k /\ \A i \in 1 .. n - k : b[i] = s[i + k]
  <2>1. b \in Seq(T)
    BY <1>1
  <2>2. Len(b) = n - k
    BY <1>1, SeqIsSeq, DropIsSeq
  <2>3. \A i \in 1 .. n - k : b[i] = s[(k + 1) + i - 1]
    BY <1>1
  <2>4. \A i \in 1 .. n - k : (k + 1) + i - 1 = i + k
    BY <1>1
  <2> QED BY <2>1, <2>2, <2>3, <2>4
<1> HIDE DEF a, e, b
<1>5. u \in Seq(T) /\ Len(u) = k /\ \A i \in 1 .. k : u[i] = s[i]
  <2>1. /\ u \in Seq(T) /\ Len(u) = Len(a) + Len(e)
        /\ \A i \in 1 .. Len(a) : u[i] = a[i]
        /\ \A i \in 1 .. Len(e) : u[Len(a) + i] = e[i]
    <3>1. u \in Seq(T) /\ IsJoin(u, a, e)
      BY <1>2, <1>3, JoinFacts
    <3> QED BY <3>1 DEF IsJoin
  <2> HIDE DEF u
  <2>2. Len(u) = k /\ \A i \in 1 .. k - 1 : u[i] = s[i]
    BY <1>1, <1>2, <1>3, <2>1
  <2>3. 1 \in 1 .. Len(e) /\ Len(a) + 1 = k
    BY <1>1, <1>2, <1>3
  <2>4. u[k] = s[k]
    BY <1>3, <2>1, <2>3
  <2> QED BY <1>1, <2>1, <2>2, <2>4
<1> HIDE DEF u
<1>6. /\ v \in Seq(T) /\ Len(v) = n
      /\ \A i \in 1 .. k : v[i] = u[i]
      /\ \A i \in 1 .. n - k : v[k + i] = b[i]
  <2>1. /\ v \in Seq(T) /\ Len(v) = Len(u) + Len(b)
        /\ \A i \in 1 .. Len(u) : v[i] = u[i]
        /\ \A i \in 1 .. Len(b) : v[Len(u) + i] = b[i]
    <3>1. v \in Seq(T) /\ IsJoin(v, u, b)
      BY <1>4, <1>5, JoinFacts
    <3> QED BY <3>1 DEF IsJoin
  <2> HIDE DEF v
  <2> QED BY <1>1, <1>4, <1>5, <2>1
<1> HIDE DEF v
<1>7. ASSUME NEW i \in 1 .. n PROVE v[i] = s[i]
  <2>1. CASE i <= k
    BY <1>1, <1>5, <1>6, <2>1
  <2>2. CASE ~(i <= k)
    <3>1. i - k \in 1 .. n - k /\ (i - k) + k = i /\ k + (i - k) = i
      BY <1>1, <2>2
    <3>2. v[i] = b[i - k]
      BY <1>6, <3>1
    <3> QED BY <1>4, <3>1, <3>2
  <2> QED BY <2>1, <2>2
<1> HIDE DEF v
<1>8. v = s
  BY <1>1, <1>6, <1>7 DEF n
<1> QED BY <1>8 DEF a, e, b, u, v, n

-----------------------------------------------------------------------------
(* Induction: a set that has 0 and with a number the next one has all.     *)
LEMMA NatLess == IsWellFoundedOn({ss \in Nat \X Nat : ss[1] < ss[2]}, Nat)
  BY NatLessThanWellFounded DEF OpToRel

LEMMA Induct ==
    ASSUME NEW S, 0 \in S, \A n \in Nat : n \in S => n + 1 \in S
    PROVE  Nat \subseteq S
<1> DEFINE R == {ss \in Nat \X Nat : ss[1] < ss[2]}
           T == Nat \ S
<1>1. SUFFICES ASSUME T # {} PROVE FALSE
  OBVIOUS
<1>2. PICK x \in T : \A y \in T : ~(<<y, x>> \in R)
  BY <1>1, NatLess, WFMin
<1>3. x \in Nat /\ x # 0 /\ x - 1 \in Nat
  BY <1>2
<1>4. <<x-1, x>> \in R
  BY <1>3
<1>5. x - 1 \in S
  BY <1>2, <1>3, <1>4
<1>6. (x - 1) + 1 \in S
  BY <1>3, <1>5
<1> QED BY <1>2, <1>3, <1>6

-----------------------------------------------------------------------------
(* f is the recursive function of FlattenSeq for the first n sequences.    *)
Flattens(f, s, n) == f = [i \in 1 .. n |-> IF i = 1 THEN s[i] ELSE f[i - 1] \o s[i]]

(* There is one, so FlattenSeq is its last value.                          *)
LEMMA FlattensExists ==
    ASSUME NEW s, NEW n \in Nat
    PROVE  \E f : Flattens(f, s, n)
<1> DEFINE S == {k \in Nat : \E f : Flattens(f, s, k)}
<1>1. 0 \in S
  <2>1. Flattens([i \in {} |-> i], s, 0)
    BY DEF Flattens
  <2> QED BY <2>1
<1>2. ASSUME NEW k \in Nat, k \in S PROVE k + 1 \in S
  <2>1. PICK f : Flattens(f, s, k)
    BY <1>2
  <2> DEFINE g == [i \in 1 .. k + 1 |-> IF i <= k THEN f[i]
                                          ELSE IF i = 1 THEN s[i] ELSE f[i - 1] \o s[i]]
  <2>2. \A i \in 1 .. k : f[i] = IF i = 1 THEN s[i] ELSE f[i - 1] \o s[i]
    BY <2>1 DEF Flattens
  <2>3. \A i \in 1 .. k : g[i] = f[i]
    OBVIOUS
  <2>4. ASSUME NEW i \in 1 .. k + 1 PROVE g[i] = IF i = 1 THEN s[i] ELSE g[i - 1] \o s[i]
    <3>1. CASE i = 1
      BY <3>1, <2>2
    <3>2. CASE i # 1
      <4>1. i - 1 \in 1 .. k /\ g[i - 1] = f[i - 1]
        BY <3>2, <2>3
      <4>2. g[i] = f[i - 1] \o s[i]
        <5>1. CASE i <= k
          <6>1. i \in 1 .. k
            BY <5>1
          <6> QED BY <6>1, <2>2, <2>3, <3>2
        <5>2. CASE ~(i <= k)
          BY <5>2, <3>2
        <5> QED BY <5>1, <5>2
      <4> QED BY <4>1, <4>2, <3>2
    <3> QED BY <3>1, <3>2
  <2>5. g = [i \in 1 .. k + 1 |-> IF i = 1 THEN s[i] ELSE g[i - 1] \o s[i]]
    <3>1. g = [i \in 1 .. k + 1 |-> g[i]]
      OBVIOUS
    <3> HIDE DEF g
    <3> QED BY <3>1, <2>4
  <2>6. Flattens(g, s, k + 1)
    BY <2>5 DEF Flattens
  <2> HIDE DEF g
  <2> QED BY <2>6
<1> HIDE DEF S
<1>3. Nat \subseteq S
  BY <1>1, <1>2, Induct
<1> QED BY <1>3 DEF S

LEMMA FlattenSeqIs ==
    ASSUME NEW s, Len(s) \in Nat, Len(s) # 0
    PROVE  \E f : Flattens(f, s, Len(s)) /\ FlattenSeq(s) = f[Len(s)]
<1> DEFINE n == Len(s)
           f == CHOOSE f : f = [i \in 1 .. n |-> IF i = 1 THEN s[i] ELSE f[i - 1] \o s[i]]
<1>1. \E g : g = [i \in 1 .. n |-> IF i = 1 THEN s[i] ELSE g[i - 1] \o s[i]]
  BY FlattensExists DEF Flattens
<1>2. f = [i \in 1 .. n |-> IF i = 1 THEN s[i] ELSE f[i - 1] \o s[i]]
  BY <1>1
<1>3. FlattenSeq(s) = f[n]
  BY Zenon DEF FlattenSeq
<1> QED BY <1>2, <1>3 DEF Flattens

LEMMA FlattensUnfold ==
    ASSUME NEW s, NEW n \in Nat, NEW f, Flattens(f, s, n), NEW i \in 1 .. n
    PROVE  f[i] = IF i = 1 THEN s[i] ELSE f[i - 1] \o s[i]
  BY DEF Flattens

(* Its values depend on the sequences before only.                         *)
LEMMA FlattensAgree ==
    ASSUME NEW s, NEW t, NEW m \in Nat, NEW n \in Nat, NEW f, NEW g,
           Flattens(f, s, m), Flattens(g, t, n), m <= n, \A i \in 1 .. m : s[i] = t[i]
    PROVE  \A i \in 1 .. m : f[i] = g[i]
<1> DEFINE S == {k \in Nat : k \in 1 .. m => f[k] = g[k]}
<1>1. \A i \in 1 .. m : f[i] = IF i = 1 THEN s[i] ELSE f[i - 1] \o s[i]
  BY FlattensUnfold
<1>2. \A i \in 1 .. m : g[i] = IF i = 1 THEN t[i] ELSE g[i - 1] \o t[i]
  <2>1. \A i \in 1 .. m : i \in 1 .. n
    OBVIOUS
  <2> QED BY <2>1, FlattensUnfold
<1>3. ASSUME NEW k \in Nat, k \in S PROVE k + 1 \in S
  <2>1. SUFFICES ASSUME k + 1 \in 1 .. m PROVE f[k + 1] = g[k + 1]
    OBVIOUS
  <2>2. CASE k = 0
    BY <2>1, <2>2, <1>1, <1>2
  <2>3. CASE k # 0
    <3>1. k \in 1 .. m /\ f[k] = g[k] /\ k + 1 # 1 /\ (k + 1) - 1 = k
      BY <2>1, <2>3, <1>3
    <3>2. f[k + 1] = f[k] \o s[k + 1] /\ g[k + 1] = g[k] \o t[k + 1] /\ s[k + 1] = t[k + 1]
      BY <3>1, <2>1, <1>1, <1>2
    <3> QED BY <3>1, <3>2
  <2> QED BY <2>2, <2>3
<1>4. 0 \in S
  OBVIOUS
<1> HIDE DEF S
<1>5. Nat \subseteq S
  BY <1>3, <1>4, Induct
<1> QED BY <1>5 DEF S

(* What FlattenSeq makes of no sequence, of one, and of one more.          *)
LEMMA FlattenEmpty == FlattenSeq(<<>>) = <<>>
  BY DEF FlattenSeq

LEMMA FlattenSingle == ASSUME NEW a PROVE FlattenSeq(<<a>>) = a
<1> DEFINE s == <<a>>
<1>1. Len(s) = 1 /\ s[1] = a
  OBVIOUS
<1> HIDE DEF s
<1>2. Len(s) \in Nat /\ Len(s) # 0
  BY <1>1
<1>3. PICK f : Flattens(f, s, Len(s)) /\ FlattenSeq(s) = f[Len(s)]
  BY <1>2, FlattenSeqIs
<1>4. \A i \in 1 .. Len(s) : f[i] = IF i = 1 THEN s[i] ELSE f[i - 1] \o s[i]
  BY <1>2, <1>3, FlattensUnfold
<1> QED BY <1>1, <1>3, <1>4 DEF s

LEMMA FlattenAppend ==
    ASSUME NEW T, NEW s \in Seq(Seq(T)), NEW e \in Seq(T)
    PROVE  FlattenSeq(Append(s, e)) = FlattenSeq(s) \o e
<1> DEFINE t == Append(s, e)
           n == Len(s)
<1>1. n \in Nat /\ Len(t) = n + 1 /\ t[n + 1] = e /\ \A i \in 1 .. n : t[i] = s[i]
  OBVIOUS
<1>2. CASE n = 0
  <2>1. s = <<>> /\ t = <<e>>
    BY <1>2
  <2> QED BY <2>1, FlattenEmpty, FlattenSingle
<1>3. CASE n # 0
  <2> HIDE DEF t, n
  <2>1. PICK g : Flattens(g, t, n + 1) /\ FlattenSeq(t) = g[n + 1]
    BY <1>1, FlattenSeqIs
  <2>2. PICK f : Flattens(f, s, n) /\ FlattenSeq(s) = f[n]
    BY <1>1, <1>3, FlattenSeqIs DEF n
  <2>3. f[n] = g[n]
    BY <1>1, <1>3, <2>1, <2>2, FlattensAgree
  <2>4. g[n + 1] = g[n] \o t[n + 1]
    <3>1. n + 1 \in Nat /\ n + 1 \in 1 .. n + 1 /\ n + 1 # 1 /\ (n + 1) - 1 = n
      BY <1>1, <1>3
    <3>2. \A i \in 1 .. n + 1 : g[i] = IF i = 1 THEN t[i] ELSE g[i - 1] \o t[i]
      BY <3>1, <2>1, FlattensUnfold
    <3> QED BY <3>1, <3>2
  <2> QED BY <1>1, <2>1, <2>2, <2>3, <2>4 DEF t
<1> QED BY <1>2, <1>3

LEMMA ConcatFacts ==
    ASSUME NEW T
    PROVE  /\ \A a, b \in Seq(T) : a \o b \in Seq(T)
           /\ \A a, b, c \in Seq(T) : (a \o b) \o c = a \o (b \o c)
           /\ \A a, b \in Seq(T), e \in T : a \o Append(b, e) = Append(a \o b, e)
<1>1. \A a, b \in Seq(T) : a \o b \in Seq(T)
  OBVIOUS
<1>2. \A a, b, c \in Seq(T) : (a \o b) \o c = a \o (b \o c)
  OBVIOUS
<1>3. \A a, b \in Seq(T), e \in T : a \o Append(b, e) = Append(a \o b, e)
  OBVIOUS
<1> QED BY <1>1, <1>2, <1>3

(* To flatten two lists of sequences is to flatten each.                   *)
LEMMA FlattenJoin ==
    ASSUME NEW T, NEW s \in Seq(Seq(T)), NEW t \in Seq(Seq(T))
    PROVE  /\ FlattenSeq(s \o t) = FlattenSeq(s) \o FlattenSeq(t)
           /\ FlattenSeq(s) \in Seq(T)
<1>0. /\ \A a, b \in Seq(Seq(T)) : a \o b \in Seq(Seq(T))
      /\ \A a, b \in Seq(Seq(T)), e \in Seq(T) : a \o Append(b, e) = Append(a \o b, e)
      /\ \A a, b, c \in Seq(T) : a \o b \in Seq(T) /\ (a \o b) \o c = a \o (b \o c)
  <2>1. \A a, b \in Seq(Seq(T)) : a \o b \in Seq(Seq(T))
    BY ConcatFacts
  <2>2. \A a, b \in Seq(Seq(T)), e \in Seq(T) : a \o Append(b, e) = Append(a \o b, e)
    BY ConcatFacts, SMTT(30)
  <2>3. \A a, b, c \in Seq(T) : a \o b \in Seq(T) /\ (a \o b) \o c = a \o (b \o c)
    BY ConcatFacts
  <2> QED BY <2>1, <2>2, <2>3
<1> DEFINE p(u, k) == SubSeq(u, 1, k)
           X(u) == {k \in Nat : k <= Len(u) => FlattenSeq(p(u, k)) \in Seq(T)}
           S == {k \in Nat : k <= Len(t) =>
                    FlattenSeq(s \o p(t, k)) = FlattenSeq(s) \o FlattenSeq(p(t, k))}
<1>1. ASSUME NEW u \in Seq(Seq(T))
      PROVE  /\ Len(u) \in Nat /\ p(u, 0) = <<>> /\ p(u, Len(u)) = u
             /\ \A k \in Nat : k + 1 <= Len(u) =>
                    /\ k <= Len(u) /\ p(u, k) \in Seq(Seq(T)) /\ u[k + 1] \in Seq(T)
                    /\ p(u, k + 1) = Append(p(u, k), u[k + 1])
  OBVIOUS
<1> HIDE DEF p
<1>2. ASSUME NEW u \in Seq(Seq(T)) PROVE FlattenSeq(u) \in Seq(T)
  <2>1. 0 \in X(u)
    BY <1>1, FlattenEmpty
  <2>2. ASSUME NEW k \in Nat, k \in X(u) PROVE k + 1 \in X(u)
    <3>1. SUFFICES ASSUME k + 1 <= Len(u) PROVE FlattenSeq(p(u, k + 1)) \in Seq(T)
      OBVIOUS
    <3>2. FlattenSeq(p(u, k)) \in Seq(T) /\ u[k + 1] \in Seq(T)
      BY <1>1, <2>2, <3>1
    <3>3. FlattenSeq(p(u, k + 1)) = FlattenSeq(p(u, k)) \o u[k + 1]
      BY <1>1, <3>1, FlattenAppend, ZenonT(30)
    <3> QED BY <3>2, <3>3, <1>0
  <2> HIDE DEF X
  <2>3. Nat \subseteq X(u)
    BY <2>1, <2>2, Induct
  <2>4. Len(u) \in X(u)
    BY <2>3, <1>1
  <2> QED BY <2>4, <1>1 DEF X
<1>3. 0 \in S
  <2>1. s \o <<>> = s /\ FlattenSeq(s) \o <<>> = FlattenSeq(s)
    BY <1>2
  <2> QED BY <2>1, <1>1, FlattenEmpty
<1>4. ASSUME NEW k \in Nat, k \in S PROVE k + 1 \in S
  <2>1. SUFFICES ASSUME k + 1 <= Len(t)
                 PROVE FlattenSeq(s \o p(t, k + 1)) = FlattenSeq(s) \o FlattenSeq(p(t, k + 1))
    OBVIOUS
  <2>2. /\ p(t, k) \in Seq(Seq(T)) /\ t[k + 1] \in Seq(T)
        /\ p(t, k + 1) = Append(p(t, k), t[k + 1])
        /\ FlattenSeq(s \o p(t, k)) = FlattenSeq(s) \o FlattenSeq(p(t, k))
    BY <1>1, <1>4, <2>1
  <2>3. s \o p(t, k + 1) = Append(s \o p(t, k), t[k + 1]) /\ s \o p(t, k) \in Seq(Seq(T))
    <3>1. s \o p(t, k + 1) = Append(s \o p(t, k), t[k + 1])
      <4>1. s \o Append(p(t, k), t[k + 1]) = Append(s \o p(t, k), t[k + 1])
        BY <2>2, <1>0
      <4> QED BY <2>2, <4>1, Zenon
    <3>2. s \o p(t, k) \in Seq(Seq(T))
      BY <2>2, <1>0
    <3> QED BY <3>1, <3>2
  <2>4. FlattenSeq(s \o p(t, k + 1)) = FlattenSeq(s \o p(t, k)) \o t[k + 1]
    BY <2>2, <2>3, FlattenAppend
  <2>5. FlattenSeq(p(t, k + 1)) = FlattenSeq(p(t, k)) \o t[k + 1]
    BY <2>2, FlattenAppend
  <2>6. FlattenSeq(s) \in Seq(T) /\ FlattenSeq(p(t, k)) \in Seq(T)
    BY <1>2, <2>2
  <2>7. (FlattenSeq(s) \o FlattenSeq(p(t, k))) \o t[k + 1] =
            FlattenSeq(s) \o (FlattenSeq(p(t, k)) \o t[k + 1])
    BY <2>2, <2>6, <1>0
  <2> QED BY <2>2, <2>4, <2>5, <2>7, Zenon
<1> HIDE DEF S
<1>5. Nat \subseteq S
  BY <1>3, <1>4, Induct
<1>6. FlattenSeq(s \o p(t, Len(t))) = FlattenSeq(s) \o FlattenSeq(p(t, Len(t)))
  BY <1>1, <1>5 DEF S
<1> QED BY <1>1, <1>2, <1>6

-----------------------------------------------------------------------------
(* Every element of s replaced by the sequence that f makes of it.         *)
Maps(f, S, T) == f \in [S -> Seq(T)]
FlatMap(f, s) == FlattenSeq([i \in DOMAIN s |-> f[s[i]]])

LEMMA FunctionIsSeq ==
    ASSUME NEW V, NEW n \in Nat, NEW g \in [1 .. n -> V]
    PROVE  g \in Seq(V) /\ Len(g) = n /\ DOMAIN g = 1 .. n
  OBVIOUS

LEMMA FlatMapJoin ==
    ASSUME NEW S, NEW T, NEW f, Maps(f, S, T), NEW s \in Seq(S), NEW t \in Seq(S)
    PROVE  /\ FlatMap(f, s \o t) = FlatMap(f, s) \o FlatMap(f, t)
           /\ FlatMap(f, s) \in Seq(T)
<1> DEFINE M(u) == [i \in DOMAIN u |-> f[u[i]]]
<1>0. f \in [S -> Seq(T)]
  BY DEF Maps
<1>1. \A u \in Seq(S) : M(u) \in Seq(Seq(T)) /\ Len(M(u)) = Len(u) /\ DOMAIN M(u) = 1 .. Len(u)
  <2> TAKE u \in Seq(S)
  <2>1. Len(u) \in Nat /\ M(u) \in [1 .. Len(u) -> Seq(T)]
    BY <1>0
  <2> HIDE DEF M
  <2> QED BY <2>1, FunctionIsSeq
<1>2. M(s \o t) = M(s) \o M(t)
  <2>1. s \o t \in Seq(S) /\ Len(s \o t) = Len(s) + Len(t) /\ Len(s) \in Nat /\ Len(t) \in Nat
    OBVIOUS
  <2>2. ASSUME NEW i \in 1 .. Len(s) + Len(t)
        PROVE  M(s \o t)[i] = (M(s) \o M(t))[i]
    OBVIOUS
  <2>3. M(s) \o M(t) \in Seq(Seq(T)) /\ Len(M(s) \o M(t)) = Len(s) + Len(t)
    <3>1. M(s) \in Seq(Seq(T)) /\ M(t) \in Seq(Seq(T)) /\ Len(M(s)) = Len(s) /\ Len(M(t)) = Len(t)
      BY <1>1
    <3> HIDE DEF M
    <3>2. \A a, b \in Seq(Seq(T)) : a \o b \in Seq(Seq(T)) /\ Len(a \o b) = Len(a) + Len(b)
      <4>1. \A a, b \in Seq(Seq(T)) : a \o b \in Seq(Seq(T))
        BY ConcatFacts
      <4>2. \A a, b \in Seq(Seq(T)) : Len(a \o b) = Len(a) + Len(b)
        OBVIOUS
      <4> QED BY <4>1, <4>2
    <3> QED BY <3>1, <3>2
  <2> DEFINE a == M(s \o t)
             b == M(s) \o M(t)
  <2>4. a \in Seq(Seq(T)) /\ Len(a) = Len(s) + Len(t)
    BY <1>1, <2>1
  <2>5. b \in Seq(Seq(T)) /\ Len(b) = Len(s) + Len(t) /\ \A i \in 1 .. Len(s)+Len(t) : a[i] = b[i]
    BY <2>2, <2>3
  <2> HIDE DEF a, b
  <2>6. a = b
    BY <2>4, <2>5
  <2> QED BY <2>6 DEF a, b
<1> HIDE DEF M
<1>3. FlattenSeq(M(s) \o M(t)) = FlattenSeq(M(s)) \o FlattenSeq(M(t)) /\ FlattenSeq(M(s)) \in Seq(T)
  BY <1>1, FlattenJoin
<1> QED BY <1>2, <1>3, Zenon DEF FlatMap, M

LEMMA FlatMapEmpty == ASSUME NEW f PROVE FlatMap(f, <<>>) = <<>>
<1>1. [i \in DOMAIN <<>> |-> f[<<>>[i]]] = <<>>
  OBVIOUS
<1> QED BY <1>1, FlattenEmpty DEF FlatMap

LEMMA FlatMapSingle == ASSUME NEW f, NEW a PROVE FlatMap(f, <<a>>) = f[a]
<1>1. [i \in DOMAIN <<a>> |-> f[<<a>>[i]]] = <<f[a]>>
  OBVIOUS
<1> QED BY <1>1, FlattenSingle DEF FlatMap

(* How a sequence grows to its length.                                     *)
LEMMA PrefixFacts ==
    ASSUME NEW T, NEW s \in Seq(T)
    PROVE  /\ Len(s) \in Nat /\ SubSeq(s, 1, 0) = <<>> /\ SubSeq(s, 1, Len(s)) = s
           /\ \A k \in Nat : k + 1 <= Len(s) =>
                  /\ k <= Len(s) /\ k + 1 \in DOMAIN s /\ s[k + 1] \in T
                  /\ SubSeq(s, 1, k) \in Seq(T) /\ <<s[k + 1]>> \in Seq(T)
                  /\ SubSeq(s, 1, k + 1) = SubSeq(s, 1, k) \o <<s[k + 1]>>
<1>1. Len(s) \in Nat /\ SubSeq(s, 1, 0) = <<>> /\ SubSeq(s, 1, Len(s)) = s
  OBVIOUS
<1>2. ASSUME NEW k \in Nat, k + 1 <= Len(s)
      PROVE  /\ k <= Len(s) /\ k + 1 \in DOMAIN s /\ s[k + 1] \in T
             /\ SubSeq(s, 1, k) \in Seq(T) /\ <<s[k + 1]>> \in Seq(T)
             /\ SubSeq(s, 1, k + 1) = SubSeq(s, 1, k) \o <<s[k + 1]>>
  <2>1. k <= Len(s) /\ k + 1 \in DOMAIN s /\ s[k + 1] \in T
    BY <1>2
  <2>2. SubSeq(s, 1, k) \in Seq(T) /\ <<s[k + 1]>> \in Seq(T)
    BY <1>2, <2>1
  <2>3. SubSeq(s, 1, k + 1) = SubSeq(s, 1, k) \o <<s[k + 1]>>
    BY <1>2, <2>1
  <2> QED BY <2>1, <2>2, <2>3
<1> QED BY <1>1, <1>2

(* What f leaves alone.                                                    *)
LEMMA FlatMapSame ==
    ASSUME NEW T, NEW f, Maps(f, T, T), NEW s \in Seq(T),
           \A i \in DOMAIN s : f[s[i]] = <<s[i]>>
    PROVE  FlatMap(f, s) = s
<1> DEFINE p(k) == SubSeq(s, 1, k)
           S == {k \in Nat : k <= Len(s) => FlatMap(f, p(k)) = p(k)}
<1>1. /\ Len(s) \in Nat /\ p(0) = <<>> /\ p(Len(s)) = s
      /\ \A k \in Nat : k + 1 <= Len(s) =>
             /\ k <= Len(s) /\ k + 1 \in DOMAIN s /\ s[k + 1] \in T
             /\ p(k) \in Seq(T) /\ <<s[k + 1]>> \in Seq(T)
             /\ p(k + 1) = p(k) \o <<s[k + 1]>>
  BY PrefixFacts, Zenon
<1>0. \A a, b \in Seq(T) : /\ FlatMap(f, a \o b) = FlatMap(f, a) \o FlatMap(f, b)
                           /\ FlatMap(f, a) \in Seq(T)
  BY FlatMapJoin, Zenon
<1> HIDE DEF p
<1>2. 0 \in S
  BY <1>1, FlatMapEmpty
<1>3. ASSUME NEW k \in Nat, k \in S PROVE k + 1 \in S
  <2>1. SUFFICES ASSUME k + 1 <= Len(s) PROVE FlatMap(f, p(k + 1)) = p(k + 1)
    OBVIOUS
  <2>2. /\ FlatMap(f, p(k)) = p(k) /\ k + 1 \in DOMAIN s /\ p(k) \in Seq(T)
        /\ <<s[k + 1]>> \in Seq(T) /\ p(k + 1) = p(k) \o <<s[k + 1]>>
    BY <1>1, <1>3, <2>1
  <2>3. FlatMap(f, p(k) \o <<s[k + 1]>>) = FlatMap(f, p(k)) \o FlatMap(f, <<s[k + 1]>>)
    BY <2>2, <1>0
  <2>4. FlatMap(f, <<s[k + 1]>>) = <<s[k + 1]>>
    BY <2>2, FlatMapSingle
  <2> QED BY <2>2, <2>3, <2>4, Zenon
<1> HIDE DEF S
<1>4. Nat \subseteq S
  BY <1>2, <1>3, Induct
<1> QED BY <1>1, <1>4 DEF S

(* Nothing, where f makes nothing of any element.                          *)
LEMMA FlatMapNone ==
    ASSUME NEW T, NEW f, Maps(f, T, T), NEW s \in Seq(T),
           \A i \in DOMAIN s : f[s[i]] = <<>>
    PROVE  FlatMap(f, s) = <<>>
<1> DEFINE p(k) == SubSeq(s, 1, k)
           S == {k \in Nat : k <= Len(s) => FlatMap(f, p(k)) = <<>>}
<1>1. /\ Len(s) \in Nat /\ p(0) = <<>> /\ p(Len(s)) = s
      /\ \A k \in Nat : k + 1 <= Len(s) =>
             /\ k <= Len(s) /\ k + 1 \in DOMAIN s /\ s[k + 1] \in T
             /\ p(k) \in Seq(T) /\ <<s[k + 1]>> \in Seq(T)
             /\ p(k + 1) = p(k) \o <<s[k + 1]>>
  BY PrefixFacts, Zenon
<1>0. \A a, b \in Seq(T) : /\ FlatMap(f, a \o b) = FlatMap(f, a) \o FlatMap(f, b)
                           /\ FlatMap(f, a) \in Seq(T)
  BY FlatMapJoin, Zenon
<1> HIDE DEF p
<1>2. 0 \in S
  BY <1>1, FlatMapEmpty
<1>3. ASSUME NEW k \in Nat, k \in S PROVE k + 1 \in S
  <2>1. SUFFICES ASSUME k + 1 <= Len(s) PROVE FlatMap(f, p(k + 1)) = <<>>
    OBVIOUS
  <2>2. /\ FlatMap(f, p(k)) = <<>> /\ k + 1 \in DOMAIN s /\ p(k) \in Seq(T)
        /\ <<s[k + 1]>> \in Seq(T) /\ p(k + 1) = p(k) \o <<s[k + 1]>>
    BY <1>1, <1>3, <2>1
  <2>3. FlatMap(f, p(k) \o <<s[k + 1]>>) = FlatMap(f, p(k)) \o FlatMap(f, <<s[k + 1]>>)
    BY <2>2, <1>0
  <2>4. FlatMap(f, <<s[k + 1]>>) = <<>>
    BY <2>2, FlatMapSingle
  <2>5. <<>> \o <<>> = <<>>
    OBVIOUS
  <2> QED BY <2>2, <2>3, <2>4, <2>5, Zenon
<1> HIDE DEF S
<1>4. Nat \subseteq S
  BY <1>2, <1>3, Induct
<1> QED BY <1>1, <1>4 DEF S

(* g after f, where that makes of each element what g makes of it.         *)
LEMMA FlatMapThrough ==
    ASSUME NEW T, NEW f, NEW g, Maps(f, T, T), Maps(g, T, T), NEW s \in Seq(T),
           \A x \in T : FlatMap(g, f[x]) = g[x]
    PROVE  FlatMap(g, FlatMap(f, s)) = FlatMap(g, s)
<1> DEFINE p(k) == SubSeq(s, 1, k)
           S == {k \in Nat : k <= Len(s) => FlatMap(g, FlatMap(f, p(k))) = FlatMap(g, p(k))}
<1>1. /\ Len(s) \in Nat /\ p(0) = <<>> /\ p(Len(s)) = s
      /\ \A k \in Nat : k + 1 <= Len(s) =>
             /\ k <= Len(s) /\ k + 1 \in DOMAIN s /\ s[k + 1] \in T
             /\ p(k) \in Seq(T) /\ <<s[k + 1]>> \in Seq(T)
             /\ p(k + 1) = p(k) \o <<s[k + 1]>>
  BY PrefixFacts, Zenon
<1>0. \A a, b \in Seq(T) : /\ FlatMap(f, a \o b) = FlatMap(f, a) \o FlatMap(f, b)
                           /\ FlatMap(f, a) \in Seq(T)
  BY FlatMapJoin, Zenon
<1>5. \A a, b \in Seq(T) : /\ FlatMap(g, a \o b) = FlatMap(g, a) \o FlatMap(g, b)
                           /\ FlatMap(g, a) \in Seq(T)
  BY FlatMapJoin, Zenon
<1> HIDE DEF p
<1>2. 0 \in S
  BY <1>1, FlatMapEmpty
<1>3. ASSUME NEW k \in Nat, k \in S PROVE k + 1 \in S
  <2>1. SUFFICES ASSUME k + 1 <= Len(s)
                 PROVE  FlatMap(g, FlatMap(f, p(k + 1))) = FlatMap(g, p(k + 1))
    OBVIOUS
  <2> DEFINE x == s[k + 1]
             a == FlatMap(f, p(k))
             b == FlatMap(f, <<x>>)
  <2>2. /\ FlatMap(g, a) = FlatMap(g, p(k)) /\ x \in T /\ p(k) \in Seq(T)
        /\ <<x>> \in Seq(T) /\ p(k + 1) = p(k) \o <<x>>
    BY <1>1, <1>3, <2>1
  <2>3. FlatMap(f, p(k) \o <<x>>) = a \o b /\ a \in Seq(T) /\ b \in Seq(T)
    BY <2>2, <1>0
  <2>4. FlatMap(g, p(k) \o <<x>>) = FlatMap(g, p(k)) \o FlatMap(g, <<x>>)
    BY <2>2, <1>5
  <2>5. b = f[x] /\ FlatMap(g, <<x>>) = g[x]
    BY FlatMapSingle
  <2>6. FlatMap(g, f[x]) = g[x]
    BY <2>2
  <2> HIDE DEF x, a, b
  <2>7. FlatMap(g, a \o b) = FlatMap(g, a) \o FlatMap(g, b)
    BY <2>3, <1>5
  <2> QED BY <2>2, <2>3, <2>4, <2>5, <2>6, <2>7, Zenon
<1> HIDE DEF S
<1>4. Nat \subseteq S
  BY <1>2, <1>3, Induct
<1> QED BY <1>1, <1>4 DEF S

(* A set of numbers that is not empty has a smallest one.                  *)
LEMMA Smallest ==
    ASSUME NEW S, S \subseteq Nat, S # {}
    PROVE  \E n \in S : \A k \in S : n <= k
<1> DEFINE R == {ss \in Nat \X Nat : ss[1] < ss[2]}
<1>1. PICK n \in S : \A k \in S : ~(<<k, n>> \in R)
  BY NatLess, WFMin
<1>2. \A k \in S : ~(k < n)
  BY <1>1
<1> QED BY <1>1, <1>2

LEMMA Largest ==
    ASSUME NEW n \in Nat, NEW S, S \subseteq 0 .. n, S # {}
    PROVE  \E m \in S : \A k \in S : m >= k
<1> DEFINE R == {n - k : k \in S}
<1>1. R \subseteq Nat /\ R # {}
  <2>1. PICK k \in S : TRUE
    OBVIOUS
  <2>2. n - k \in R
    OBVIOUS
  <2>3. \A j \in S : n - j \in Nat
    OBVIOUS
  <2> QED BY <2>2, <2>3
<1>2. PICK r \in R : \A k \in R : r <= k
  BY <1>1, Smallest
<1>3. PICK m \in S : r = n - m
  BY <1>2
<1>4. \A k \in S : n - m <= n - k
  BY <1>2, <1>3
<1> QED BY <1>3, <1>4

(* Both parts of a cut sequence.                                           *)
LEMMA CutAt ==
    ASSUME NEW s, IsSeq(s), NEW k \in 0 .. Len(s)
    PROVE  /\ IsSeq(SubSeq(s, 1, k)) /\ IsSeq(SubSeq(s, k + 1, Len(s)))
           /\ SubSeq(s, 1, k) \o SubSeq(s, k + 1, Len(s)) = s
           /\ Len(SubSeq(s, 1, k)) = k
           /\ \A i \in 1 .. Len(s) - k : SubSeq(s, k + 1, Len(s))[i] = s[k + i]
           /\ Len(SubSeq(s, k + 1, Len(s))) = Len(s) - k
           /\ \A i \in 1 .. k : SubSeq(s, 1, k)[i] = s[i]
<1> DEFINE T == {s[i] : i \in DOMAIN s}
           n == Len(s)
           a == SubSeq(s, 1, k)
           b == SubSeq(s, k + 1, n)
           c == a \o b
<1>1. s \in Seq(T)
  BY DEF IsSeq
<1> HIDE DEF T
<1>2. n \in Nat /\ k \in 0 .. n
  BY <1>1
<1>3. a \in Seq(T) /\ Len(a) = k /\ \A i \in 1 .. k : a[i] = s[i]
  BY <1>1, <1>2
<1>4. b \in Seq(T) /\ Len(b) = n - k /\ \A i \in 1 .. n - k : b[i] = s[k + i]
  <2>1. b \in Seq(T)
    BY <1>1, <1>2
  <2>2. Len(b) = n - k
    BY <1>1, <1>2
  <2>3. \A i \in 1 .. n - k : b[i] = s[(k + 1) + i - 1]
    BY <1>1, <1>2
  <2>4. \A i \in 1 .. n - k : (k + 1) + i - 1 = k + i
    BY <1>2
  <2> QED BY <2>1, <2>2, <2>3, <2>4
<1> HIDE DEF a, b
<1>5. c \in Seq(T) /\ IsJoin(c, a, b)
  BY <1>3, <1>4, JoinFacts
<1> HIDE DEF c
<1>6. Len(c) = n /\ \A i \in 1 .. n : c[i] = s[i]
  <2>1. Len(c) = n
    BY <1>2, <1>3, <1>4, <1>5 DEF IsJoin
  <2>2. ASSUME NEW i \in 1 .. n PROVE c[i] = s[i]
    <3>1. CASE i <= k
      BY <1>2, <1>3, <1>5, <3>1 DEF IsJoin
    <3>2. CASE ~(i <= k)
      <4>1. i - k \in 1 .. n - k /\ k + (i - k) = i
        BY <1>2, <3>2
      <4>2. c[i] = b[i - k]
        BY <1>3, <1>4, <1>5, <4>1 DEF IsJoin
      <4> QED BY <1>4, <4>1, <4>2
    <3> QED BY <3>1, <3>2
  <2> QED BY <2>1, <2>2
<1>7. c = s
  <2> HIDE DEF n
  <2> QED BY <1>1, <1>2, <1>5, <1>6 DEF n
<1>8. IsSeq(a) /\ IsSeq(b)
  BY <1>3, <1>4, SeqIsSeq
<1> QED BY <1>3, <1>4, <1>7, <1>8 DEF a, b, c, n

LEMMA ConcatIsSeq ==
    ASSUME NEW a, NEW b, NEW c, IsSeq(a), IsSeq(b), IsSeq(c)
    PROVE  (a \o b) \o c = a \o (b \o c)
<1> DEFINE T == {a[i] : i \in DOMAIN a} \cup {b[i] : i \in DOMAIN b} \cup {c[i] : i \in DOMAIN c}
<1>1. a \in Seq(T) /\ b \in Seq(T) /\ c \in Seq(T)
  BY DEF IsSeq
<1> HIDE DEF T
<1> QED BY <1>1, ConcatFacts

LEMMA ConcatEmpty ==
    ASSUME NEW a, IsSeq(a)
    PROVE  a \o <<>> = a /\ <<>> \o a = a
  BY DEF IsSeq

(* One element after the other.                                            *)
LEMMA HeadAndTail ==
    ASSUME NEW s, IsSeq(s), s # <<>>
    PROVE  /\ <<Head(s)>> \o Tail(s) = s /\ Head(s) = s[1] /\ 1 \in DOMAIN s
           /\ Len(s) \in Nat \ {0} /\ IsSeq(Tail(s))
           /\ Len(s) = 1 => Tail(s) = <<>>
           /\ Len(s) # 1 => Tail(s) # <<>>
<1> DEFINE T == {s[i] : i \in DOMAIN s}
<1>1. s \in Seq(T)
  BY DEF IsSeq
<1> HIDE DEF T
<1>2. Head(s) = s[1] /\ 1 \in DOMAIN s /\ Len(s) \in Nat \ {0} /\ s[1] \in T
  BY <1>1
<1>3. Tail(s) \in Seq(T) /\ Len(Tail(s)) = Len(s) - 1
  BY <1>1
<1>4. \A i \in 1 .. Len(s) - 1 : Tail(s)[i] = s[i + 1]
  BY <1>1
<1> DEFINE a == <<s[1]>>
           b == Tail(s)
           c == a \o b
<1>5. a \in Seq(T) /\ Len(a) = 1 /\ a[1] = s[1]
  BY <1>2
<1> HIDE DEF a
<1>6. c \in Seq(T) /\ IsJoin(c, a, b)
  BY <1>3, <1>5, JoinFacts
<1> HIDE DEF b, c
<1>7. Len(c) = Len(s) /\ \A i \in 1 .. Len(s) : c[i] = s[i]
  <2>1. Len(c) = Len(s)
    BY <1>2, <1>3, <1>5, <1>6 DEF IsJoin, b
  <2>2. ASSUME NEW i \in 1 .. Len(s) PROVE c[i] = s[i]
    <3>1. CASE i = 1
      BY <1>5, <1>6, <3>1 DEF IsJoin
    <3>2. CASE i # 1
      <4>1. i - 1 \in 1 .. Len(s) - 1 /\ (i - 1) + 1 = i /\ 1 + (i - 1) = i
        BY <1>2, <3>2
      <4>2. c[i] = b[i - 1]
        BY <1>3, <1>5, <1>6, <4>1 DEF IsJoin, b
      <4> QED BY <1>4, <4>1, <4>2 DEF b
    <3> QED BY <3>1, <3>2
  <2> QED BY <2>1, <2>2
<1>8. c = s
  BY <1>1, <1>6, <1>7
<1>9. IsSeq(Tail(s))
  BY <1>3, SeqIsSeq
<1>10. <<Head(s)>> \o Tail(s) = s
  BY <1>2, <1>8, Zenon DEF a, b, c
<1>11. /\ Len(s) = 1 => Tail(s) = <<>>
       /\ Len(s) # 1 => Tail(s) # <<>>
  <2> HIDE DEF b
  <2>1. Len(b) = Len(s) - 1 /\ Len(s) \in Nat /\ b \in Seq(T)
    BY <1>2, <1>3 DEF b
  <2>2. Len(s) = 1 => b = <<>>
    BY <2>1
  <2>3. Len(s) # 1 => b # <<>>
    <3>1. b = <<>> => Len(b) = 0
      BY <2>1
    <3> QED BY <2>1, <3>1
  <2> QED BY <2>2, <2>3, Zenon DEF b
<1> QED BY <1>2, <1>9, <1>10, <1>11, Zenon

(* The elements of flattened sequences are theirs, and all of theirs.      *)
LEMMA FlattenElements ==
    ASSUME NEW s, IsSeq(s), \A i \in DOMAIN s : IsSeq(s[i])
    PROVE  /\ IsSeq(FlattenSeq(s))
           /\ \A k \in DOMAIN FlattenSeq(s) :
                  \E i \in DOMAIN s : \E j \in DOMAIN s[i] : FlattenSeq(s)[k] = s[i][j]
           /\ \A i \in DOMAIN s : \A j \in DOMAIN s[i] :
                  \E k \in DOMAIN FlattenSeq(s) : FlattenSeq(s)[k] = s[i][j]
<1> DEFINE T == UNION {{s[i][j] : j \in DOMAIN s[i]} : i \in DOMAIN s}
           c == FlattenSeq(s)
<1>1. \A x \in T : \E i \in DOMAIN s : \E j \in DOMAIN s[i] : x = s[i][j]
  OBVIOUS
<1>2. s \in Seq(Seq(T))
  <2>1. \A i \in DOMAIN s : {s[i][j] : j \in DOMAIN s[i]} \subseteq T
    OBVIOUS
  <2> HIDE DEF T
  <2>2. ASSUME NEW i \in DOMAIN s PROVE s[i] \in Seq(T)
    <3> DEFINE y == s[i]
               U == {y[j] : j \in DOMAIN y}
    <3>1. y \in Seq(U) /\ U \subseteq T
      BY <2>1 DEF IsSeq
    <3> HIDE DEF y, U
    <3>2. y \in Seq(T)
      BY <3>1
    <3> QED BY <3>2 DEF y
  <2> QED BY <2>2 DEF IsSeq
<1> HIDE DEF T
<1>3. <<>> \in Seq(Seq(T))
  OBVIOUS
<1>4. c \in Seq(T)
  BY <1>2, <1>3, FlattenJoin
<1>5. ASSUME NEW i \in DOMAIN s, NEW j \in DOMAIN s[i]
      PROVE  \E k \in DOMAIN c : c[k] = s[i][j]
  <2> DEFINE a == SubSeq(s, 1, i - 1)
             e == <<s[i]>>
             b == SubSeq(s, i + 1, Len(s))
             x == FlattenSeq(a)
             y == s[i]
             z == FlattenSeq(b)
             xy == x \o y
  <2>0. i \in 1 .. Len(s) /\ Len(s) \in Nat /\ y \in Seq(T)
    BY <1>2
  <2>1. a \in Seq(Seq(T)) /\ e \in Seq(Seq(T)) /\ b \in Seq(Seq(T))
    BY <1>2, <2>0
  <2>2. s = (a \o e) \o b
    BY <1>2, <2>0, SplitAt
  <2>3. FlattenSeq(e) = y
    BY FlattenSingle
  <2> HIDE DEF a, e, b, y
  <2>4. a \o e \in Seq(Seq(T)) /\ FlattenSeq(a \o e) = x \o y /\ x \in Seq(T)
    BY <2>1, <2>3, FlattenJoin, ConcatFacts
  <2>5. c = FlattenSeq(a \o e) \o z /\ z \in Seq(T)
    <3>1. FlattenSeq((a \o e) \o b) = FlattenSeq(a \o e) \o z
      BY <2>1, <2>4, FlattenJoin
    <3>2. z \in Seq(T)
      BY <2>1, FlattenJoin
    <3> QED BY <2>2, <3>1, <3>2
  <2> HIDE DEF x, z, c
  <2>6. xy \in Seq(T) /\ IsJoin(xy, x, y)
    BY <2>0, <2>4, JoinFacts
  <2>7. c = xy \o z
    BY <2>4, <2>5
  <2> HIDE DEF xy
  <2>8. IsJoin(c, xy, z)
    BY <2>5, <2>6, <2>7, JoinFacts
  <2>9. j \in 1 .. Len(y) /\ Len(x) \in Nat /\ Len(y) \in Nat /\ Len(z) \in Nat
    BY <2>0, <2>4, <2>5 DEF y
  <2>10. Len(xy) = Len(x) + Len(y) /\ xy[Len(x) + j] = y[j]
    BY <2>6, <2>9 DEF IsJoin
  <2>11. Len(x) + j \in 1 .. Len(xy) /\ Len(x) + j \in 1 .. Len(xy) + Len(z)
    BY <2>9, <2>10
  <2>12. Len(c) = Len(xy) + Len(z) /\ c[Len(x) + j] = y[j]
    BY <2>8, <2>10, <2>11 DEF IsJoin
  <2>13. Len(x) + j \in DOMAIN c
    BY <1>4, <2>11, <2>12 DEF c
  <2> QED BY <2>12, <2>13 DEF y
<1>6. \A k \in DOMAIN c : c[k] \in T
  BY <1>4, ElementType
<1>7. IsSeq(c)
  BY <1>4, SeqIsSeq
<1>8. \A k \in DOMAIN c : \E i \in DOMAIN s : \E j \in DOMAIN s[i] : c[k] = s[i][j]
  BY <1>1, <1>6
<1> QED BY <1>5, <1>7, <1>8

-----------------------------------------------------------------------------
(* A sequence taken in one element after the other: f[i] is what the first *)
(* i of them make of a, when G[<<x, e>>] is what the element e makes of x. *)
Steps(f, a, G, s) == f = [i \in 0 .. Len(s) |-> IF i = 0 THEN a ELSE G[<<f[i - 1], s[i]>>]]
Folded(a, G, s) == (CHOOSE f : Steps(f, a, G, s))[Len(s)]

Takes(G, X, T) == G \in [X \X T -> X]
Follows(g, a, G, X, s) ==
    g[0] = a /\ \A i \in 1 .. Len(s) : g[i - 1] \in X => g[i] = G[<<g[i - 1], s[i]>>]

LEMMA StepsExist ==
    ASSUME NEW X, NEW T, NEW a \in X, NEW G, Takes(G, X, T), NEW s \in Seq(T)
    PROVE  \E f : Steps(f, a, G, s)
<1> DEFINE n == Len(s)
           Is(f, m) == f = [i \in 0 .. m |-> IF i = 0 THEN a ELSE G[<<f[i - 1], s[i]>>]]
           S == {k \in Nat : k <= n => \E f : Is(f, k)}
<1>1. 0 \in S
  <2> DEFINE f == [i \in 0 .. 0 |-> a]
  <2>1. Is(f, 0)
    OBVIOUS
  <2> HIDE DEF f, Is
  <2> QED BY <2>1
<1>2. ASSUME NEW k \in Nat, k \in S PROVE k + 1 \in S
  <2> SUFFICES ASSUME k + 1 <= n PROVE \E f : Is(f, k + 1)
    OBVIOUS
  <2>1. PICK f : Is(f, k)
    BY <1>2
  <2> DEFINE g == [i \in 0 .. k + 1 |-> IF i <= k THEN f[i] ELSE G[<<f[k], s[i]>>]]
  <2>2. (\A i \in 0 .. k : g[i] = f[i]) /\ g[k + 1] = G[<<f[k], s[k + 1]>>]
    OBVIOUS
  <2>3. \A i \in 0 .. k : f[i] = IF i = 0 THEN a ELSE G[<<f[i - 1], s[i]>>]
    BY <2>1
  <2>4. g = [i \in 0 .. k + 1 |-> g[i]]
    OBVIOUS
  <2> HIDE DEF g
  <2>5. ASSUME NEW i \in 0 .. k + 1 PROVE g[i] = IF i = 0 THEN a ELSE G[<<g[i - 1], s[i]>>]
    <3>1. CASE i = k + 1
      BY <2>2, <3>1
    <3>2. CASE i # k + 1
      <4>1. i \in 0 .. k /\ (i # 0 => i - 1 \in 0 .. k)
        BY <3>2
      <4> QED BY <2>2, <2>3, <4>1
    <3> QED BY <3>1, <3>2
  <2>6. Is(g, k + 1)
    BY <2>4, <2>5
  <2> HIDE DEF Is
  <2> QED BY <2>6
<1> HIDE DEF S
<1>3. Nat \subseteq S
  BY <1>1, <1>2, Induct
<1>4. n \in S /\ n <= n
  BY <1>3
<1> QED BY <1>4 DEF S, Steps

LEMMA StepsStay ==
    ASSUME NEW X, NEW T, NEW a \in X, NEW G, Takes(G, X, T), NEW s \in Seq(T),
           NEW f, Steps(f, a, G, s)
    PROVE  /\ f[0] = a /\ \A i \in 1 .. Len(s) : f[i] = G[<<f[i - 1], s[i]>>] /\ s[i] \in T
           /\ \A i \in 0 .. Len(s) : f[i] \in X
<1> DEFINE n == Len(s)
           S == {k \in Nat : k <= n => f[k] \in X}
<1>1. n \in Nat /\ f[0] = a /\ \A i \in 1 .. n : f[i] = G[<<f[i - 1], s[i]>>] /\ s[i] \in T
  <2>1. n \in Nat /\ \A i \in 1 .. n : s[i] \in T
    OBVIOUS
  <2>2. \A i \in 0 .. n : f[i] = IF i = 0 THEN a ELSE G[<<f[i - 1], s[i]>>]
    BY DEF Steps
  <2> HIDE DEF n
  <2>3. 0 \in 0 .. n /\ \A i \in 1 .. n : i \in 0 .. n /\ i # 0
    BY <2>1
  <2>4. f[0] = a
    BY <2>2, <2>3
  <2>5. \A i \in 1 .. n : f[i] = G[<<f[i - 1], s[i]>>]
    BY <2>2, <2>3
  <2> QED BY <2>1, <2>4, <2>5
<1>2. 0 \in S
  BY <1>1
<1>3. ASSUME NEW k \in Nat, k \in S PROVE k + 1 \in S
  <2> SUFFICES ASSUME k + 1 <= n PROVE f[k + 1] \in X
    OBVIOUS
  <2>1. k + 1 \in 1 .. n /\ (k + 1) - 1 = k /\ f[k] \in X
    BY <1>1, <1>3
  <2>2. f[k + 1] = G[<<f[k], s[k + 1]>>] /\ s[k + 1] \in T
    BY <1>1, <2>1
  <2> QED BY <2>1, <2>2 DEF Takes
<1> HIDE DEF S
<1>4. Nat \subseteq S
  BY <1>2, <1>3, Induct
<1>5. ASSUME NEW i \in 0 .. n PROVE f[i] \in X
  BY <1>1, <1>4 DEF S
<1> QED BY <1>1, <1>5

(* Whatever goes through the same steps comes to the same end.             *)
LEMMA RunIs ==
    ASSUME NEW X, NEW T, NEW a \in X, NEW G, Takes(G, X, T), NEW s \in Seq(T),
           NEW g, Follows(g, a, G, X, s)
    PROVE  g[Len(s)] = Folded(a, G, s) /\ Folded(a, G, s) \in X
<1> DEFINE n == Len(s)
           f == CHOOSE h : Steps(h, a, G, s)
           S == {k \in Nat : k <= n => g[k] = f[k] /\ f[k] \in X}
<1>1. Steps(f, a, G, s)
  BY StepsExist
<1> HIDE DEF f
<1>2. /\ n \in Nat /\ f[0] = a /\ \A i \in 1 .. n : f[i] = G[<<f[i - 1], s[i]>>] /\ s[i] \in T
      /\ \A i \in 0 .. n : f[i] \in X
  BY <1>1, StepsStay
<1>3. 0 \in S
  BY <1>2 DEF Follows
<1>4. ASSUME NEW k \in Nat, k \in S PROVE k + 1 \in S
  <2> SUFFICES ASSUME k + 1 <= n PROVE g[k + 1] = f[k + 1] /\ f[k + 1] \in X
    OBVIOUS
  <2>1. k + 1 \in 1 .. n /\ (k + 1) - 1 = k /\ g[k] = f[k] /\ f[k] \in X
    BY <1>2, <1>4
  <2>2. f[k + 1] = G[<<f[k], s[k + 1]>>] /\ s[k + 1] \in T
    BY <1>2, <2>1
  <2>3. g[k + 1] = G[<<f[k], s[k + 1]>>]
    BY <2>1 DEF Follows
  <2>4. G[<<f[k], s[k + 1]>>] \in X
    BY <2>1, <2>2 DEF Takes
  <2> QED BY <2>2, <2>3, <2>4
<1> HIDE DEF S
<1>5. Nat \subseteq S
  BY <1>3, <1>4, Induct
<1> QED BY <1>2, <1>5 DEF S, Folded, f

LEMMA RunSteps ==
    ASSUME NEW X, NEW T, NEW a \in X, NEW G, Takes(G, X, T)
    PROVE  /\ Folded(a, G, <<>>) = a
           /\ \A s \in Seq(T) : Folded(a, G, s) \in X
           /\ \A s \in Seq(T), e \in T : Folded(a, G, Append(s, e)) = G[<<Folded(a, G, s), e>>]
<1>1. ASSUME NEW s \in Seq(T)
      PROVE  \E f : /\ Follows(f, a, G, X, s)
                    /\ \A i \in 1 .. Len(s) : f[i] = G[<<f[i - 1], s[i]>>]
  <2>1. PICK f : Steps(f, a, G, s)
    BY StepsExist
  <2>2. f[0] = a /\ \A i \in 1 .. Len(s) : f[i] = G[<<f[i - 1], s[i]>>]
    BY <2>1, StepsStay
  <2>3. Follows(f, a, G, X, s)
    BY <2>2 DEF Follows
  <2> QED BY <2>2, <2>3
<1>2. ASSUME NEW s \in Seq(T) PROVE Folded(a, G, s) \in X
  BY <1>1, RunIs
<1>3. Folded(a, G, <<>>) = a
  <2>1. ASSUME NEW z \in Seq(T), Len(z) = 0 PROVE Folded(a, G, z) = a
    <3>1. PICK f : Follows(f, a, G, X, z)
      BY <1>1
    <3>2. f[Len(z)] = Folded(a, G, z)
      BY <3>1, RunIs
    <3>3. f[0] = a
      BY <3>1 DEF Follows
    <3> QED BY <2>1, <3>2, <3>3
  <2>2. <<>> \in Seq(T) /\ Len(<<>>) = 0
    OBVIOUS
  <2> QED BY <2>1, <2>2
<1>4. ASSUME NEW s \in Seq(T), NEW e \in T
      PROVE  Folded(a, G, Append(s, e)) = G[<<Folded(a, G, s), e>>]
  <2> DEFINE t == Append(s, e)
             n == Len(s)
  <2>1. t \in Seq(T) /\ Len(t) = n + 1 /\ n \in Nat /\ t[n + 1] = e
        /\ \A i \in 1 .. n : t[i] = s[i]
    OBVIOUS
  <2> HIDE DEF t
  <2>2. PICK f : /\ Follows(f, a, G, X, t)
                 /\ \A i \in 1 .. Len(t) : f[i] = G[<<f[i - 1], t[i]>>]
    BY <1>1, <2>1
  <2>3. f[Len(t)] = Folded(a, G, t)
    BY <2>1, <2>2, RunIs
  <2>4. Follows(f, a, G, X, s)
    <3>1. \A i \in 1 .. n : i \in 1 .. Len(t)
      BY <2>1
    <3> QED BY <2>1, <2>2, <3>1 DEF Follows
  <2>5. f[n] = Folded(a, G, s)
    BY <2>4, RunIs
  <2>6. f[n + 1] = G[<<f[n], t[n + 1]>>]
    <3>1. n + 1 \in 1 .. Len(t) /\ (n + 1) - 1 = n
      BY <2>1
    <3> QED BY <2>2, <3>1
  <2> QED BY <2>1, <2>3, <2>5, <2>6 DEF t
<1> QED BY <1>2, <1>3, <1>4

(* What holds of the empty sequence and of one with one more element holds *)
(* of every sequence.                                                      *)
LEMMA AppendInduction ==
    ASSUME NEW T, NEW S, <<>> \in S, \A z \in Seq(T), e \in T : z \in S => Append(z, e) \in S
    PROVE  Seq(T) \subseteq S
<1> SUFFICES ASSUME NEW w \in Seq(T) PROVE w \in S
  OBVIOUS
<1> DEFINE N == {k \in Nat : k <= Len(w) => SubSeq(w, 1, k) \in S}
<1>1. Len(w) \in Nat /\ SubSeq(w, 1, 0) = <<>> /\ SubSeq(w, 1, Len(w)) = w
  OBVIOUS
<1>2. 0 \in N
  BY <1>1
<1>3. ASSUME NEW k \in Nat, k \in N PROVE k + 1 \in N
  <2> SUFFICES ASSUME k + 1 <= Len(w) PROVE SubSeq(w, 1, k + 1) \in S
    OBVIOUS
  <2> DEFINE v == SubSeq(w, 1, k)
  <2>1. v \in Seq(T) /\ w[k + 1] \in T /\ v \in S
    BY <1>1, <1>3
  <2>2. SubSeq(w, 1, k + 1) = Append(v, w[k + 1])
    BY <1>1
  <2> HIDE DEF v
  <2> QED BY <2>1, <2>2
<1> HIDE DEF N
<1>4. Nat \subseteq N
  BY <1>2, <1>3, Induct
<1>5. Len(w) \in N /\ Len(w) <= Len(w)
  BY <1>1, <1>4
<1> QED BY <1>1, <1>5 DEF N
=============================================================================

--------------------------- MODULE TyposquatProofs ---------------------------
(***************************************************************************)
(* Proofs about Typosquat: that the homoglyphs of a plain brand are undone, *)
(* and that the bounded distance with its early exit is the distance of     *)
(* OneEdit. What is recursive there is a function over an interval, and an  *)
(* induction over an interval is the existence of a least counterexample.   *)
(***************************************************************************)
EXTENDS Typosquat, SequenceTheorems, WellFoundedInduction, TLAPS

(* Induction over intervals.                                               *)

LEMMA LeastElement ==
    ASSUME NEW T \in SUBSET Nat, T # {}
    PROVE  \E m \in T : \A n \in T : m <= n
<1> DEFINE R == OpToRel(<, Nat)
<1>1. IsWellFoundedOn(R, Nat)
  BY NatLessThanWellFounded
<1>2. \A x \in Nat, y \in Nat : x < y => <<x, y>> \in R
  BY DEF OpToRel
<1> HIDE DEF R
<1>3. PICK m \in T : \A y \in T : <<y, m>> \notin R
  BY <1>1, WFMin
<1>4. \A y \in T : y \in Nat /\ m \in Nat /\ ~(y < m)
  BY <1>2, <1>3
<1> QED
  BY <1>4

LEMMA Upwards ==
    ASSUME NEW n \in Nat, NEW S, 0 \in S, \A i \in 0..(n - 1) : i \in S => i + 1 \in S
    PROVE  0..n \subseteq S
<1> SUFFICES ASSUME NEW k \in 0..n, k \notin S PROVE FALSE
  OBVIOUS
<1> DEFINE T == {i \in 0..n : i \notin S}
<1>1. T \in SUBSET Nat /\ T # {}
  OBVIOUS
<1> HIDE DEF T
<1>2. PICK m \in T : \A i \in T : m <= i
  BY <1>1, LeastElement
<1>3. m \in 1..n /\ m - 1 \notin T
  BY <1>2 DEF T
<1>4. m - 1 \in S /\ m - 1 \in 0..(n - 1)
  BY <1>3 DEF T
<1> QED
  BY <1>2, <1>3, <1>4 DEF T

\* From the end of 1..n to its start.
LEMMA Downwards ==
    ASSUME NEW n \in Nat, NEW S, \A i \in 1..n : (\A j \in (i + 1)..n : j \in S) => i \in S
    PROVE  1..n \subseteq S
<1> SUFFICES ASSUME NEW k \in 1..n, k \notin S PROVE FALSE
  OBVIOUS
<1> DEFINE T == {d \in 0..n : n - d \in 1..n /\ n - d \notin S}
<1>1. T \in SUBSET Nat /\ n - k \in T
  OBVIOUS
<1> HIDE DEF T
<1>2. PICK m \in T : \A d \in T : m <= d
  BY <1>1, LeastElement
<1> DEFINE i == n - m
<1>3. i \in 1..n /\ i \notin S /\ m \in 0..n
  BY <1>2 DEF T
<1>4. ASSUME NEW j \in (i + 1)..n PROVE j \in S
  <2>1. n - j \in 0..n /\ n - (n - j) = j /\ j \in 1..n /\ n - j < m
    BY <1>3
  <2>2. n - j \notin T
    BY <1>2, <1>3, <2>1
  <2> QED
    BY <2>1, <2>2 DEF T
<1> HIDE DEF i
<1> QED
  BY <1>3, <1>4

\* F makes each value of a function on D from its values of a lower rank.
Recursive(D, V, n, rank, F) ==
    /\ V # {} /\ n \in Nat /\ rank \in [D -> 0..n] /\ F \in [[D -> V] -> [D -> V]]
    /\ \A g, h \in [D -> V] : \A i \in D :
         (\A j \in D : rank[j] < rank[i] => g[j] = h[j]) => F[g][i] = F[h][i]

\* There is a function that F makes of itself.
LEMMA Recursion ==
    ASSUME NEW D, NEW V, NEW n, NEW rank, NEW F, Recursive(D, V, n, rank, F)
    PROVE  \E g \in [D -> V] : g = F[g]
<1> USE DEF Recursive
<1> DEFINE S == {k \in 0..(n + 1) : \E g \in [D -> V] : \A j \in D : rank[j] < k => g[j] = F[g][j]}
<1>1. 0 \in S
  <2>1. PICK v : v \in V
    OBVIOUS
  <2> DEFINE g == [j \in D |-> v]
  <2>2. g \in [D -> V] /\ \A j \in D : ~(rank[j] < 0)
    BY <2>1
  <2> HIDE DEF g
  <2>3. \A j \in D : rank[j] < 0 => g[j] = F[g][j]
    BY <2>2
  <2>4. 0 \in 0..(n + 1)
    OBVIOUS
  <2> QED
    BY <2>2, <2>3, <2>4
<1>2. ASSUME NEW k \in 0..((n + 1) - 1), k \in S PROVE k + 1 \in S
  <2>1. PICK g \in [D -> V] : \A j \in D : rank[j] < k => g[j] = F[g][j]
    BY <1>2
  <2> DEFINE h == F[g]
  <2>2. h \in [D -> V]
    OBVIOUS
  <2>3. ASSUME NEW j \in D, rank[j] < k + 1 PROVE h[j] = F[h][j]
    <3>1. \A l \in D : rank[l] < rank[j] => g[l] = h[l]
      BY <2>1, <2>3
    <3> QED
      BY <2>2, <3>1
  <2> HIDE DEF h
  <2> QED
    BY <2>2, <2>3
<1>3. n + 1 \in S
  <2>1. 0..(n + 1) \subseteq S
    <3>1. n + 1 \in Nat /\ \A k \in 0..((n + 1) - 1) : k \in S => k + 1 \in S
      BY <1>2
    <3> HIDE DEF S
    <3> QED
      BY <1>1, <3>1, Upwards
  <2>2. n + 1 \in 0..(n + 1)
    OBVIOUS
  <2> HIDE DEF S
  <2> QED
    BY <2>1, <2>2
<1>4. PICK g \in [D -> V] : \A j \in D : rank[j] < n + 1 => g[j] = F[g][j]
  BY <1>3
<1>5. \A j \in D : g[j] = F[g][j]
  BY <1>4
<1> QED
  BY <1>5

-----------------------------------------------------------------------------
(* str.replace                                                             *)

RestStep(s, pair, by, g, i) ==
    IF i > Len(s) THEN <<>>
    ELSE IF i < Len(s) /\ SubSeq(s, i, i + 1) = pair THEN <<by>> \o g[i + 2]
    ELSE <<s[i]>> \o g[i + 1]

\* What ReplacePair makes of each end of s.
Rest(s, pair, by) ==
    CHOOSE g : g = [i \in 1..(Len(s) + 1) |-> RestStep(s, pair, by, g, i)]

LEMMA RestLocal ==
    ASSUME NEW s, NEW pair, NEW by, NEW g, NEW h, Len(s) \in Nat, NEW i \in 1..(Len(s) + 1),
           \A j \in (i + 1)..(Len(s) + 1) : g[j] = h[j]
    PROVE  RestStep(s, pair, by, g, i) = RestStep(s, pair, by, h, i)
<1>1. CASE i > Len(s)
  BY <1>1 DEF RestStep
<1>2. CASE i <= Len(s)
  <2>1. g[i + 1] = h[i + 1] /\ (i < Len(s) => g[i + 2] = h[i + 2])
    BY <1>2
  <2> QED
    BY <2>1 DEF RestStep
<1> QED
  BY <1>1, <1>2

LEMMA RestExists ==
    ASSUME NEW X, NEW s \in Seq(X), NEW pair, NEW by
    PROVE  Rest(s, pair, by) = [i \in 1..(Len(s) + 1) |-> RestStep(s, pair, by, Rest(s, pair, by), i)]
<1> DEFINE n == Len(s) + 1
           D == 1..n
           V == Seq(X \cup {by})
           Step(g, i) == RestStep(s, pair, by, g, i)
           F == [g \in [D -> V] |-> [i \in D |-> Step(g, i)]]
           rank == [i \in D |-> n - i]
<1>1. n \in Nat /\ rank \in [D -> 0..n] /\ <<>> \in V /\ Len(s) \in Nat
  OBVIOUS
<1>2. ASSUME NEW g \in [D -> V], NEW i \in D PROVE Step(g, i) \in V
  <2>1. CASE i > Len(s)
    BY <1>1, <2>1 DEF RestStep
  <2>2. CASE i <= Len(s)
    <3>1. i + 1 \in D /\ i \in 1..Len(s) /\ (i < Len(s) => i + 2 \in D)
      BY <1>1, <2>2
    <3>2. \A c \in X \cup {by}, v \in V : <<c>> \o v \in V
      OBVIOUS
    <3> HIDE DEF D, V
    <3>3. g[i + 1] \in V /\ s[i] \in X /\ (i < Len(s) => g[i + 2] \in V)
      BY <3>1
    <3> HIDE DEF F, rank
    <3> QED
      BY <1>1, <2>2, <3>2, <3>3 DEF RestStep
  <2> QED
    BY <1>1, <2>1, <2>2
<1>3. F \in [[D -> V] -> [D -> V]]
  BY <1>2
<1>4. \A g, h \in [D -> V] : \A i \in D :
        (\A j \in D : rank[j] < rank[i] => g[j] = h[j]) => F[g][i] = F[h][i]
  <2> SUFFICES ASSUME NEW g \in [D -> V], NEW h \in [D -> V], NEW i \in D,
                      \A j \in D : rank[j] < rank[i] => g[j] = h[j]
               PROVE  F[g][i] = F[h][i]
    OBVIOUS
  <2>1. \A j \in (i + 1)..(Len(s) + 1) : g[j] = h[j]
    <3> SUFFICES ASSUME NEW j \in (i + 1)..(Len(s) + 1) PROVE g[j] = h[j]
      OBVIOUS
    <3>1. j \in D /\ rank[j] < rank[i]
      BY <1>1
    <3> QED
      BY <3>1
  <2>2. Step(g, i) = Step(h, i)
    BY <1>1, <2>1, RestLocal
  <2> QED
    BY <2>2
<1>5. \E g \in [D -> V] : g = F[g]
  <2> HIDE DEF n, D, V, F, rank
  <2>1. Recursive(D, V, n, rank, F)
    BY <1>1, <1>3, <1>4 DEF Recursive
  <2> QED
    BY <2>1, Recursion
<1>6. PICK g : g = [i \in D |-> Step(g, i)]
  BY <1>5
<1> QED
  BY <1>6, Zenon DEF Rest

LEMMA ReplaceIsRest ==
    ASSUME NEW s, NEW pair, NEW by
    PROVE  ReplacePair(s, pair, by) = Rest(s, pair, by)[1]
BY DEF ReplacePair, Rest, RestStep

LEMMA PairAt ==
    ASSUME NEW X, NEW s \in Seq(X), NEW i \in 1..(Len(s) - 1)
    PROVE  SubSeq(s, i, i + 1) = <<s[i], s[i + 1]>>
<1> DEFINE p == SubSeq(s, i, i + 1)
<1>1. Len(s) \in Nat /\ i \in Nat /\ i + 1 <= Len(s) /\ 1 <= i
  OBVIOUS
<1>2. p \in Seq(X) /\ Len(p) = 2 /\ p[1] = s[i] /\ p[2] = s[i + 1]
  <2>1. \A j \in i..(i + 1) : s[j] \in X
    BY <1>1
  <2>2. /\ p \in Seq(X)
        /\ Len(p) = IF i <= i + 1 THEN (i + 1) - i + 1 ELSE 0
        /\ \A j \in 1..((i + 1) - i + 1) : p[j] = s[i + j - 1]
    BY <1>1, <2>1, SubSeqProperties
  <2>3. Len(p) = 2 /\ p[1] = s[i + 1 - 1] /\ p[2] = s[i + 2 - 1]
    BY <1>1, <2>2
  <2> QED
    BY <1>1, <2>2, <2>3
<1> HIDE DEF p
<1>3. p = <<p[1], p[2]>>
  BY <1>2
<1> QED
  BY <1>2, <1>3 DEF p

\* The end of s after its first k letters is replaced as if it stood alone.
LEMMA RestShifts ==
    ASSUME NEW X, NEW s \in Seq(X), NEW t \in Seq(X), NEW k \in Nat,
           Len(s) = Len(t) + k, \A i \in 1..Len(t) : s[i + k] = t[i], NEW pair, NEW by
    PROVE  Rest(s, pair, by)[1 + k] = Rest(t, pair, by)[1]
<1> DEFINE n == Len(t) + 1
           rs == Rest(s, pair, by)
           rt == Rest(t, pair, by)
           S == {i \in 1..n : rs[i + k] = rt[i]}
<1>1. Len(s) \in Nat /\ Len(t) \in Nat /\ n \in Nat /\ 1 \in 1..n /\ Len(s) + 1 = n + k
  OBVIOUS
<1>2. \A i \in 1..(Len(s) + 1) : rs[i] = RestStep(s, pair, by, rs, i)
  BY <1>1, RestExists
<1>3. \A i \in 1..(Len(t) + 1) : rt[i] = RestStep(t, pair, by, rt, i)
  BY <1>1, RestExists
<1> HIDE DEF rs, rt, n
<1>4. ASSUME NEW i \in 1..n, \A j \in (i + 1)..n : j \in S PROVE i \in S
  <2>1. i + k \in 1..(Len(s) + 1) /\ i \in 1..(Len(t) + 1)
    BY <1>1 DEF n
  <2>2. (i + k > Len(s) <=> i > Len(t)) /\ (i + k < Len(s) <=> i < Len(t))
    BY <2>1
  <2>3. CASE i > Len(t)
    BY <1>2, <1>3, <2>1, <2>2, <2>3 DEF RestStep
  <2>4. CASE i <= Len(t)
    <3>1. i + 1 \in S /\ rs[(i + k) + 1] = rt[i + 1]
      <4>1. i + 1 \in (i + 1)..n /\ (i + 1) + k = (i + k) + 1
        BY <1>1, <2>4 DEF n
      <4> QED
        BY <1>4, <4>1
    <3>2. i < Len(t) => rs[(i + k) + 2] = rt[i + 2]
      <4> SUFFICES ASSUME i < Len(t) PROVE rs[(i + k) + 2] = rt[i + 2]
        OBVIOUS
      <4>1. i + 2 \in (i + 1)..n /\ (i + 2) + k = (i + k) + 2
        BY <1>1 DEF n
      <4> QED
        BY <1>4, <4>1
    <3>3. s[i + k] = t[i] /\ (i < Len(t) => s[(i + k) + 1] = t[i + 1])
      <4>1. i \in 1..Len(t) /\ (i < Len(t) => i + 1 \in 1..Len(t)) /\ (i + 1) + k = (i + k) + 1
        BY <2>4
      <4> QED
        BY <4>1
    <3>4. i < Len(t) => (SubSeq(s, i + k, (i + k) + 1) = pair <=> SubSeq(t, i, i + 1) = pair)
      <4> SUFFICES ASSUME i < Len(t)
                   PROVE  SubSeq(s, i + k, (i + k) + 1) = pair <=> SubSeq(t, i, i + 1) = pair
        OBVIOUS
      <4>1. i \in 1..(Len(t) - 1) /\ i + k \in 1..(Len(s) - 1)
        BY <2>1
      <4>2. SubSeq(t, i, i + 1) = <<t[i], t[i + 1]>>
        BY <4>1, PairAt
      <4>3. SubSeq(s, i + k, (i + k) + 1) = <<s[i + k], s[(i + k) + 1]>>
        BY <4>1, PairAt
      <4> QED
        BY <3>3, <4>2, <4>3
    <3>5. RestStep(s, pair, by, rs, i + k) = RestStep(t, pair, by, rt, i)
      <4>1. ~(i > Len(t)) /\ ~(i + k > Len(s))
        BY <2>2, <2>4
      <4> QED
        BY <2>2, <3>1, <3>2, <3>3, <3>4, <4>1 DEF RestStep
    <3> QED
      BY <1>2, <1>3, <2>1, <3>5
  <2> QED
    BY <2>3, <2>4
<1>5. 1..n \subseteq S
  BY <1>1, <1>4, Downwards
<1> USE DEF rs, rt
<1> QED
  BY <1>1, <1>5

LEMMA ReplaceEmpty ==
    ASSUME NEW X, NEW s \in Seq(X), NEW pair, NEW by
    PROVE  Len(s) = 0 => ReplacePair(s, pair, by) = s
<1> DEFINE r == Rest(s, pair, by)
<1>1. 1 \in 1..(Len(s) + 1)
  OBVIOUS
<1>2. r[1] = RestStep(s, pair, by, r, 1)
  BY <1>1, RestExists
<1> HIDE DEF r
<1>3. Len(s) = 0 => s = <<>> /\ r[1] = <<>>
  BY <1>2 DEF RestStep
<1> QED
  BY <1>3, ReplaceIsRest DEF r

\* With the letter c before s a pair begins.
Opens(c, s, pair) == c = pair[1] /\ s # <<>> /\ s[1] = pair[2]

\* The letter c before s is left as it is.
Stays(c, s, pair, by) == ReplacePair(<<c>> \o s, pair, by) = <<c>> \o ReplacePair(s, pair, by)

LEMMA ReplaceSingle ==
    ASSUME NEW X, NEW c \in X, NEW t \in Seq(X), NEW pair \in Seq(X), Len(pair) = 2, NEW by,
           ~Opens(c, t, pair)
    PROVE  Stays(c, t, pair, by)
<1> DEFINE s == <<c>> \o t
           r == Rest(s, pair, by)
<1>1. s \in Seq(X) /\ Len(s) = Len(t) + 1 /\ s[1] = c /\ Len(t) \in Nat /\ \A i \in 1..Len(t) : s[i + 1] = t[i]
  OBVIOUS
<1> HIDE DEF s
<1>2. r[1] = RestStep(s, pair, by, r, 1)
  BY <1>1, RestExists
<1>3. r[1 + 1] = Rest(t, pair, by)[1]
  BY <1>1, RestShifts
<1>4. ~(1 < Len(s) /\ SubSeq(s, 1, 1 + 1) = pair)
  <2> SUFFICES ASSUME 1 < Len(s), SubSeq(s, 1, 1 + 1) = pair PROVE FALSE
    OBVIOUS
  <2>1. 1 \in 1..(Len(s) - 1) /\ 1 \in 1..Len(t)
    BY <1>1
  <2>2. SubSeq(s, 1, 1 + 1) = <<s[1], s[1 + 1]>>
    BY <1>1, <2>1, PairAt
  <2>3. s[1] = pair[1] /\ s[1 + 1] = pair[2]
    BY <2>2
  <2>4. t # <<>> /\ s[1 + 1] = t[1]
    BY <1>1, <2>1
  <2> QED
    BY <1>1, <2>3, <2>4 DEF Opens
<1>5. ~(1 > Len(s))
  BY <1>1
<1> HIDE DEF r
<1>6. r[1] = <<c>> \o r[1 + 1]
  BY <1>1, <1>2, <1>4, <1>5 DEF RestStep
<1> QED
  BY <1>3, <1>6, ReplaceIsRest DEF r, s, Stays

LEMMA ReplaceFound ==
    ASSUME NEW X, NEW t \in Seq(X), NEW pair \in Seq(X), Len(pair) = 2, NEW by,
           NEW s \in Seq(X), Len(s) = Len(t) + 2, s[1] = pair[1], s[2] = pair[2],
           \A i \in 1..Len(t) : s[i + 2] = t[i]
    PROVE  ReplacePair(s, pair, by) = <<by>> \o ReplacePair(t, pair, by)
<1> DEFINE r == Rest(s, pair, by)
<1>1. Len(t) \in Nat
  OBVIOUS
<1>2. r[1] = RestStep(s, pair, by, r, 1)
  BY <1>1, RestExists
<1>3. r[1 + 2] = Rest(t, pair, by)[1]
  BY <1>1, RestShifts
<1>4. 1 < Len(s) /\ SubSeq(s, 1, 1 + 1) = pair
  <2>1. 1 \in 1..(Len(s) - 1) /\ s[1 + 1] = pair[2] /\ 1 < Len(s)
    BY <1>1
  <2>2. SubSeq(s, 1, 1 + 1) = <<s[1], s[1 + 1]>>
    BY <1>1, <2>1, PairAt
  <2>3. pair = <<pair[1], pair[2]>>
    OBVIOUS
  <2> QED
    BY <1>1, <2>1, <2>2, <2>3
<1>5. ~(1 > Len(s))
  BY <1>1
<1> HIDE DEF r
<1>6. r[1] = <<by>> \o r[1 + 2]
  BY <1>2, <1>4, <1>5 DEF RestStep
<1> QED
  BY <1>3, <1>6, ReplaceIsRest DEF r

-----------------------------------------------------------------------------
(* _normalize undoes the homoglyphs of a plain label                       *)

Alphabet == Letter \cup {"r", "n", "m", "v", "w", "c", "l", "d"}

RN == <<"r", "n">>
VV == <<"v", "v">>
CL == <<"c", "l">>

WithM(s) == ReplacePair(s, RN, "m")
WithW(s) == ReplacePair(WithM(s), VV, "w")
WithD(s) == ReplacePair(WithW(s), CL, "d")

LEMMA PairsOfLetters ==
    /\ RN \in Seq(Alphabet) /\ Len(RN) = 2 /\ RN[1] = "r" /\ RN[2] = "n"
    /\ VV \in Seq(Alphabet) /\ Len(VV) = 2 /\ VV[1] = "v" /\ VV[2] = "v"
    /\ CL \in Seq(Alphabet) /\ Len(CL) = 2 /\ CL[1] = "c" /\ CL[2] = "l"
BY DEF Alphabet, RN, VV, CL

LEMMA NormalizeIs == \A s : Normalize(s) = EachGlyph(WithD(s))
BY DEF Normalize, Replaced, MultiHomoglyphs, WithM, WithW, WithD, RN, VV, CL

LEMMA OwnGlyphs ==
    /\ Glyph("r") = "r" /\ Glyph("n") = "n" /\ Glyph("m") = "m" /\ Glyph("v") = "v"
    /\ Glyph("w") = "w" /\ Glyph("c") = "c" /\ Glyph("l") = "l" /\ Glyph("d") = "d"
BY DEF Glyph

\* No w begins with the second letter of a pair unless b has it, or "w", at i.
Starts(b, i, w) ==
    w # <<>> =>
        /\ i <= Len(b)
        /\ w[1] = "n" => b[i] = "n"
        /\ w[1] = "v" => b[i] \in {"v", "w"}
        /\ w[1] = "l" => b[i] = "l"

\* What _normalize makes of w, step by step, is the label b from i on.
Undone(b, i, w) ==
    /\ w \in Seq(Alphabet) /\ Starts(b, i, w)
    /\ WithM(w) \in Seq(Alphabet) /\ Starts(b, i, WithM(w))
    /\ WithW(w) \in Seq(Alphabet) /\ Starts(b, i, WithW(w))
    /\ WithD(w) \in Seq(Alphabet) /\ Len(WithD(w)) = Len(b) + 1 - i
    /\ \A j \in 1..Len(WithD(w)) : Glyph(WithD(w)[j]) = b[i + j - 1]

LEMMA UndoneEmpty ==
    ASSUME NEW b \in Seq(Letter), NEW w \in Seq(Alphabet), Len(w) = 0
    PROVE  Undone(b, Len(b) + 1, w)
<1>1. \A pair, by : ReplacePair(w, pair, by) = w
  <2>1. \A pair, by : Len(w) = 0 => ReplacePair(w, pair, by) = w
    BY ReplaceEmpty, Zenon
  <2> QED
    BY <2>1
<1>3. WithM(w) = w /\ WithW(w) = w /\ WithD(w) = w
  BY <1>1 DEF WithM, WithW, WithD
<1>2. w \in Seq(Alphabet) /\ Len(w) = 0 /\ Len(b) \in Nat /\ Len(b) + 1 - (Len(b) + 1) = 0 /\ 1..Len(w) = {}
  OBVIOUS
<1> QED
  BY <1>2, <1>3 DEF Undone, Starts

\* One letter of the normal form is put before what the rest becomes.
LEMMA OneMore ==
    ASSUME NEW b \in Seq(Letter), NEW i \in 1..Len(b), NEW t, Undone(b, i + 1, t),
           NEW w \in Seq(Alphabet), NEW c \in Alphabet, Glyph(c) = b[i],
           Starts(b, i, w),
           WithM(w) \in Seq(Alphabet), Starts(b, i, WithM(w)),
           WithW(w) \in Seq(Alphabet), Starts(b, i, WithW(w)),
           WithD(w) = <<c>> \o WithD(t)
    PROVE  Undone(b, i, w)
<1> DEFINE d == WithD(t)
<1>1. /\ d \in Seq(Alphabet) /\ Len(d) = Len(b) - i /\ Len(b) \in Nat /\ i \in Nat
      /\ \A j \in 1..Len(d) : Glyph(d[j]) = b[i + j]
  <2>1. /\ d \in Seq(Alphabet) /\ Len(d) = Len(b) + 1 - (i + 1)
        /\ \A j \in 1..Len(d) : Glyph(d[j]) = b[(i + 1) + j - 1]
    BY DEF Undone
  <2>2. \A j \in 1..Len(d) : (i + 1) + j - 1 = i + j
    BY <2>1
  <2> QED
    BY <2>1, <2>2
<1> DEFINE e == <<c>> \o d
<1> HIDE DEF d
<1>2. e \in Seq(Alphabet) /\ Len(e) = Len(d) + 1 /\ e[1] = c /\ \A j \in 2..Len(e) : e[j] = d[j - 1]
  BY <1>1
<1> HIDE DEF e
<1>3. \A j \in 1..Len(e) : Glyph(e[j]) = b[i + j - 1]
  <2> SUFFICES ASSUME NEW j \in 1..Len(e) PROVE Glyph(e[j]) = b[i + j - 1]
    OBVIOUS
  <2>1. CASE j = 1
    BY <1>1, <1>2, <2>1
  <2>2. CASE j # 1
    <3>1. j \in 2..Len(e) /\ j - 1 \in 1..Len(d) /\ i + (j - 1) = i + j - 1
      BY <1>1, <1>2, <2>2
    <3>2. Glyph(d[j - 1]) = b[i + (j - 1)]
      BY <1>1, <3>1
    <3> QED
      BY <1>2, <3>1, <3>2
  <2> QED
    BY <2>1, <2>2
<1>4. WithD(w) = e /\ Len(e) = Len(b) + 1 - i
  BY <1>1, <1>2 DEF d, e
<1> QED
  BY <1>2, <1>3, <1>4 DEF Undone

\* A letter before a text.
LEMMA Before ==
    ASSUME NEW c \in Alphabet, NEW t \in Seq(Alphabet)
    PROVE  /\ <<c>> \o t \in Seq(Alphabet) /\ <<c>> \o t # <<>> /\ (<<c>> \o t)[1] = c
           /\ \A x \in Alphabet : <<x, c>> \o t = <<x>> \o (<<c>> \o t)
<1>1. <<c>> \o t \in Seq(Alphabet) /\ <<c>> \o t # <<>> /\ (<<c>> \o t)[1] = c
  OBVIOUS
<1>2. ASSUME NEW x \in Alphabet PROVE <<x, c>> \o t = <<x>> \o (<<c>> \o t)
  <2>1. <<x>> \in Seq(Alphabet) /\ <<c>> \in Seq(Alphabet)
    OBVIOUS
  <2>2. <<x>> \o <<c>> = <<x, c>>
    <3> DEFINE p == <<x>> \o <<c>>
    <3>1. p \in Seq(Alphabet) /\ Len(p) = 2 /\ p[1] = x /\ p[2] = c
      BY <2>1
    <3> HIDE DEF p
    <3>2. p = <<x, c>>
      BY <3>1
    <3> QED
      BY <3>2 DEF p
  <2>3. (<<x>> \o <<c>>) \o t = <<x>> \o (<<c>> \o t)
    BY <2>1, ConcatAssociative
  <2> QED
    BY <2>2, <2>3
<1> QED
  BY <1>1, <1>2

\* A letter that opens no pair stays.
LEMMA LetterStays ==
    ASSUME NEW c \in Alphabet, NEW s \in Seq(Alphabet)
    PROVE  /\ ~(c = "r" /\ s # <<>> /\ s[1] = "n")
                => ReplacePair(<<c>> \o s, RN, "m") = <<c>> \o ReplacePair(s, RN, "m")
           /\ ~(c = "v" /\ s # <<>> /\ s[1] = "v")
                => ReplacePair(<<c>> \o s, VV, "w") = <<c>> \o ReplacePair(s, VV, "w")
           /\ ~(c = "c" /\ s # <<>> /\ s[1] = "l")
                => ReplacePair(<<c>> \o s, CL, "d") = <<c>> \o ReplacePair(s, CL, "d")
<1>1. ASSUME ~(c = "r" /\ s # <<>> /\ s[1] = "n")
      PROVE  Stays(c, s, RN, "m")
  <2>1. ~Opens(c, s, RN)
    BY <1>1, PairsOfLetters, Zenon DEF Opens
  <2> QED
    BY <2>1, PairsOfLetters, ReplaceSingle
<1>2. ASSUME ~(c = "v" /\ s # <<>> /\ s[1] = "v")
      PROVE  Stays(c, s, VV, "w")
  <2>1. ~Opens(c, s, VV)
    BY <1>2, PairsOfLetters, Zenon DEF Opens
  <2> QED
    BY <2>1, PairsOfLetters, ReplaceSingle
<1>3. ASSUME ~(c = "c" /\ s # <<>> /\ s[1] = "l")
      PROVE  Stays(c, s, CL, "d")
  <2>1. ~Opens(c, s, CL)
    BY <1>3, PairsOfLetters, Zenon DEF Opens
  <2> QED
    BY <2>1, PairsOfLetters, ReplaceSingle
<1> QED
  BY <1>1, <1>2, <1>3 DEF Stays

LEMMA UndoneLetter ==
    ASSUME NEW b \in Seq(Letter), Plain(b), NEW i \in 1..Len(b), NEW t, Undone(b, i + 1, t),
           NEW c \in Alphabet, Glyph(c) = b[i]
    PROVE  Undone(b, i, <<c>> \o t)
<1> DEFINE w == <<c>> \o t
<1>1. /\ t \in Seq(Alphabet) /\ WithM(t) \in Seq(Alphabet) /\ WithW(t) \in Seq(Alphabet)
      /\ Starts(b, i + 1, t) /\ Starts(b, i + 1, WithM(t)) /\ Starts(b, i + 1, WithW(t))
  BY DEF Undone
<1>2. i + 1 <= Len(b) => <<b[i], b[i + 1]>> \notin {<<"r", "n">>, <<"v", "v">>, <<"c", "l">>, <<"v", "w">>}
  BY DEF Plain
<1>3. ~(c = "r" /\ t # <<>> /\ t[1] = "n")
  BY <1>1, <1>2, OwnGlyphs DEF Starts
<1>4. WithM(w) = <<c>> \o WithM(t)
  BY <1>1, <1>3, LetterStays DEF WithM
<1>5. ~(c = "v" /\ WithM(t) # <<>> /\ WithM(t)[1] = "v")
  BY <1>1, <1>2, OwnGlyphs DEF Starts
<1>6. WithW(w) = <<c>> \o WithW(t)
  BY <1>1, <1>4, <1>5, LetterStays DEF WithW
<1>7. ~(c = "c" /\ WithW(t) # <<>> /\ WithW(t)[1] = "l")
  BY <1>1, <1>2, OwnGlyphs DEF Starts
<1>8. WithD(w) = <<c>> \o WithD(t)
  BY <1>1, <1>6, <1>7, LetterStays DEF WithD
<1>9. \A s \in Seq(Alphabet) : <<c>> \o s \in Seq(Alphabet) /\ Starts(b, i, <<c>> \o s)
  BY Before, OwnGlyphs DEF Starts
<1>10. /\ w \in Seq(Alphabet) /\ Starts(b, i, w)
       /\ WithM(w) \in Seq(Alphabet) /\ Starts(b, i, WithM(w))
       /\ WithW(w) \in Seq(Alphabet) /\ Starts(b, i, WithW(w))
  BY <1>1, <1>4, <1>6, <1>9
<1> HIDE DEF w
<1>11. Undone(b, i, w)
  BY <1>8, <1>10, OneMore
<1> QED
  BY <1>11 DEF w

\* A pair before a text, replaced or not.
LEMMA PairBefore ==
    ASSUME NEW c \in Alphabet, NEW x \in Alphabet, NEW t \in Seq(Alphabet), NEW s, s = <<c, x>> \o t
    PROVE  /\ s \in Seq(Alphabet) /\ Len(s) = Len(t) + 2 /\ s[1] = c /\ s[2] = x /\ s # <<>>
           /\ \A i \in 1..Len(t) : s[i + 2] = t[i]
           /\ s = <<c>> \o (<<x>> \o t)
<1> DEFINE u == <<x>> \o t
<1>1. u \in Seq(Alphabet) /\ Len(u) = Len(t) + 1 /\ u[1] = x /\ Len(t) \in Nat /\ \A i \in 1..Len(t) : u[i + 1] = t[i]
  OBVIOUS
<1>2. s = <<c>> \o u
  BY Before
<1> HIDE DEF u
<1>3. s \in Seq(Alphabet) /\ Len(s) = Len(u) + 1 /\ s[1] = c /\ s # <<>> /\ \A i \in 1..Len(u) : s[i + 1] = u[i]
  BY <1>1, <1>2
<1>4. ASSUME NEW i \in 1..Len(t) PROVE s[i + 2] = t[i]
  <2>1. i + 1 \in 1..Len(u) /\ (i + 1) + 1 = i + 2
    BY <1>1
  <2> QED
    BY <1>1, <1>3, <2>1
<1>5. s[2] = x
  <2>1. 1 \in 1..Len(u) /\ 1 + 1 = 2
    BY <1>1
  <2> QED
    BY <1>1, <1>3, <2>1
<1> QED
  BY <1>1, <1>2, <1>3, <1>4, <1>5 DEF u

\* The pairs of MultiHomoglyphs before a text.
LEMMA PairIsTwoLetters ==
    ASSUME NEW t \in Seq(Alphabet)
    PROVE  /\ RN \o t \in Seq(Alphabet) /\ (RN \o t)[1] = "r" /\ RN \o t = <<"r">> \o (<<"n">> \o t)
           /\ VV \o t \in Seq(Alphabet) /\ (VV \o t)[1] = "v" /\ VV \o t = <<"v">> \o (<<"v">> \o t)
           /\ CL \o t \in Seq(Alphabet) /\ (CL \o t)[1] = "c" /\ CL \o t = <<"c">> \o (<<"l">> \o t)
<1>1. {"r", "n", "v", "c", "l"} \subseteq Alphabet
  BY DEF Alphabet
<1>2. ASSUME NEW s, s = RN \o t
      PROVE  s \in Seq(Alphabet) /\ s[1] = "r" /\ s = <<"r">> \o (<<"n">> \o t)
  BY <1>1, <1>2, PairBefore DEF RN
<1>3. ASSUME NEW s, s = VV \o t
      PROVE  s \in Seq(Alphabet) /\ s[1] = "v" /\ s = <<"v">> \o (<<"v">> \o t)
  BY <1>1, <1>3, PairBefore DEF VV
<1>4. ASSUME NEW s, s = CL \o t
      PROVE  s \in Seq(Alphabet) /\ s[1] = "c" /\ s = <<"c">> \o (<<"l">> \o t)
  BY <1>1, <1>4, PairBefore DEF CL
<1> QED
  BY <1>2, <1>3, <1>4

LEMMA FoundInAlphabet ==
    ASSUME NEW t \in Seq(Alphabet), NEW pair \in Seq(Alphabet), Len(pair) = 2,
           NEW s \in Seq(Alphabet), Len(s) = Len(t) + 2, s[1] = pair[1], s[2] = pair[2],
           \A i \in 1..Len(t) : s[i + 2] = t[i]
    PROVE  \A by : ReplacePair(s, pair, by) = <<by>> \o ReplacePair(t, pair, by)
BY ReplaceFound

\* A pair becomes its letter.
LEMMA PairGoes ==
    ASSUME NEW t \in Seq(Alphabet)
    PROVE  /\ ReplacePair(RN \o t, RN, "m") = <<"m">> \o ReplacePair(t, RN, "m")
           /\ ReplacePair(VV \o t, VV, "w") = <<"w">> \o ReplacePair(t, VV, "w")
           /\ ReplacePair(CL \o t, CL, "d") = <<"d">> \o ReplacePair(t, CL, "d")
<1>1. {"r", "n", "v", "c", "l"} \subseteq Alphabet
  BY DEF Alphabet
<1>2. ASSUME NEW s, s = RN \o t
      PROVE  /\ s \in Seq(Alphabet) /\ Len(s) = Len(t) + 2 /\ s[1] = RN[1] /\ s[2] = RN[2]
             /\ \A i \in 1..Len(t) : s[i + 2] = t[i]
  <2>1. s = <<"r", "n">> \o t
    BY <1>2 DEF RN
  <2> QED
    BY <1>1, <2>1, PairBefore, PairsOfLetters
<1>3. ASSUME NEW s, s = VV \o t
      PROVE  /\ s \in Seq(Alphabet) /\ Len(s) = Len(t) + 2 /\ s[1] = VV[1] /\ s[2] = VV[2]
             /\ \A i \in 1..Len(t) : s[i + 2] = t[i]
  <2>1. s = <<"v", "v">> \o t
    BY <1>3 DEF VV
  <2> QED
    BY <1>1, <2>1, PairBefore, PairsOfLetters
<1>4. ASSUME NEW s, s = CL \o t
      PROVE  /\ s \in Seq(Alphabet) /\ Len(s) = Len(t) + 2 /\ s[1] = CL[1] /\ s[2] = CL[2]
             /\ \A i \in 1..Len(t) : s[i + 2] = t[i]
  <2>1. s = <<"c", "l">> \o t
    BY <1>4 DEF CL
  <2> QED
    BY <1>1, <2>1, PairBefore, PairsOfLetters
<1>5. \A by : ReplacePair(RN \o t, RN, by) = <<by>> \o ReplacePair(t, RN, by)
  <2> SUFFICES ASSUME NEW s, s = RN \o t PROVE \A by : ReplacePair(s, RN, by) = <<by>> \o ReplacePair(t, RN, by)
    OBVIOUS
  <2>1. /\ s \in Seq(Alphabet) /\ Len(s) = Len(t) + 2 /\ s[1] = RN[1] /\ s[2] = RN[2]
        /\ \A i \in 1..Len(t) : s[i + 2] = t[i]
    BY <1>2
  <2> QED
    BY <2>1, PairsOfLetters, FoundInAlphabet
<1>6. \A by : ReplacePair(VV \o t, VV, by) = <<by>> \o ReplacePair(t, VV, by)
  <2> SUFFICES ASSUME NEW s, s = VV \o t PROVE \A by : ReplacePair(s, VV, by) = <<by>> \o ReplacePair(t, VV, by)
    OBVIOUS
  <2>1. /\ s \in Seq(Alphabet) /\ Len(s) = Len(t) + 2 /\ s[1] = VV[1] /\ s[2] = VV[2]
        /\ \A i \in 1..Len(t) : s[i + 2] = t[i]
    BY <1>3
  <2> QED
    BY <2>1, PairsOfLetters, FoundInAlphabet
<1>7. \A by : ReplacePair(CL \o t, CL, by) = <<by>> \o ReplacePair(t, CL, by)
  <2> SUFFICES ASSUME NEW s, s = CL \o t PROVE \A by : ReplacePair(s, CL, by) = <<by>> \o ReplacePair(t, CL, by)
    OBVIOUS
  <2>1. /\ s \in Seq(Alphabet) /\ Len(s) = Len(t) + 2 /\ s[1] = CL[1] /\ s[2] = CL[2]
        /\ \A i \in 1..Len(t) : s[i + 2] = t[i]
    BY <1>4
  <2> QED
    BY <2>1, PairsOfLetters, FoundInAlphabet
<1> QED
  BY <1>5, <1>6, <1>7

LEMMA UndonePair ==
    ASSUME NEW b \in Seq(Letter), NEW i \in 1..Len(b), NEW t, Undone(b, i + 1, t)
    PROVE  /\ b[i] = "m" => Undone(b, i, RN \o t)
           /\ b[i] = "w" => Undone(b, i, VV \o t)
           /\ b[i] = "d" => Undone(b, i, CL \o t)
<1>1. t \in Seq(Alphabet) /\ WithM(t) \in Seq(Alphabet) /\ WithW(t) \in Seq(Alphabet) /\ i <= Len(b)
  BY DEF Undone
<1>2. {"r", "n", "m", "v", "w", "c", "l", "d"} \subseteq Alphabet
  BY DEF Alphabet
<1>3. \A u \in Seq(Alphabet) :
        /\ RN \o u \in Seq(Alphabet) /\ (RN \o u)[1] = "r" /\ RN \o u = <<"r">> \o (<<"n">> \o u)
        /\ VV \o u \in Seq(Alphabet) /\ (VV \o u)[1] = "v" /\ VV \o u = <<"v">> \o (<<"v">> \o u)
        /\ CL \o u \in Seq(Alphabet) /\ (CL \o u)[1] = "c" /\ CL \o u = <<"c">> \o (<<"l">> \o u)
  BY PairIsTwoLetters
<1>4. \A c \in Alphabet, u \in Seq(Alphabet) : <<c>> \o u \in Seq(Alphabet) /\ (<<c>> \o u)[1] = c
  BY Before
<1>8. \A c \in Alphabet, u \in Seq(Alphabet) :
        c \notin {"n", "v", "l"} \/ (c = "v" /\ b[i] = "w") => Starts(b, i, <<c>> \o u)
  BY <1>1, <1>4 DEF Starts
<1>9. \A u \in Seq(Alphabet) :
        /\ Starts(b, i, RN \o u) /\ Starts(b, i, CL \o u) /\ Starts(b, i, <<"m">> \o u) /\ Starts(b, i, <<"w">> \o u)
        /\ b[i] = "w" => Starts(b, i, VV \o u)
  <2> SUFFICES ASSUME NEW u \in Seq(Alphabet)
               PROVE  /\ Starts(b, i, RN \o u) /\ Starts(b, i, CL \o u)
                      /\ Starts(b, i, <<"m">> \o u) /\ Starts(b, i, <<"w">> \o u)
                      /\ b[i] = "w" => Starts(b, i, VV \o u)
    OBVIOUS
  <2>1. Starts(b, i, <<"m">> \o u) /\ Starts(b, i, <<"w">> \o u)
    BY <1>2, <1>8
  <2>2. <<"n">> \o u \in Seq(Alphabet) /\ <<"v">> \o u \in Seq(Alphabet) /\ <<"l">> \o u \in Seq(Alphabet)
    BY <1>2, <1>4
  <2>3. /\ Starts(b, i, <<"r">> \o (<<"n">> \o u)) /\ Starts(b, i, <<"c">> \o (<<"l">> \o u))
        /\ b[i] = "w" => Starts(b, i, <<"v">> \o (<<"v">> \o u))
    BY <1>2, <1>8, <2>2
  <2> QED
    BY <1>3, <2>1, <2>3
<1>5. ASSUME b[i] = "m", NEW w, w = RN \o t PROVE Undone(b, i, w)
  <2>1. WithM(w) = <<"m">> \o WithM(t)
    BY <1>5, <1>1, PairGoes DEF WithM
  <2>2. WithW(w) = <<"m">> \o WithW(t)
    BY <1>5, <1>1, <1>2, <2>1, LetterStays DEF WithW
  <2>3. WithD(w) = <<"m">> \o WithD(t)
    BY <1>5, <1>1, <1>2, <2>2, LetterStays DEF WithD
  <2>4. w \in Seq(Alphabet) /\ WithM(w) \in Seq(Alphabet) /\ WithW(w) \in Seq(Alphabet)
    BY <1>5, <1>1, <1>2, <1>3, <1>4, <2>1, <2>2
  <2>6. Starts(b, i, w) /\ Starts(b, i, WithM(w)) /\ Starts(b, i, WithW(w))
    BY <1>1, <1>5, <1>8, <1>9, <2>1, <2>2
  <2> QED
    BY <1>2, <1>5, <2>3, <2>4, <2>6, OneMore, OwnGlyphs
<1>6. ASSUME b[i] = "w", NEW w, w = VV \o t PROVE Undone(b, i, w)
  <2>1. WithM(w) = VV \o WithM(t)
    <3>1. w = <<"v">> \o (<<"v">> \o t) /\ <<"v">> \o t \in Seq(Alphabet)
      BY <1>6, <1>1, <1>2, <1>3, <1>4
    <3>2. WithM(<<"v">> \o t) = <<"v">> \o WithM(t)
      BY <1>6, <1>1, <1>2, LetterStays DEF WithM
    <3>3. WithM(w) = <<"v">> \o (<<"v">> \o WithM(t))
      BY <1>6, <1>2, <3>1, <3>2, LetterStays DEF WithM
    <3> QED
      BY <1>6, <1>1, <1>2, <1>3, <1>4, <3>3
  <2>2. WithW(w) = <<"w">> \o WithW(t)
    BY <1>6, <1>1, <2>1, PairGoes DEF WithW
  <2>3. WithD(w) = <<"w">> \o WithD(t)
    BY <1>6, <1>1, <1>2, <2>2, LetterStays DEF WithD
  <2>4. w \in Seq(Alphabet) /\ WithM(w) \in Seq(Alphabet) /\ WithW(w) \in Seq(Alphabet)
    BY <1>6, <1>1, <1>2, <1>3, <1>4, <2>1, <2>2
  <2>6. Starts(b, i, w) /\ Starts(b, i, WithM(w)) /\ Starts(b, i, WithW(w))
    BY <1>1, <1>6, <1>8, <1>9, <2>1, <2>2
  <2> QED
    BY <1>2, <1>6, <2>3, <2>4, <2>6, OneMore, OwnGlyphs
<1>7. ASSUME b[i] = "d", NEW w, w = CL \o t PROVE Undone(b, i, w)
  <2>1. WithM(w) = CL \o WithM(t)
    <3>1. w = <<"c">> \o (<<"l">> \o t) /\ <<"l">> \o t \in Seq(Alphabet)
      BY <1>7, <1>1, <1>2, <1>3, <1>4
    <3>2. WithM(<<"l">> \o t) = <<"l">> \o WithM(t)
      BY <1>7, <1>1, <1>2, LetterStays DEF WithM
    <3>3. WithM(w) = <<"c">> \o (<<"l">> \o WithM(t))
      BY <1>7, <1>2, <3>1, <3>2, LetterStays DEF WithM
    <3> QED
      BY <1>7, <1>1, <1>2, <1>3, <1>4, <3>3
  <2>2. WithW(w) = CL \o WithW(t)
    <3>1. WithM(w) = <<"c">> \o (<<"l">> \o WithM(t)) /\ <<"l">> \o WithM(t) \in Seq(Alphabet)
      BY <1>7, <1>1, <1>2, <1>3, <1>4, <2>1
    <3>2. ReplacePair(<<"l">> \o WithM(t), VV, "w") = <<"l">> \o WithW(t)
      BY <1>7, <1>1, <1>2, LetterStays DEF WithW
    <3>3. WithW(w) = <<"c">> \o (<<"l">> \o WithW(t))
      BY <1>7, <1>2, <3>1, <3>2, LetterStays DEF WithW
    <3> QED
      BY <1>7, <1>1, <1>2, <1>3, <1>4, <3>3
  <2>3. WithD(w) = <<"d">> \o WithD(t)
    BY <1>7, <1>1, <2>2, PairGoes DEF WithD
  <2>4. w \in Seq(Alphabet) /\ WithM(w) \in Seq(Alphabet) /\ WithW(w) \in Seq(Alphabet)
    BY <1>7, <1>1, <1>2, <1>3, <1>4, <2>1, <2>2
  <2>6. Starts(b, i, w) /\ Starts(b, i, WithM(w)) /\ Starts(b, i, WithW(w))
    BY <1>1, <1>7, <1>8, <1>9, <2>1, <2>2
  <2> QED
    BY <1>2, <1>7, <2>3, <2>4, <2>6, OneMore, OwnGlyphs
<1> QED
  BY <1>5, <1>6, <1>7

-----------------------------------------------------------------------------
(* The lookalikes of a label                                               *)

WaysStep(b, g, i) ==
    IF i > Len(b) THEN {<<>>} ELSE {x \o w : x \in Writings(b[i]), w \in g[i + 1]}

\* The ways to write each end of b.
Ways(b) == CHOOSE g : g = [i \in 1..(Len(b) + 1) |-> WaysStep(b, g, i)]

LEMMA LookalikesAreWays ==
    ASSUME NEW b
    PROVE  Lookalikes(b) = Ways(b)[1]
BY DEF Lookalikes, Ways, WaysStep

LEMMA WaysStepCases ==
    ASSUME NEW b, NEW g, NEW i, NEW u
    PROVE  /\ i > Len(b) => (u \in WaysStep(b, g, i) <=> u = <<>>)
           /\ ~(i > Len(b)) =>
                (u \in WaysStep(b, g, i) <=> \E x \in Writings(b[i]), w \in g[i + 1] : u = x \o w)
<1> DEFINE all == {x \o w : x \in Writings(b[i]), w \in g[i + 1]}
<1>1. i > Len(b) => WaysStep(b, g, i) = {<<>>}
  BY DEF WaysStep
<1>2. ~(i > Len(b)) => WaysStep(b, g, i) = all
  BY DEF WaysStep
<1>3. u \in all <=> \E x \in Writings(b[i]), w \in g[i + 1] : u = x \o w
  OBVIOUS
<1> HIDE DEF all
<1> QED
  BY <1>1, <1>2, <1>3

LEMMA WritingsAre ==
    ASSUME NEW c, NEW x \in Writings(c)
    PROVE  \/ \E y \in Letter : x = <<y>> /\ Glyph(y) = c
           \/ x = RN /\ c = "m"
           \/ x = VV /\ c = "w"
           \/ x = CL /\ c = "d"
<1>1. CASE x \in {<<y>> : y \in {y \in Letter : Glyph(y) = c}}
  BY <1>1
<1>2. CASE x \in {MultiHomoglyphs[i].pair : i \in {j \in DOMAIN MultiHomoglyphs : MultiHomoglyphs[j].by = c}}
  <2>1. PICK i \in DOMAIN MultiHomoglyphs : x = MultiHomoglyphs[i].pair /\ MultiHomoglyphs[i].by = c
    BY <1>2
  <2>2. i \in {1, 2, 3}
    BY <2>1 DEF MultiHomoglyphs
  <2> QED
    BY <2>1, <2>2 DEF MultiHomoglyphs, RN, VV, CL
<1> QED
  BY <1>1, <1>2 DEF Writings

LEMMA WaysStepIn ==
    ASSUME NEW b \in Seq(Letter), NEW i \in 1..Len(b), NEW g, g[i + 1] \subseteq Seq(Alphabet)
    PROVE  WaysStep(b, g, i) \subseteq Seq(Alphabet)
<1> SUFFICES ASSUME NEW u, u \in WaysStep(b, g, i) PROVE u \in Seq(Alphabet)
  OBVIOUS
<1>1. ~(i > Len(b))
  OBVIOUS
<1>2. PICK x \in Writings(b[i]), w \in g[i + 1] : u = x \o w
  <2>1. \E x \in Writings(b[i]), w \in g[i + 1] : u = x \o w
    <3>1. u \in {x \o w : x \in Writings(b[i]), w \in g[i + 1]}
      BY <1>1 DEF WaysStep
    <3> QED
      BY <3>1
  <2> QED
    BY <2>1
<1>3. x \in Seq(Alphabet)
  <2>1. ASSUME NEW y \in Letter PROVE <<y>> \in Seq(Alphabet)
    BY DEF Alphabet
  <2>2. \/ \E y \in Letter : x = <<y>>
        \/ x = RN \/ x = VV \/ x = CL
    BY WritingsAre
  <2> QED
    BY <2>1, <2>2, PairsOfLetters, Zenon
<1>4. w \in Seq(Alphabet)
  OBVIOUS
<1> QED
  BY <1>2, <1>3, <1>4

LEMMA WaysExist ==
    ASSUME NEW b \in Seq(Letter)
    PROVE  Ways(b) = [i \in 1..(Len(b) + 1) |-> WaysStep(b, Ways(b), i)]
<1> DEFINE n == Len(b) + 1
           D == 1..n
           V == SUBSET Seq(Alphabet)
           Step(g, i) == WaysStep(b, g, i)
           F == [g \in [D -> V] |-> [i \in D |-> Step(g, i)]]
           rank == [i \in D |-> n - i]
<1>1. n \in Nat /\ rank \in [D -> 0..n] /\ V # {} /\ Len(b) \in Nat
  OBVIOUS
<1>2. ASSUME NEW g \in [D -> V], NEW i \in D PROVE Step(g, i) \in V
  <2>1. CASE i > Len(b)
    <3>1. <<>> \in Seq(Alphabet)
      OBVIOUS
    <3> QED
      BY <2>1, <3>1 DEF WaysStep
  <2>2. CASE i <= Len(b)
    <3>1. i + 1 \in D
      BY <1>1, <2>2
    <3> HIDE DEF D
    <3>2. g[i + 1] \subseteq Seq(Alphabet)
      BY <3>1
    <3>3. i \in 1..Len(b)
      BY <1>1, <2>2 DEF D
    <3> HIDE DEF F, rank
    <3>4. WaysStep(b, g, i) \subseteq Seq(Alphabet)
      BY <3>2, <3>3, WaysStepIn
    <3> QED
      BY <3>4
  <2> QED
    BY <1>1, <2>1, <2>2
<1>3. F \in [[D -> V] -> [D -> V]]
  BY <1>2
<1>4. \A g, h \in [D -> V] : \A i \in D :
        (\A j \in D : rank[j] < rank[i] => g[j] = h[j]) => F[g][i] = F[h][i]
  <2> SUFFICES ASSUME NEW g \in [D -> V], NEW h \in [D -> V], NEW i \in D,
                      \A j \in D : rank[j] < rank[i] => g[j] = h[j]
               PROVE  F[g][i] = F[h][i]
    OBVIOUS
  <2>1. CASE i > Len(b)
    BY <1>1, <2>1 DEF WaysStep
  <2>2. CASE i <= Len(b)
    <3>1. i + 1 \in D /\ rank[i + 1] < rank[i]
      BY <1>1, <2>2
    <3>2. g[i + 1] = h[i + 1]
      BY <3>1
    <3>3. Step(g, i) = Step(h, i)
      BY <3>2 DEF WaysStep
    <3> QED
      BY <3>3
  <2> QED
    BY <1>1, <2>1, <2>2
<1>5. \E g \in [D -> V] : g = F[g]
  <2> HIDE DEF n, D, V, F, rank
  <2>1. Recursive(D, V, n, rank, F)
    BY <1>1, <1>3, <1>4 DEF Recursive
  <2> QED
    BY <2>1, Recursion
<1>6. PICK g : g = [i \in D |-> Step(g, i)]
  BY <1>5
<1> QED
  BY <1>6, Zenon DEF Ways

\* _normalize makes a plain label of each of its lookalikes.
LEMMA LookalikesUndone ==
    ASSUME NEW b \in Seq(Letter), Plain(b), NEW name \in Lookalikes(b)
    PROVE  Normalize(name) = b
<1> DEFINE n == Len(b) + 1
           ways == Ways(b)
           S == {i \in 1..n : \A w \in ways[i] : Undone(b, i, w)}
<1>1. n \in Nat /\ Len(b) \in Nat /\ 1 \in 1..n
  OBVIOUS
<1>2. \A i \in 1..n : ways[i] = WaysStep(b, ways, i)
  BY WaysExist
<1> HIDE DEF ways
<1>3. ASSUME NEW i \in 1..n, \A j \in (i + 1)..n : j \in S PROVE i \in S
  <2> SUFFICES ASSUME NEW w \in ways[i] PROVE Undone(b, i, w)
    OBVIOUS
  <2>1. CASE i > Len(b)
    <3>1. i = Len(b) + 1 /\ w = <<>>
      BY <1>1, <1>2, <2>1, WaysStepCases
    <3>2. w \in Seq(Alphabet) /\ Len(w) = 0
      BY <3>1
    <3> QED
      BY <3>1, <3>2, UndoneEmpty
  <2>2. CASE i <= Len(b)
    <3>1. PICK x \in Writings(b[i]), t \in ways[i + 1] : w = x \o t
      BY <1>1, <1>2, <2>2, WaysStepCases
    <3>2. i \in 1..Len(b) /\ i + 1 \in (i + 1)..n
      BY <1>1, <2>2
    <3>3. Undone(b, i + 1, t)
      BY <1>3, <3>2
    <3>4. ASSUME NEW y \in Letter, x = <<y>>, Glyph(y) = b[i] PROVE Undone(b, i, w)
      <4>1. y \in Alphabet
        BY DEF Alphabet
      <4> HIDE DEF S, n
      <4> QED
        BY <3>1, <3>2, <3>3, <3>4, <4>1, UndoneLetter
    <3> HIDE DEF S, n
    <3> QED
      BY <3>1, <3>2, <3>3, <3>4, WritingsAre, UndonePair
  <2> QED
    BY <1>1, <2>1, <2>2
<1>4. Undone(b, 1, name)
  <2>1. 1..n \subseteq S
    <3> HIDE DEF S, n
    <3> QED
      BY <1>1, <1>3, Downwards
  <2> QED
    BY <1>1, <2>1, LookalikesAreWays DEF ways
<1> DEFINE d == WithD(name)
<1>5. d \in Seq(Alphabet) /\ Len(d) = Len(b) /\ \A j \in 1..Len(d) : Glyph(d[j]) = b[j]
  <2>1. /\ d \in Seq(Alphabet) /\ Len(d) = Len(b) + 1 - 1
        /\ \A j \in 1..Len(d) : Glyph(d[j]) = b[1 + j - 1]
    BY <1>4 DEF Undone
  <2>2. \A j \in 1..Len(d) : 1 + j - 1 = j
    BY <2>1
  <2> QED
    BY <1>1, <2>1, <2>2
<1> HIDE DEF d
<1>6. EachGlyph(d) = b
  BY <1>5 DEF EachGlyph
<1> QED
  BY <1>6, NormalizeIs DEF d

-----------------------------------------------------------------------------
(* What check answers                                                      *)

\* The last answer is what check says with the labels of now.
AnswerIsCheck ==
    /\ labels \subseteq Seq(Letter)
    /\ answer.hit <=> Check(answer.name, labels)

LEMMA TyposquatType == TyposquatSpec => []TyposquatTypeOK
<1>1. TyposquatInit => TyposquatTypeOK
  BY DEF TyposquatInit, NoAnswer, TyposquatTypeOK
<1>2. \A name, known : Check(name, known) \in BOOLEAN
  BY DEF Check
<1>3. TyposquatTypeOK /\ [TyposquatNext]_typosquatVars => TyposquatTypeOK'
  <2> SUFFICES ASSUME TyposquatTypeOK, [TyposquatNext]_typosquatVars PROVE TyposquatTypeOK'
    OBVIOUS
  <2>1. ASSUME NEW b \in Brand, AddBrand(b) \/ RemoveBrand(b) PROVE TyposquatTypeOK'
    BY <2>1 DEF AddBrand, RemoveBrand, TyposquatTypeOK
  <2>2. CASE ReloadBrands
    BY <2>2 DEF ReloadBrands, NoAnswer, TyposquatTypeOK
  <2>3. ASSUME NEW name \in Name, Ask(name) PROVE TyposquatTypeOK'
    BY <1>2, <2>3 DEF Ask, TyposquatTypeOK
  <2>4. CASE UNCHANGED typosquatVars
    BY <2>4 DEF typosquatVars, TyposquatTypeOK
  <2> QED
    BY <2>1, <2>2, <2>3, <2>4 DEF TyposquatNext
<1> QED
  BY <1>1, <1>3, PTL DEF TyposquatSpec

LEMMA AnswerIsCheckAlways ==
    TyposquatSpec => []AnswerIsCheck
<1>1. TyposquatInit => AnswerIsCheck
  BY DEF TyposquatInit, AnswerIsCheck, NoAnswer, Check
<1>2. ASSUME AnswerIsCheck, TyposquatTypeOK, [TyposquatNext]_typosquatVars PROVE AnswerIsCheck'
  <2> USE <1>2 DEF AnswerIsCheck
  <2>1. ASSUME NEW b \in Brand, AddBrand(b) \/ RemoveBrand(b) PROVE AnswerIsCheck'
    BY <2>1 DEF AddBrand, RemoveBrand
  <2>2. CASE ReloadBrands
    <3>1. labels' \subseteq Brand
      BY <2>2 DEF ReloadBrands, TyposquatTypeOK
    <3>2. answer'.hit = FALSE /\ answer'.name = <<>>
      BY <2>2 DEF ReloadBrands, NoAnswer
    <3>3. labels' \subseteq Seq(Letter)
      BY <3>1, TyposquatAssumption
    <3> QED
      BY <3>2, <3>3 DEF Check
  <2>3. ASSUME NEW name \in Name, Ask(name) PROVE AnswerIsCheck'
    BY <2>3 DEF Ask
  <2>4. CASE UNCHANGED typosquatVars
    BY <2>4 DEF typosquatVars
  <2> QED
    BY <2>1, <2>2, <2>3, <2>4 DEF TyposquatNext
<1> QED
  BY <1>1, <1>2, TyposquatType, PTL DEF TyposquatSpec

\* A brand written in other glyphs is caught, for every table of brands and every name.
THEOREM GlyphsAreUndone ==
    TyposquatSpec => []HomoglyphsAreCaught
<1>1. AnswerIsCheck => HomoglyphsAreCaught
  <2> SUFFICES ASSUME AnswerIsCheck, NEW b \in labels, Plain(b), answer.name \in Lookalikes(b) \ labels
               PROVE  answer.hit
    BY DEF HomoglyphsAreCaught
  <2>1. b \in Seq(Letter) /\ (answer.hit <=> Check(answer.name, labels))
    BY DEF AnswerIsCheck
  <2>2. Normalize(answer.name) = b
    BY <2>1, LookalikesUndone
  <2>3. answer.name # <<>>
    <3> SUFFICES ASSUME answer.name = <<>> PROVE FALSE
      OBVIOUS
    <3>0. <<>> \in Seq(Alphabet) /\ Len(<<>>) = 0
      OBVIOUS
    <3>p. PICK name \in Seq(Alphabet) : answer.name = name /\ Len(name) = 0
      BY <3>0
    <3>1. WithD(name) = name
      <4>1. \A pair, by : ReplacePair(name, pair, by) = name
        BY <3>p, ReplaceEmpty
      <4> QED
        BY <4>1 DEF WithM, WithW, WithD
    <3>2. b = EachGlyph(name)
      BY <2>2, <3>p, <3>1, NormalizeIs
    <3>3. b = name
      BY <2>1, <3>p, <3>2 DEF EachGlyph
    <3> QED
      BY <3>p, <3>3
  <2> QED
    BY <2>1, <2>2, <2>3 DEF Check
<1> QED
  BY <1>1, AnswerIsCheckAlways, PTL
=============================================================================

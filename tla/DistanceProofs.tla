--------------------------- MODULE DistanceProofs ---------------------------
(***************************************************************************)
(* Proofs about Typosquat: the bounded distance with its early exit finds   *)
(* exactly the labels within its edits, and the search for a word exactly   *)
(* the words. The edits are stated on the first i letters of a and the     *)
(* first j of b, as the rows of _levenshtein compare them.                  *)
(***************************************************************************)
EXTENDS TyposquatProofs

Same(a, i, b, j) == i = j /\ \A k \in 1..i : a[k] = b[k]

\* The k-th of b's letters is not in a.
Inserted(a, i, b, j) ==
    /\ j = i + 1
    /\ \E k \in 1..j : (\A l \in 1..(k - 1) : a[l] = b[l]) /\ (\A l \in k..i : a[l] = b[l + 1])

Exchanged(a, i, b, j) ==
    /\ i = j
    /\ \E k \in 1..i : \A l \in 1..i : l # k => a[l] = b[l]

AtMostOne(a, i, b, j) ==
    Same(a, i, b, j) \/ Inserted(a, i, b, j) \/ Inserted(b, j, a, i) \/ Exchanged(a, i, b, j)

AtMostTwo(a, i, b, j) ==
    \E n \in Nat : \E u \in [1..n -> Letter], m \in 0..n : AtMostOne(a, i, u, m) /\ AtMostOne(u, m, b, j)

AtMost(n, a, i, b, j) == IF n = 1 THEN AtMostOne(a, i, b, j) ELSE AtMostTwo(a, i, b, j)

-----------------------------------------------------------------------------
(* One more letter on both sides.                                          *)

LEMMA OneSymmetric ==
    ASSUME NEW a, NEW b, NEW i \in Nat, NEW j \in Nat
    PROVE  AtMostOne(a, i, b, j) <=> AtMostOne(b, j, a, i)
<1>1. Same(a, i, b, j) <=> Same(b, j, a, i)
  BY DEF Same
<1>2. Exchanged(a, i, b, j) <=> Exchanged(b, j, a, i)
  BY DEF Exchanged
<1> QED
  BY <1>1, <1>2 DEF AtMostOne

LEMMA SameIsAtMostOne ==
    ASSUME NEW a, NEW b, NEW u, NEW i \in Nat, NEW j \in Nat, NEW m \in Nat,
           Same(a, i, u, m), AtMostOne(u, m, b, j)
    PROVE  AtMostOne(a, i, b, j)
<1>1. i = m /\ \A k \in 1..i : a[k] = u[k]
  BY DEF Same
<1>2. Same(u, m, b, j) => Same(a, i, b, j)
  BY <1>1 DEF Same
<1>3. Exchanged(u, m, b, j) => Exchanged(a, i, b, j)
  BY <1>1 DEF Exchanged
<1>4. Inserted(u, m, b, j) => Inserted(a, i, b, j)
  <2> SUFFICES ASSUME Inserted(u, m, b, j) PROVE Inserted(a, i, b, j)
    OBVIOUS
  <2>1. PICK k \in 1..j : (\A l \in 1..(k - 1) : u[l] = b[l]) /\ (\A l \in k..m : u[l] = b[l + 1])
    BY DEF Inserted
  <2>2. j = i + 1
    BY <1>1 DEF Inserted
  <2>3. \A l \in 1..(k - 1) : a[l] = b[l]
    BY <1>1, <2>1, <2>2
  <2>4. \A l \in k..i : a[l] = b[l + 1]
    BY <1>1, <2>1
  <2> QED
    BY <2>2, <2>3, <2>4 DEF Inserted
<1>5. Inserted(b, j, u, m) => Inserted(b, j, a, i)
  <2> SUFFICES ASSUME Inserted(b, j, u, m) PROVE Inserted(b, j, a, i)
    OBVIOUS
  <2>1. PICK k \in 1..m : (\A l \in 1..(k - 1) : b[l] = u[l]) /\ (\A l \in k..j : b[l] = u[l + 1])
    BY DEF Inserted
  <2>2. i = j + 1
    BY <1>1 DEF Inserted
  <2>3. \A l \in 1..(k - 1) : b[l] = a[l]
    BY <1>1, <2>1, <2>2
  <2>4. \A l \in k..j : b[l] = a[l + 1]
    BY <1>1, <2>1, <2>2
  <2> QED
    BY <1>1, <2>2, <2>3, <2>4 DEF Inserted
<1> QED
  BY <1>2, <1>3, <1>4, <1>5 DEF AtMostOne

LEMMA SameMore ==
    ASSUME NEW a, NEW b, NEW i \in Nat, NEW j \in Nat
    PROVE  Same(a, i + 1, b, j + 1) <=> a[i + 1] = b[j + 1] /\ Same(a, i, b, j)
<1>1. ASSUME i = j PROVE 1..(i + 1) = 1..i \cup {i + 1}
  OBVIOUS
<1> QED
  BY <1>1 DEF Same

LEMMA InsertedMore ==
    ASSUME NEW a, NEW b, NEW i \in Nat, NEW j \in Nat
    PROVE  Inserted(a, i + 1, b, j + 1)
             <=> Same(a, i + 1, b, j) \/ (a[i + 1] = b[j + 1] /\ Inserted(a, i, b, j))
<1>1. ASSUME Inserted(a, i + 1, b, j + 1)
      PROVE  Same(a, i + 1, b, j) \/ (a[i + 1] = b[j + 1] /\ Inserted(a, i, b, j))
  <2>1. j = i + 1
    BY <1>1 DEF Inserted
  <2>2. PICK k \in 1..(j + 1) : /\ \A l \in 1..(k - 1) : a[l] = b[l]
                                /\ \A l \in k..(i + 1) : a[l] = b[l + 1]
    BY <1>1 DEF Inserted
  <2>3. CASE k = j + 1
    BY <2>1, <2>2, <2>3 DEF Same
  <2>4. CASE k \in 1..j
    <3>1. i + 1 \in k..(i + 1) /\ a[i + 1] = b[j + 1]
      BY <2>1, <2>2, <2>4
    <3>2. \A l \in k..i : a[l] = b[l + 1]
      BY <2>2
    <3> QED
      BY <2>1, <2>2, <2>4, <3>1, <3>2 DEF Inserted
  <2> QED
    BY <2>3, <2>4
<1>2. ASSUME Same(a, i + 1, b, j) PROVE Inserted(a, i + 1, b, j + 1)
  <2>1. j = i + 1 /\ \A l \in 1..(i + 1) : a[l] = b[l]
    BY <1>2 DEF Same
  <2>2. j + 1 \in 1..(j + 1) /\ (\A l \in 1..((j + 1) - 1) : a[l] = b[l])
        /\ \A l \in (j + 1)..(i + 1) : a[l] = b[l + 1]
    BY <2>1
  <2> QED
    BY <2>1, <2>2 DEF Inserted
<1>3. ASSUME a[i + 1] = b[j + 1], Inserted(a, i, b, j) PROVE Inserted(a, i + 1, b, j + 1)
  <2>1. j = i + 1
    BY <1>3 DEF Inserted
  <2>2. PICK k \in 1..j : (\A l \in 1..(k - 1) : a[l] = b[l]) /\ (\A l \in k..i : a[l] = b[l + 1])
    BY <1>3 DEF Inserted
  <2>3. k \in 1..(j + 1) /\ \A l \in k..(i + 1) : a[l] = b[l + 1]
    BY <1>3, <2>1, <2>2
  <2> QED
    BY <2>1, <2>2, <2>3 DEF Inserted
<1> QED
  BY <1>1, <1>2, <1>3

LEMMA ExchangedMore ==
    ASSUME NEW a, NEW b, NEW i \in Nat, NEW j \in Nat
    PROVE  Exchanged(a, i + 1, b, j + 1)
             <=> Same(a, i, b, j) \/ (a[i + 1] = b[j + 1] /\ Exchanged(a, i, b, j))
<1>1. ASSUME Exchanged(a, i + 1, b, j + 1)
      PROVE  Same(a, i, b, j) \/ (a[i + 1] = b[j + 1] /\ Exchanged(a, i, b, j))
  <2>1. i = j
    BY <1>1 DEF Exchanged
  <2>2. PICK k \in 1..(i + 1) : \A l \in 1..(i + 1) : l # k => a[l] = b[l]
    BY <1>1 DEF Exchanged
  <2>3. CASE k = i + 1
    BY <2>1, <2>2, <2>3 DEF Same
  <2>4. CASE k \in 1..i
    BY <2>1, <2>2, <2>4 DEF Exchanged
  <2> QED
    BY <2>3, <2>4
<1>2. ASSUME Same(a, i, b, j) PROVE Exchanged(a, i + 1, b, j + 1)
  <2>1. i = j /\ i + 1 \in 1..(i + 1) /\ \A l \in 1..(i + 1) : l # i + 1 => a[l] = b[l]
    BY <1>2 DEF Same
  <2> QED
    BY <2>1 DEF Exchanged
<1>3. ASSUME a[i + 1] = b[j + 1], Exchanged(a, i, b, j) PROVE Exchanged(a, i + 1, b, j + 1)
  <2>1. PICK k \in 1..i : \A l \in 1..i : l # k => a[l] = b[l]
    BY <1>3 DEF Exchanged
  <2>2. i = j /\ k \in 1..(i + 1) /\ \A l \in 1..(i + 1) : l # k => a[l] = b[l]
    BY <1>3, <2>1 DEF Exchanged
  <2> QED
    BY <2>2 DEF Exchanged
<1> QED
  BY <1>1, <1>2, <1>3

LEMMA OneMoreLetter ==
    ASSUME NEW a, NEW b, NEW i \in Nat, NEW j \in Nat
    PROVE  AtMostOne(a, i + 1, b, j + 1)
             <=> \/ Same(a, i + 1, b, j) \/ Same(a, i, b, j + 1) \/ Same(a, i, b, j)
                 \/ a[i + 1] = b[j + 1] /\ AtMostOne(a, i, b, j)
<1>1. Same(b, j + 1, a, i) <=> Same(a, i, b, j + 1)
  BY DEF Same
<1>2. Inserted(b, j + 1, a, i + 1)
        <=> Same(a, i, b, j + 1) \/ (a[i + 1] = b[j + 1] /\ Inserted(b, j, a, i))
  <2>1. Inserted(b, j + 1, a, i + 1)
          <=> Same(b, j + 1, a, i) \/ (b[j + 1] = a[i + 1] /\ Inserted(b, j, a, i))
    BY InsertedMore
  <2> QED
    BY <1>1, <2>1
<1> QED
  BY <1>2, SameMore, InsertedMore, ExchangedMore DEF AtMostOne

LEMMA OneAtEdge ==
    ASSUME NEW a, NEW b, NEW i \in Nat
    PROVE  (AtMostOne(a, i, b, 0) <=> i <= 1) /\ (AtMostOne(a, 0, b, i) <=> i <= 1)
<1>1. \A x, y : AtMostOne(x, 0, y, i) => i <= 1
  BY DEF AtMostOne, Same, Inserted, Exchanged
<1>2. \A x, y : i <= 1 => AtMostOne(x, 0, y, i)
  <2> SUFFICES ASSUME NEW x, NEW y, i <= 1 PROVE AtMostOne(x, 0, y, i)
    OBVIOUS
  <2>1. CASE i = 0
    BY <2>1 DEF AtMostOne, Same
  <2>2. CASE i = 1
    <3>1. 1 \in 1..1 /\ 1..(1 - 1) = {} /\ 1..0 = {}
      OBVIOUS
    <3>2. Inserted(x, 0, y, 1)
      BY <3>1 DEF Inserted
    <3> QED
      BY <2>2, <3>2 DEF AtMostOne
  <2> QED
    BY <2>1, <2>2
<1> QED
  BY <1>1, <1>2, OneSymmetric

LEMMA OneIsClose ==
    ASSUME NEW a, NEW b, NEW i \in Nat, NEW j \in Nat, AtMostOne(a, i, b, j)
    PROVE  i <= j + 1 /\ j <= i + 1
BY DEF AtMostOne, Same, Inserted, Exchanged

\* One letter more at the end of b, or of a, is one edit.
LEMMA OneAppended ==
    ASSUME NEW a, NEW b, NEW i \in Nat, NEW j \in Nat, Same(a, i, b, j)
    PROVE  AtMostOne(a, i, b, j + 1) /\ AtMostOne(a, i + 1, b, j)
<1>1. \A x, y : Same(x, i, y, j) => Inserted(x, i, y, j + 1)
  <2> SUFFICES ASSUME NEW x, NEW y, Same(x, i, y, j) PROVE Inserted(x, i, y, j + 1)
    OBVIOUS
  <2>1. i = j /\ \A l \in 1..i : x[l] = y[l]
    BY DEF Same
  <2>2. j + 1 \in 1..(j + 1) /\ (\A l \in 1..((j + 1) - 1) : x[l] = y[l])
        /\ \A l \in (j + 1)..i : x[l] = y[l + 1]
    BY <2>1
  <2> QED
    BY <2>1, <2>2 DEF Inserted
<1>2. i = j /\ Same(b, i, a, j)
  BY DEF Same
<1> QED
  BY <1>1, <1>2 DEF AtMostOne

\* An end without its last letter.
LEMMA SameShorter ==
    ASSUME NEW a, NEW b, NEW i \in Nat, NEW j \in Nat, Same(a, i + 1, b, j)
    PROVE  j >= 1 /\ j - 1 \in Nat /\ Same(a, i, b, j - 1) /\ a[i + 1] = b[j]
BY DEF Same

LEMMA TwoMoreLettersOnly ==
    ASSUME NEW a, NEW b, NEW i \in Nat, NEW j \in Nat, AtMostTwo(a, i + 1, b, j + 1)
    PROVE  \/ AtMostOne(a, i + 1, b, j) \/ AtMostOne(a, i, b, j + 1) \/ AtMostOne(a, i, b, j)
           \/ a[i + 1] = b[j + 1] /\ AtMostTwo(a, i, b, j)
<1> DEFINE Goal == \/ AtMostOne(a, i + 1, b, j) \/ AtMostOne(a, i, b, j + 1) \/ AtMostOne(a, i, b, j)
                   \/ a[i + 1] = b[j + 1] /\ AtMostTwo(a, i, b, j)
<1>1. PICK n \in Nat : \E u \in [1..n -> Letter], m \in 0..n :
        AtMostOne(a, i + 1, u, m) /\ AtMostOne(u, m, b, j + 1)
  BY DEF AtMostTwo
<1>2. PICK u \in [1..n -> Letter], m \in 0..n : AtMostOne(a, i + 1, u, m) /\ AtMostOne(u, m, b, j + 1)
  BY <1>1
<1>3. CASE m = 0
  <2>1. i = 0 /\ j = 0
    BY <1>2, <1>3, OneAtEdge
  <2>2. AtMostOne(a, i, b, j)
    BY <2>1, OneAtEdge
  <2> QED
    BY <2>2
<1>4. CASE m \in 1..n
  <2> DEFINE p == m - 1
  <2>1. p \in Nat /\ p + 1 = m /\ p \in 0..n /\ m \in Nat
    BY <1>4
  <2> HIDE DEF p, Goal
  <2>2. \/ Same(a, i + 1, u, p) \/ Same(a, i, u, m) \/ Same(a, i, u, p)
        \/ a[i + 1] = u[m] /\ AtMostOne(a, i, u, p)
    <3>1. AtMostOne(a, i + 1, u, p + 1)
      BY <1>2, <2>1
    <3>2. \/ Same(a, i + 1, u, p) \/ Same(a, i, u, p + 1) \/ Same(a, i, u, p)
          \/ a[i + 1] = u[p + 1] /\ AtMostOne(a, i, u, p)
      BY <2>1, <3>1, OneMoreLetter
    <3> QED
      BY <2>1, <3>2
  <2>3. \/ Same(u, m, b, j) \/ Same(u, p, b, j + 1) \/ Same(u, p, b, j)
        \/ u[m] = b[j + 1] /\ AtMostOne(u, p, b, j)
    BY <1>2, <2>1, OneMoreLetter
  <2>4. \A x, y : \A k, l \in Nat : Same(x, k, y, l) => AtMostOne(x, k, y, l) /\ Same(y, l, x, k)
    BY DEF AtMostOne, Same
  <2>5. ASSUME Same(a, i + 1, u, p) PROVE Goal
    <3>1. CASE Same(u, m, b, j)
      <4>1. Same(u, p, b, j - 1) /\ j - 1 \in Nat
        BY <2>1, <3>1, SameShorter
      <4>2. Same(a, i + 1, b, j - 1)
        BY <2>5, <4>1 DEF Same
      <4>3. (j - 1) + 1 = j
        OBVIOUS
      <4>4. AtMostOne(a, i + 1, b, j)
        BY <4>1, <4>2, <4>3, OneAppended
      <4> QED
        BY <4>4 DEF Goal
    <3>2. CASE Same(u, p, b, j + 1)
      <4>1. Same(a, i + 1, b, j + 1)
        BY <2>5, <3>2 DEF Same
      <4> QED
        BY <2>4, <4>1, SameMore DEF Goal
    <3>3. CASE Same(u, p, b, j)
      <4>1. AtMostOne(a, i + 1, b, j)
        BY <2>1, <2>4, <2>5, <3>3, SameIsAtMostOne
      <4> QED
        BY <4>1 DEF Goal
    <3>4. CASE AtMostOne(u, p, b, j)
      <4>1. AtMostOne(a, i + 1, b, j)
        BY <2>1, <2>5, <3>4, SameIsAtMostOne
      <4> QED
        BY <4>1 DEF Goal
    <3> QED
      BY <2>3, <3>1, <3>2, <3>3, <3>4
  <2>6. ASSUME Same(a, i, u, m) PROVE Goal
    <3>1. AtMostOne(a, i, b, j + 1)
      BY <1>2, <2>1, <2>6, SameIsAtMostOne
    <3> QED
      BY <3>1 DEF Goal
  <2>7. ASSUME Same(a, i, u, p) PROVE Goal
    <3>1. CASE Same(u, m, b, j)
      <4>1. Same(u, p, b, j - 1) /\ j - 1 \in Nat
        BY <2>1, <3>1, SameShorter
      <4>2. Same(a, i, b, j - 1)
        BY <2>7, <4>1 DEF Same
      <4>3. (j - 1) + 1 = j
        OBVIOUS
      <4>4. AtMostOne(a, i, b, j)
        BY <4>1, <4>2, <4>3, OneAppended
      <4> QED
        BY <4>4 DEF Goal
    <3>2. CASE Same(u, p, b, j + 1)
      <4>1. AtMostOne(a, i, b, j + 1)
        BY <2>1, <2>4, <2>7, <3>2, SameIsAtMostOne
      <4> QED
        BY <4>1 DEF Goal
    <3>3. CASE Same(u, p, b, j)
      <4>1. AtMostOne(a, i, b, j)
        BY <2>1, <2>4, <2>7, <3>3, SameIsAtMostOne
      <4> QED
        BY <4>1 DEF Goal
    <3>4. CASE AtMostOne(u, p, b, j)
      <4>1. AtMostOne(a, i, b, j)
        BY <2>1, <2>7, <3>4, SameIsAtMostOne
      <4> QED
        BY <4>1 DEF Goal
    <3> QED
      BY <2>3, <3>1, <3>2, <3>3, <3>4
  <2>8. ASSUME a[i + 1] = u[m], AtMostOne(a, i, u, p) PROVE Goal
    <3>0. AtMostOne(u, p, a, i)
      BY <2>1, <2>8, OneSymmetric
    <3>1. CASE Same(u, m, b, j)
      <4>1. AtMostOne(b, j, a, i + 1)
        BY <1>2, <2>1, <2>4, <3>1, OneSymmetric, SameIsAtMostOne
      <4>2. AtMostOne(a, i + 1, b, j)
        BY <4>1, OneSymmetric
      <4> QED
        BY <4>2 DEF Goal
    <3>2. CASE Same(u, p, b, j + 1)
      <4>1. AtMostOne(b, j + 1, a, i)
        BY <2>1, <2>4, <3>0, <3>2, SameIsAtMostOne
      <4>2. AtMostOne(a, i, b, j + 1)
        BY <4>1, OneSymmetric
      <4> QED
        BY <4>2 DEF Goal
    <3>3. CASE Same(u, p, b, j)
      <4>1. AtMostOne(b, j, a, i)
        BY <2>1, <2>4, <3>0, <3>3, SameIsAtMostOne
      <4>2. AtMostOne(a, i, b, j)
        BY <4>1, OneSymmetric
      <4> QED
        BY <4>2 DEF Goal
    <3>4. CASE u[m] = b[j + 1] /\ AtMostOne(u, p, b, j)
      <4>1. AtMostTwo(a, i, b, j)
        BY <2>1, <2>8, <3>4 DEF AtMostTwo
      <4> QED
        BY <2>8, <3>4, <4>1 DEF Goal
    <3> QED
      BY <2>3, <3>1, <3>2, <3>3, <3>4
  <2>9. Goal
    BY <2>2, <2>5, <2>6, <2>7, <2>8
  <2> QED
    BY <2>9 DEF Goal
<1> QED
  BY <1>3, <1>4

LEMMA TwoMoreLetters ==
    ASSUME NEW a, NEW b, NEW i \in Nat, NEW j \in Nat,
           \A k \in 1..(i + 1) : a[k] \in Letter, \A k \in 1..(j + 1) : b[k] \in Letter
    PROVE  /\ AtMostOne(a, i + 1, b, j) => AtMostTwo(a, i + 1, b, j + 1)
           /\ AtMostOne(a, i, b, j + 1) => AtMostTwo(a, i + 1, b, j + 1)
           /\ AtMostOne(a, i, b, j) => AtMostTwo(a, i + 1, b, j + 1)
           /\ a[i + 1] = b[j + 1] /\ AtMostTwo(a, i, b, j) => AtMostTwo(a, i + 1, b, j + 1)
<1>1. \A x : \A k \in Nat : Same(x, k, x, k)
  BY DEF Same
<1>2. ASSUME AtMostOne(a, i + 1, b, j) PROVE AtMostTwo(a, i + 1, b, j + 1)
  <2> DEFINE u == [k \in 1..j |-> b[k]]
  <2>1. u \in [1..j -> Letter] /\ j \in 0..j
    OBVIOUS
  <2>2. Same(b, j, u, j) /\ Same(u, j, b, j)
    BY DEF Same
  <2> HIDE DEF u
  <2>3. AtMostOne(u, j, a, i + 1)
    BY <1>2, <2>2, OneSymmetric, SameIsAtMostOne
  <2>4. AtMostOne(a, i + 1, u, j) /\ AtMostOne(u, j, b, j + 1)
    BY <2>2, <2>3, OneSymmetric, OneAppended
  <2> QED
    BY <2>1, <2>4 DEF AtMostTwo
<1>3. ASSUME AtMostOne(a, i, b, j + 1) PROVE AtMostTwo(a, i + 1, b, j + 1)
  <2> DEFINE u == [k \in 1..i |-> a[k]]
  <2>1. u \in [1..i -> Letter] /\ i \in 0..i
    OBVIOUS
  <2>2. Same(a, i, u, i) /\ Same(u, i, a, i)
    BY DEF Same
  <2> HIDE DEF u
  <2>3. AtMostOne(u, i, b, j + 1)
    BY <1>3, <2>2, SameIsAtMostOne
  <2>4. AtMostOne(a, i + 1, u, i)
    BY <2>2, OneAppended
  <2> QED
    BY <2>1, <2>3, <2>4 DEF AtMostTwo
<1>4. ASSUME AtMostOne(a, i, b, j) PROVE AtMostTwo(a, i + 1, b, j + 1)
  <2> DEFINE u == [k \in 1..(j + 1) |-> IF k = j + 1 THEN a[i + 1] ELSE b[k]]
  <2>1. u \in [1..(j + 1) -> Letter] /\ j + 1 \in 0..(j + 1) /\ j + 1 \in Nat
    OBVIOUS
  <2>2. Same(b, j, u, j) /\ Same(u, j, b, j) /\ u[j + 1] = a[i + 1]
    BY DEF Same
  <2> HIDE DEF u
  <2>3. AtMostOne(u, j, a, i)
    BY <1>4, <2>2, OneSymmetric, SameIsAtMostOne
  <2>4. AtMostOne(a, i, u, j)
    BY <2>3, OneSymmetric
  <2>5. AtMostOne(a, i + 1, u, j + 1)
    BY <2>2, <2>4, OneMoreLetter
  <2>6. AtMostOne(u, j + 1, b, j + 1)
    BY <2>2, OneMoreLetter
  <2> QED
    BY <2>1, <2>5, <2>6 DEF AtMostTwo
<1>5. ASSUME a[i + 1] = b[j + 1], AtMostTwo(a, i, b, j) PROVE AtMostTwo(a, i + 1, b, j + 1)
  <2>1. PICK n \in Nat : \E u \in [1..n -> Letter], m \in 0..n : AtMostOne(a, i, u, m) /\ AtMostOne(u, m, b, j)
    BY <1>5 DEF AtMostTwo
  <2>2. PICK u \in [1..n -> Letter], m \in 0..n : AtMostOne(a, i, u, m) /\ AtMostOne(u, m, b, j)
    BY <2>1
  <2> DEFINE v == [k \in 1..(m + 1) |-> IF k = m + 1 THEN a[i + 1] ELSE u[k]]
  <2>3. v \in [1..(m + 1) -> Letter] /\ m + 1 \in 0..(m + 1) /\ m + 1 \in Nat /\ m \in Nat
    OBVIOUS
  <2>4. Same(u, m, v, m) /\ Same(v, m, u, m) /\ v[m + 1] = a[i + 1]
    BY DEF Same
  <2> HIDE DEF v
  <2>5. AtMostOne(v, m, b, j)
    BY <2>2, <2>3, <2>4, SameIsAtMostOne
  <2>6. AtMostOne(v, m, a, i)
    BY <2>2, <2>3, <2>4, OneSymmetric, SameIsAtMostOne
  <2>7. AtMostOne(a, i + 1, v, m + 1) /\ AtMostOne(v, m + 1, b, j + 1)
    BY <1>5, <2>3, <2>4, <2>5, <2>6, OneSymmetric, OneMoreLetter
  <2> QED
    BY <2>3, <2>7 DEF AtMostTwo
<1> QED
  BY <1>2, <1>3, <1>4, <1>5

LEMMA OneIsTwo ==
    ASSUME NEW a, NEW b, NEW i \in Nat, NEW j \in Nat, \A k \in 1..j : b[k] \in Letter, AtMostOne(a, i, b, j)
    PROVE  AtMostTwo(a, i, b, j)
<1> DEFINE u == [k \in 1..j |-> b[k]]
<1>1. u \in [1..j -> Letter] /\ j \in 0..j
  OBVIOUS
<1>2. Same(b, j, u, j) /\ Same(u, j, b, j)
  BY DEF Same
<1> HIDE DEF u
<1>3. AtMostOne(b, j, a, i)
  BY OneSymmetric
<1>4. AtMostOne(u, j, a, i)
  BY <1>2, <1>3, SameIsAtMostOne
<1>5. AtMostOne(a, i, u, j)
  BY <1>4, OneSymmetric
<1>6. AtMostOne(u, j, b, j)
  BY <1>2 DEF AtMostOne
<1> QED
  BY <1>1, <1>5, <1>6 DEF AtMostTwo

LEMMA TwoSymmetric ==
    ASSUME NEW a, NEW b, NEW i \in Nat, NEW j \in Nat, AtMostTwo(a, i, b, j)
    PROVE  AtMostTwo(b, j, a, i)
<1>1. PICK n \in Nat : \E u \in [1..n -> Letter], m \in 0..n : AtMostOne(a, i, u, m) /\ AtMostOne(u, m, b, j)
  BY DEF AtMostTwo
<1>2. PICK u \in [1..n -> Letter], m \in 0..n : AtMostOne(a, i, u, m) /\ AtMostOne(u, m, b, j)
  BY <1>1
<1>3. AtMostOne(b, j, u, m) /\ AtMostOne(u, m, a, i)
  BY <1>2, OneSymmetric
<1> QED
  BY <1>3 DEF AtMostTwo

LEMMA TwoAtEdge ==
    ASSUME NEW a, NEW b, NEW i \in Nat, \A k \in 1..i : b[k] \in Letter
    PROVE  (AtMostTwo(a, 0, b, i) <=> i <= 2) /\ (AtMostTwo(b, i, a, 0) <=> i <= 2)
<1>1. ASSUME AtMostTwo(a, 0, b, i) PROVE i <= 2
  <2>1. PICK n \in Nat : \E u \in [1..n -> Letter], m \in 0..n : AtMostOne(a, 0, u, m) /\ AtMostOne(u, m, b, i)
    BY <1>1 DEF AtMostTwo
  <2>2. PICK u \in [1..n -> Letter], m \in 0..n : AtMostOne(a, 0, u, m) /\ AtMostOne(u, m, b, i)
    BY <2>1
  <2>3. m <= 1 /\ i <= m + 1
    BY <2>2, OneAtEdge, OneIsClose
  <2> QED
    BY <2>3
<1>2. ASSUME i <= 2 PROVE AtMostTwo(a, 0, b, i)
  <2>1. CASE i <= 1
    BY <2>1, OneAtEdge, OneIsTwo
  <2>2. CASE i = 2
    <3> DEFINE u == [k \in 1..1 |-> b[k]]
    <3>1. u \in [1..1 -> Letter] /\ 1 \in 0..1 /\ 1 \in Nat
      BY <2>2
    <3>2. Same(u, 1, b, 1)
      BY DEF Same
    <3> HIDE DEF u
    <3>3. AtMostOne(a, 0, u, 1)
      BY OneAtEdge
    <3>4. AtMostOne(u, 1, b, 1 + 1)
      BY <3>2, OneAppended
    <3>5. AtMostOne(u, 1, b, i)
      BY <2>2, <3>4
    <3> QED
      BY <3>1, <3>3, <3>5 DEF AtMostTwo
  <2> QED
    BY <1>2, <2>1, <2>2
<1> QED
  BY <1>1, <1>2, TwoSymmetric

-----------------------------------------------------------------------------
(* The rows of _levenshtein                                                *)

\* The distance d says what the edits are, as far as two of them.
Good(d, a, i, b, j) ==
    /\ d \in Nat
    /\ d = 0 <=> Same(a, i, b, j)
    /\ d <= 1 <=> AtMostOne(a, i, b, j)
    /\ d <= 2 <=> AtMostTwo(a, i, b, j)

LEMMA MinOfThree ==
    ASSUME NEW x \in Nat, NEW y \in Nat, NEW z \in Nat
    PROVE  Min({x, y, z}) \in {x, y, z} /\ \A w \in {x, y, z} : Min({x, y, z}) <= w
<1> DEFINE S == {x, y, z}
<1>1. \E m \in S : \A w \in S : m <= w
  BY LeastElement
<1> HIDE DEF S
<1>2. Min(S) \in S /\ \A w \in S : Min(S) <= w
  BY <1>1 DEF Min
<1> QED
  BY <1>2 DEF S

LEMMA GoodCell ==
    ASSUME NEW a, NEW b, NEW i \in Nat, NEW j \in Nat,
           \A k \in 1..(i + 1) : a[k] \in Letter, \A k \in 1..(j + 1) : b[k] \in Letter,
           NEW p, NEW q, NEW r, Good(p, a, i + 1, b, j), Good(q, a, i, b, j + 1), Good(r, a, i, b, j),
           NEW cost, cost = IF a[i + 1] = b[j + 1] THEN 0 ELSE 1
    PROVE  Good(Min({p + 1, q + 1, r + cost}), a, i + 1, b, j + 1)
<1> DEFINE d == Min({p + 1, q + 1, r + cost})
<1>1. p \in Nat /\ q \in Nat /\ r \in Nat /\ cost \in {0, 1}
  BY DEF Good
<1>2. d \in {p + 1, q + 1, r + cost} /\ d <= p + 1 /\ d <= q + 1 /\ d <= r + cost
  BY <1>1, MinOfThree
<1> HIDE DEF d
<1>3. d \in Nat
  BY <1>1, <1>2
<1>4. d = 0 <=> Same(a, i + 1, b, j + 1)
  <2>1. d = 0 <=> cost = 0 /\ r = 0
    BY <1>1, <1>2
  <2> QED
    BY <2>1, SameMore DEF Good
<1>5. d <= 1 <=> AtMostOne(a, i + 1, b, j + 1)
  <2>1. d <= 1 <=> p = 0 \/ q = 0 \/ r = 0 \/ (cost = 0 /\ r <= 1)
    BY <1>1, <1>2
  <2> QED
    BY <2>1, OneMoreLetter DEF Good
<1>6. d <= 2 <=> AtMostTwo(a, i + 1, b, j + 1)
  <2>1. d <= 2 <=> p <= 1 \/ q <= 1 \/ r <= 1 \/ (cost = 0 /\ r <= 2)
    BY <1>1, <1>2
  <2>2. /\ p <= 1 <=> AtMostOne(a, i + 1, b, j)
        /\ q <= 1 <=> AtMostOne(a, i, b, j + 1)
        /\ r <= 1 <=> AtMostOne(a, i, b, j)
        /\ cost = 0 /\ r <= 2 <=> a[i + 1] = b[j + 1] /\ AtMostTwo(a, i, b, j)
    BY DEF Good
  <2>3. d <= 2 => AtMostTwo(a, i + 1, b, j + 1)
    BY <2>1, <2>2, TwoMoreLetters
  <2>4. AtMostTwo(a, i + 1, b, j + 1) => d <= 2
    BY <2>1, <2>2, TwoMoreLettersOnly
  <2> QED
    BY <2>3, <2>4
<1>7. Good(d, a, i + 1, b, j + 1)
  BY <1>3, <1>4, <1>5, <1>6 DEF Good
<1> QED
  BY <1>7 DEF d

\* At the start of a row and in the first row.
LEMMA GoodEdge ==
    ASSUME NEW a, NEW b, NEW i \in Nat, \A k \in 1..i : a[k] \in Letter
    PROVE  Good(i, a, i, b, 0) /\ Good(i, b, 0, a, i)
<1>1. (i = 0 <=> Same(a, i, b, 0)) /\ (i = 0 <=> Same(b, 0, a, i))
  BY DEF Same
<1> QED
  BY <1>1, OneAtEdge, TwoAtEdge DEF Good

\* A function that is made from its value before: from v at 0, and by the letters b.
Cost(a, b, i, j) == IF a[i] = b[j] THEN 0 ELSE 1

CellStep(prev, a, b, i, curr, j) ==
    Append(curr, Min({curr[j] + 1, prev[j + 1] + 1, prev[j] + Cost(a, b, i, j)}))

UpToStep(prev, a, b, i, g, j) ==
    IF j = 0 THEN <<i>> ELSE CellStep(prev, a, b, i, g[j - 1], j)

\* The row up to each of its columns.
UpTo(prev, a, b, i) == CHOOSE g : g = [j \in 0..Len(b) |-> UpToStep(prev, a, b, i, g, j)]

LEMMA NextRowIs ==
    ASSUME NEW prev, NEW a, NEW b, NEW i
    PROVE  NextRow(prev, a, b, i) = UpTo(prev, a, b, i)[Len(b)]
BY DEF NextRow, UpTo, UpToStep, CellStep, Cost

LEMMA UpToExists ==
    ASSUME NEW prev, NEW a, NEW b, NEW i, Len(b) \in Nat
    PROVE  UpTo(prev, a, b, i) = [j \in 0..Len(b) |-> UpToStep(prev, a, b, i, UpTo(prev, a, b, i), j)]
<1> DEFINE n == Len(b)
           Step(g, j) == UpToStep(prev, a, b, i, g, j)
           S == {k \in 0..n : \E g : \A j \in 0..k : g[j] = Step(g, j)}
<1>1. \A g, h : \A j : (j # 0 => g[j - 1] = h[j - 1]) => Step(g, j) = Step(h, j)
  BY DEF UpToStep
<1> HIDE DEF Step
<1>2. 0 \in S
  <2> DEFINE h == [j \in 0..0 |-> Step(<<>>, 0)]
  <2>1. Step(<<>>, 0) = Step(h, 0)
    BY <1>1
  <2>2. h[0] = Step(h, 0)
    BY <2>1
  <2> HIDE DEF h
  <2>3. \A j \in 0..0 : h[j] = Step(h, j)
    BY <2>2
  <2> QED
    BY <2>3
<1>3. ASSUME NEW k \in 0..(n - 1), k \in S PROVE k + 1 \in S
  <2>1. PICK g : \A j \in 0..k : g[j] = Step(g, j)
    BY <1>3
  <2> DEFINE h == [j \in 0..(k + 1) |-> IF j = k + 1 THEN Step(g, k + 1) ELSE g[j]]
  <2>2. \A j \in 0..k : h[j] = g[j]
    OBVIOUS
  <2>3. h[k + 1] = Step(g, k + 1)
    OBVIOUS
  <2> HIDE DEF h
  <2>4. ASSUME NEW j \in 0..(k + 1) PROVE h[j] = Step(h, j)
    <3>1. j # 0 => g[j - 1] = h[j - 1]
      <4> SUFFICES ASSUME j # 0 PROVE g[j - 1] = h[j - 1]
        OBVIOUS
      <4>1. j - 1 \in 0..k
        OBVIOUS
      <4> QED
        BY <2>2, <4>1
    <3>2. Step(g, j) = Step(h, j)
      BY <1>1, <3>1
    <3>3. h[j] = Step(g, j)
      BY <2>1, <2>2, <2>3
    <3> QED
      BY <3>2, <3>3
  <2> QED
    BY <2>4
<1>4. n \in S
  <2>1. 0..n \subseteq S
    <3> HIDE DEF S
    <3> QED
      BY <1>2, <1>3, Upwards
  <2> QED
    BY <2>1
<1>5. PICK g : \A j \in 0..n : g[j] = Step(g, j)
  BY <1>4
<1> DEFINE h == [j \in 0..n |-> g[j]]
<1>6. ASSUME NEW j \in 0..n PROVE h[j] = Step(h, j)
  <2>1. j # 0 => g[j - 1] = h[j - 1]
    OBVIOUS
  <2>2. Step(g, j) = Step(h, j)
    BY <1>1, <2>1
  <2> QED
    BY <1>5, <2>2
<1>7. h = [j \in 0..n |-> Step(h, j)]
  BY <1>6
<1> HIDE DEF h
<1> USE DEF Step
<1> QED
  BY <1>7, Zenon DEF UpTo

\* The row of the first i letters of a.
GoodRow(row, a, i, b) ==
    /\ row \in Seq(Nat) /\ Len(row) = Len(b) + 1
    /\ \A j \in 0..Len(b) : Good(row[j + 1], a, i, b, j)

LEMMA NextRowIsGood ==
    ASSUME NEW a \in Seq(Letter), NEW b \in Seq(Letter), NEW i \in Nat, i < Len(a),
           NEW prev, GoodRow(prev, a, i, b)
    PROVE  GoodRow(NextRow(prev, a, b, i + 1), a, i + 1, b)
<1> DEFINE n == Len(b)
           up == UpTo(prev, a, b, i + 1)
           S == {j \in 0..n : /\ up[j] \in Seq(Nat) /\ Len(up[j]) = j + 1
                              /\ \A k \in 0..j : Good(up[j][k + 1], a, i + 1, b, k)}
<1>1. /\ n \in Nat /\ \A k \in 1..(i + 1) : a[k] \in Letter
      /\ \A k \in 1..n : b[k] \in Letter
  OBVIOUS
<1>2. \A j \in 0..n : up[j] = UpToStep(prev, a, b, i + 1, up, j)
  BY <1>1, UpToExists
<1> HIDE DEF up
<1>3. 0 \in S
  <2>1. up[0] = <<i + 1>>
    BY <1>1, <1>2 DEF UpToStep
  <2>2. up[0] \in Seq(Nat) /\ Len(up[0]) = 0 + 1 /\ up[0][0 + 1] = i + 1
    BY <2>1
  <2>3. Good(i + 1, a, i + 1, b, 0)
    BY <1>1, GoodEdge
  <2>4. \A k \in 0..0 : Good(up[0][k + 1], a, i + 1, b, k)
    BY <2>2, <2>3
  <2> QED
    BY <1>1, <2>2, <2>4
<1>4. ASSUME NEW j \in 0..(n - 1), j \in S PROVE j + 1 \in S
  <2> DEFINE curr == up[j]
             cost == Cost(a, b, i + 1, j + 1)
             d == Min({curr[j + 1] + 1, prev[(j + 1) + 1] + 1, prev[j + 1] + cost})
  <2>1. curr \in Seq(Nat) /\ Len(curr) = j + 1 /\ \A k \in 0..j : Good(curr[k + 1], a, i + 1, b, k)
    BY <1>4
  <2>2. j + 1 \in 0..n /\ (j + 1) - 1 = j /\ j + 1 # 0 /\ j \in Nat /\ j \in 0..j /\ j \in 0..n
    BY <1>1
  <2>3. up[j + 1] = Append(curr, d)
    BY <1>2, <2>2 DEF UpToStep, CellStep
  <2> HIDE DEF curr
  <2>4. /\ Good(curr[j + 1], a, i + 1, b, j) /\ Good(prev[(j + 1) + 1], a, i, b, j + 1)
        /\ Good(prev[j + 1], a, i, b, j)
    BY <2>1, <2>2 DEF GoodRow
  <2>5. cost = IF a[i + 1] = b[j + 1] THEN 0 ELSE 1
    BY DEF Cost
  <2> HIDE DEF cost
  <2>6. \A k \in 1..(j + 1) : b[k] \in Letter
    BY <1>1, <2>2
  <2>7. Good(d, a, i + 1, b, j + 1)
    BY <1>1, <2>2, <2>4, <2>5, <2>6, GoodCell
  <2>8. d \in Nat
    BY <2>7 DEF Good
  <2> HIDE DEF d
  <2> DEFINE row == Append(curr, d)
  <2>9. /\ row \in Seq(Nat) /\ Len(row) = (j + 1) + 1 /\ row[(j + 1) + 1] = d
        /\ \A k \in 0..j : row[k + 1] = curr[k + 1]
    BY <2>1, <2>8
  <2> HIDE DEF row
  <2>10. ASSUME NEW k \in 0..(j + 1) PROVE Good(row[k + 1], a, i + 1, b, k)
    <3>1. CASE k = j + 1
      BY <2>7, <2>9, <3>1
    <3>2. CASE k \in 0..j
      BY <2>1, <2>9, <3>2
    <3> QED
      BY <3>1, <3>2
  <2>11. up[j + 1] = row
    BY <2>3 DEF row
  <2> QED
    BY <2>2, <2>9, <2>10, <2>11
<1>5. n \in S
  <2>1. 0..n \subseteq S
    <3> HIDE DEF S, n
    <3> QED
      BY <1>1, <1>3, <1>4, Upwards
  <2> QED
    BY <1>1, <2>1
<1> QED
  BY <1>5, NextRowIs DEF GoodRow, up

\* No end of b is within the bound of the first i letters of a.
Far(bound, a, i, b) == \A j \in 0..Len(b) : ~AtMost(bound, a, i, b, j)

\* What is too far in one row is too far in the next: the search may stop.
LEMMA FarStays ==
    ASSUME NEW a \in Seq(Letter), NEW b \in Seq(Letter), NEW i \in Nat, i < Len(a),
           NEW bound \in {1, 2}, Far(bound, a, i, b)
    PROVE  Far(bound, a, i + 1, b)
<1> DEFINE n == Len(b)
           S == {j \in 0..n : ~AtMost(bound, a, i + 1, b, j)}
<1>1. n \in Nat /\ (\A k \in 1..(i + 1) : a[k] \in Letter) /\ \A k \in 1..n : b[k] \in Letter
  OBVIOUS
<1>2. \A j \in 0..n : ~AtMost(bound, a, i, b, j)
  BY DEF Far
<1>3. 0 \in S
  <2>1. ~AtMost(bound, a, i, b, 0)
    BY <1>1, <1>2
  <2>2. CASE bound = 1
    BY <1>1, <2>1, <2>2, OneAtEdge DEF AtMost
  <2>3. CASE bound = 2
    <3>1. /\ AtMostTwo(a, i, b, 0) <=> i <= 2
          /\ AtMostTwo(a, i + 1, b, 0) <=> i + 1 <= 2
      BY <1>1, TwoAtEdge
    <3> QED
      BY <1>1, <2>1, <2>3, <3>1 DEF AtMost
  <2> QED
    BY <2>2, <2>3
<1>4. ASSUME NEW j \in 0..(n - 1), j \in S PROVE j + 1 \in S
  <2>1. j \in Nat /\ j \in 0..n /\ j + 1 \in 0..n /\ \A k \in 1..(j + 1) : b[k] \in Letter
    BY <1>1
  <2>2. ~AtMost(bound, a, i + 1, b, j) /\ ~AtMost(bound, a, i, b, j + 1) /\ ~AtMost(bound, a, i, b, j)
    BY <1>2, <1>4, <2>1
  <2>3. CASE bound = 1
    <3>1. \A x, y : \A k, l \in Nat : Same(x, k, y, l) => AtMostOne(x, k, y, l)
      BY DEF AtMostOne
    <3>2. ~AtMostOne(a, i + 1, b, j + 1)
      BY <2>1, <2>2, <2>3, <3>1, OneMoreLetter DEF AtMost
    <3> QED
      BY <2>1, <2>3, <3>2 DEF AtMost
  <2>4. CASE bound = 2
    <3>1. ~AtMostTwo(a, i + 1, b, j) /\ ~AtMostTwo(a, i, b, j + 1) /\ ~AtMostTwo(a, i, b, j)
      BY <2>2, <2>4 DEF AtMost
    <3>2. \A k \in 1..j : b[k] \in Letter
      BY <2>1
    <3>3. ~AtMostOne(a, i + 1, b, j) /\ ~AtMostOne(a, i, b, j + 1) /\ ~AtMostOne(a, i, b, j)
      BY <2>1, <3>1, <3>2, OneIsTwo
    <3>4. ~AtMostTwo(a, i + 1, b, j + 1)
      BY <2>1, <3>1, <3>3, TwoMoreLettersOnly
    <3> QED
      BY <2>1, <2>4, <3>4 DEF AtMost
  <2> QED
    BY <2>3, <2>4
<1>5. 0..n \subseteq S
  <2> HIDE DEF S, n
  <2> QED
    BY <1>1, <1>3, <1>4, Upwards
<1> QED
  BY <1>5 DEF Far

LEMMA StopsEarlyIsFar ==
    ASSUME NEW a, NEW b, Len(b) \in Nat, NEW i, NEW row, GoodRow(row, a, i, b),
           NEW bound \in {1, 2}, StopsEarly(row, bound)
    PROVE  Far(bound, a, i, b)
<1> DEFINE T == ToSet(row)
<1>0. row \in Seq(Nat) /\ Len(row) = Len(b) + 1
  BY DEF GoodRow
<1>1. T \in SUBSET Nat /\ T # {} /\ \A j \in 0..Len(b) : row[j + 1] \in T
  <2>1. T = {row[k] : k \in 1..Len(row)} /\ 1 \in 1..Len(row)
    BY <1>0 DEF ToSet
  <2>2. \A j \in 0..Len(b) : j + 1 \in 1..Len(row)
    BY <1>0
  <2>3. \A k \in 1..Len(row) : row[k] \in Nat
    BY <1>0
  <2> HIDE DEF T
  <2> QED
    BY <2>1, <2>2, <2>3
<1> HIDE DEF T
<1>2. \E m \in T : \A n \in T : m <= n
  BY <1>1, LeastElement
<1>3. Min(T) \in T /\ \A n \in T : Min(T) <= n
  BY <1>2 DEF Min
<1>4. Min(T) > bound
  BY DEF StopsEarly, RowMin, T
<1>5. ASSUME NEW j \in 0..Len(b) PROVE ~AtMost(bound, a, i, b, j)
  <2>1. row[j + 1] \in Nat /\ row[j + 1] > bound
    <3>1. row[j + 1] \in T /\ row[j + 1] \in Nat /\ Min(T) \in Nat
      BY <1>1, <1>3
    <3>2. Min(T) <= row[j + 1]
      BY <1>3, <3>1
    <3> QED
      BY <1>4, <3>1, <3>2
  <2> QED
    BY <2>1 DEF GoodRow, Good, AtMost
<1> QED
  BY <1>5 DEF Far

RowsStep(a, b, bound, g, i) ==
    IF i = 0 THEN [j \in 1..(Len(b) + 1) |-> j - 1]
    ELSE IF g[i - 1] = <<>> \/ StopsEarly(NextRow(g[i - 1], a, b, i), bound) THEN <<>>
    ELSE NextRow(g[i - 1], a, b, i)

Rows(a, b, bound) == CHOOSE g : g = [i \in 0..Len(a) |-> RowsStep(a, b, bound, g, i)]

LEMMA LevenshteinHasRows ==
    ASSUME NEW a, NEW b, NEW bound
    PROVE  Levenshtein(a, b, bound) =
             IF Len(a) - Len(b) > bound \/ Len(b) - Len(a) > bound THEN Exceeded
             ELSE IF a = b THEN 0
             ELSE IF Rows(a, b, bound)[Len(a)] = <<>> THEN Exceeded
             ELSE Last(Rows(a, b, bound)[Len(a)])
BY DEF Levenshtein, Rows, RowsStep

LEMMA RowsExist ==
    ASSUME NEW a, NEW b, NEW bound, Len(a) \in Nat
    PROVE  Rows(a, b, bound) = [i \in 0..Len(a) |-> RowsStep(a, b, bound, Rows(a, b, bound), i)]
<1> DEFINE n == Len(a)
           Step(g, i) == RowsStep(a, b, bound, g, i)
           S == {k \in 0..n : \E g : \A i \in 0..k : g[i] = Step(g, i)}
<1>1. \A g, h : \A i : (i # 0 => g[i - 1] = h[i - 1]) => Step(g, i) = Step(h, i)
  BY DEF RowsStep
<1> HIDE DEF Step
<1>2. 0 \in S
  <2> DEFINE h == [i \in 0..0 |-> Step(<<>>, 0)]
  <2>1. Step(<<>>, 0) = Step(h, 0)
    BY <1>1
  <2>2. h[0] = Step(h, 0)
    BY <2>1
  <2> HIDE DEF h
  <2>3. \A i \in 0..0 : h[i] = Step(h, i)
    BY <2>2
  <2> QED
    BY <2>3
<1>3. ASSUME NEW k \in 0..(n - 1), k \in S PROVE k + 1 \in S
  <2>1. PICK g : \A i \in 0..k : g[i] = Step(g, i)
    BY <1>3
  <2> DEFINE h == [i \in 0..(k + 1) |-> IF i = k + 1 THEN Step(g, k + 1) ELSE g[i]]
  <2>2. \A i \in 0..k : h[i] = g[i]
    OBVIOUS
  <2>3. h[k + 1] = Step(g, k + 1)
    OBVIOUS
  <2> HIDE DEF h
  <2>4. ASSUME NEW i \in 0..(k + 1) PROVE h[i] = Step(h, i)
    <3>1. i # 0 => g[i - 1] = h[i - 1]
      <4> SUFFICES ASSUME i # 0 PROVE g[i - 1] = h[i - 1]
        OBVIOUS
      <4>1. i - 1 \in 0..k
        OBVIOUS
      <4> QED
        BY <2>2, <4>1
    <3>2. Step(g, i) = Step(h, i)
      BY <1>1, <3>1
    <3>3. h[i] = Step(g, i)
      BY <2>1, <2>2, <2>3
    <3> QED
      BY <3>2, <3>3
  <2> QED
    BY <2>4
<1>4. n \in S
  <2>1. 0..n \subseteq S
    <3> HIDE DEF S
    <3> QED
      BY <1>2, <1>3, Upwards
  <2> QED
    BY <2>1
<1>5. PICK g : \A i \in 0..n : g[i] = Step(g, i)
  BY <1>4
<1> DEFINE h == [i \in 0..n |-> g[i]]
<1>6. ASSUME NEW i \in 0..n PROVE h[i] = Step(h, i)
  <2>1. i # 0 => g[i - 1] = h[i - 1]
    OBVIOUS
  <2>2. Step(g, i) = Step(h, i)
    BY <1>1, <2>1
  <2> QED
    BY <1>5, <2>2
<1>7. h = [i \in 0..n |-> Step(h, i)]
  BY <1>6
<1> HIDE DEF h
<1> USE DEF Step
<1> QED
  BY <1>7, Zenon DEF Rows

\* A row is good, or the search has stopped for a reason.
LEMMA RowsAreGood ==
    ASSUME NEW a \in Seq(Letter), NEW b \in Seq(Letter), NEW bound \in {1, 2}, NEW i \in 0..Len(a)
    PROVE  \/ Rows(a, b, bound)[i] = <<>> /\ Far(bound, a, i, b)
           \/ Rows(a, b, bound)[i] # <<>> /\ GoodRow(Rows(a, b, bound)[i], a, i, b)
<1> DEFINE rows == Rows(a, b, bound)
           Fine(k) == \/ rows[k] = <<>> /\ Far(bound, a, k, b)
                      \/ rows[k] # <<>> /\ GoodRow(rows[k], a, k, b)
           n == Len(a)
           S == {k \in 0..n : Fine(k)}
<1>1. n \in Nat /\ Len(b) \in Nat /\ \A k \in 1..Len(b) : b[k] \in Letter
  OBVIOUS
<1>2. \A k \in 0..n : rows[k] = RowsStep(a, b, bound, rows, k)
  BY <1>1, RowsExist
<1> HIDE DEF rows
<1>3. \A row, k : GoodRow(row, a, k, b) => row # <<>>
  BY <1>1 DEF GoodRow
<1>4. 0 \in S
  <2> DEFINE row == [j \in 1..(Len(b) + 1) |-> j - 1]
  <2>1. rows[0] = row
    BY <1>1, <1>2 DEF RowsStep
  <2>2. row \in Seq(Nat) /\ Len(row) = Len(b) + 1 /\ \A j \in 0..Len(b) : row[j + 1] = j
    BY <1>1
  <2> HIDE DEF row
  <2>3. ASSUME NEW j \in 0..Len(b) PROVE Good(row[j + 1], a, 0, b, j)
    <3>1. \A k \in 1..j : b[k] \in Letter
      BY <1>1
    <3>2. Good(j, a, 0, b, j)
      BY <1>1, <3>1, GoodEdge
    <3> QED
      BY <2>2, <3>2
  <2>4. GoodRow(row, a, 0, b)
    BY <2>2, <2>3 DEF GoodRow
  <2> QED
    BY <1>1, <1>3, <2>1, <2>4
<1>5. ASSUME NEW k \in 0..(n - 1), k \in S PROVE k + 1 \in S
  <2> DEFINE curr == NextRow(rows[k], a, b, k + 1)
  <2>1. k \in Nat /\ k < Len(a) /\ k + 1 \in 0..n /\ k + 1 # 0 /\ (k + 1) - 1 = k
    BY <1>1
  <2>2. rows[k + 1] = IF rows[k] = <<>> \/ StopsEarly(curr, bound) THEN <<>> ELSE curr
    BY <1>2, <2>1 DEF RowsStep
  <2>3. Fine(k)
    BY <1>5
  <2>4. CASE rows[k] = <<>>
    <3>1. Far(bound, a, k + 1, b)
      BY <2>1, <2>3, <2>4, FarStays
    <3> HIDE DEF curr
    <3> QED
      BY <2>1, <2>2, <2>4, <3>1
  <2>5. CASE rows[k] # <<>>
    <3>1. GoodRow(curr, a, k + 1, b)
      BY <2>1, <2>3, <2>5, NextRowIsGood
    <3> HIDE DEF curr
    <3>2. CASE StopsEarly(curr, bound)
      <4>1. Far(bound, a, k + 1, b)
        BY <1>1, <3>1, <3>2, StopsEarlyIsFar
      <4> QED
        BY <2>1, <2>2, <3>2, <4>1
    <3>3. CASE ~StopsEarly(curr, bound)
      BY <1>3, <2>1, <2>2, <2>5, <3>1, <3>3
    <3> QED
      BY <3>2, <3>3
  <2> QED
    BY <2>4, <2>5
<1>6. 0..n \subseteq S
  <2> HIDE DEF S, n
  <2> QED
    BY <1>1, <1>4, <1>5, Upwards
<1> QED
  BY <1>6 DEF rows

LEMMA AtMostIsClose ==
    ASSUME NEW a, NEW b, NEW i \in Nat, NEW j \in Nat, NEW bound \in {1, 2}, AtMost(bound, a, i, b, j)
    PROVE  i - j <= bound /\ j - i <= bound
<1>1. CASE bound = 1
  BY <1>1, OneIsClose DEF AtMost
<1>2. CASE bound = 2
  <2>1. AtMostTwo(a, i, b, j)
    BY <1>2 DEF AtMost
  <2>2. PICK n \in Nat : \E u \in [1..n -> Letter], m \in 0..n : AtMostOne(a, i, u, m) /\ AtMostOne(u, m, b, j)
    BY <2>1 DEF AtMostTwo
  <2>3. PICK u \in [1..n -> Letter], m \in 0..n : AtMostOne(a, i, u, m) /\ AtMostOne(u, m, b, j)
    BY <2>2
  <2>4. i <= m + 1 /\ m <= i + 1 /\ m <= j + 1 /\ j <= m + 1
    BY <2>3, OneIsClose
  <2> QED
    BY <1>2, <2>4
<1> QED
  BY <1>1, <1>2

\* The bounded distance is within the bound exactly for other labels within the edits.
LEMMA LevenshteinIsEdits ==
    ASSUME NEW a \in Seq(Letter), NEW b \in Seq(Letter), NEW bound \in {1, 2}
    PROVE  Levenshtein(a, b, bound) \in 1..bound <=> a # b /\ AtMost(bound, a, Len(a), b, Len(b))
<1> DEFINE i == Len(a)
           j == Len(b)
           row == Rows(a, b, bound)[i]
           d == Levenshtein(a, b, bound)
<1>1. i \in Nat /\ j \in Nat /\ i \in 0..i /\ j \in 0..j
  OBVIOUS
<1>2. d = IF i - j > bound \/ j - i > bound THEN Exceeded
          ELSE IF a = b THEN 0
          ELSE IF row = <<>> THEN Exceeded
          ELSE Last(row)
  BY LevenshteinHasRows
<1>3. Same(a, i, b, j) <=> a = b
  BY DEF Same
<1>4. \/ row = <<>> /\ Far(bound, a, i, b)
      \/ row # <<>> /\ GoodRow(row, a, i, b)
  BY <1>1, RowsAreGood
<1> HIDE DEF i, j, row, d
<1>5. CASE i - j > bound \/ j - i > bound
  <2>1. ~AtMost(bound, a, i, b, j)
    BY <1>1, <1>5, AtMostIsClose
  <2>2. d = Exceeded
    BY <1>2, <1>5
  <2> QED
    BY <2>1, <2>2 DEF Exceeded, d, i, j
<1>6. CASE ~(i - j > bound \/ j - i > bound)
  <2>1. CASE a = b
    <3>1. d = 0
      BY <1>2, <1>6, <2>1
    <3> QED
      BY <2>1, <3>1 DEF d
  <2>2. CASE a # b /\ row = <<>>
    <3>1. ~AtMost(bound, a, i, b, j)
      BY <1>1, <1>4, <2>2 DEF Far, j
    <3>2. d = Exceeded
      BY <1>2, <1>6, <2>2
    <3> QED
      BY <3>1, <3>2 DEF Exceeded, d, i, j
  <2>3. CASE a # b /\ row # <<>>
    <3>1. GoodRow(row, a, i, b)
      BY <1>4, <2>3
    <3>2. d = Last(row)
      BY <1>2, <1>6, <2>3
    <3>3. Last(row) = row[j + 1] /\ Good(row[j + 1], a, i, b, j)
      BY <1>1, <3>1 DEF GoodRow, Last, j
    <3>4. Good(d, a, i, b, j)
      BY <3>2, <3>3
    <3>5. d \in Nat /\ d # 0
      BY <1>3, <2>3, <3>4 DEF Good
    <3>6. d <= bound <=> AtMost(bound, a, i, b, j)
      BY <3>4 DEF Good, AtMost
    <3> QED
      BY <2>3, <3>5, <3>6 DEF d, i, j
  <2> QED
    BY <2>1, <2>2, <2>3
<1> QED
  BY <1>5, <1>6

-----------------------------------------------------------------------------
(* One edit                                                                *)

\* The two parts of s.
LEMMA Parts ==
    ASSUME NEW X, NEW s \in Seq(X), NEW i \in 0..Len(s)
    PROVE  /\ SubSeq(s, 1, i) \in Seq(X) /\ Len(SubSeq(s, 1, i)) = i
           /\ \A k \in 1..i : SubSeq(s, 1, i)[k] = s[k]
           /\ SubSeq(s, i + 1, Len(s)) \in Seq(X) /\ Len(SubSeq(s, i + 1, Len(s))) = Len(s) - i
           /\ \A k \in 1..(Len(s) - i) : SubSeq(s, i + 1, Len(s))[k] = s[i + k]
<1>0. Len(s) \in Nat /\ i \in Nat
  OBVIOUS
<1>1. \A k \in 1..Len(s) : s[k] \in X
  OBVIOUS
<1> DEFINE p == SubSeq(s, 1, i)
           q == SubSeq(s, i + 1, Len(s))
<1>2. p \in Seq(X) /\ Len(p) = i /\ \A k \in 1..i : p[k] = s[k]
  <2>1. \A k \in 1..i : s[k] \in X
    BY <1>0, <1>1
  <2>2. /\ p \in Seq(X)
        /\ Len(p) = IF 1 <= i THEN i - 1 + 1 ELSE 0
        /\ \A k \in 1..(i - 1 + 1) : p[k] = s[1 + k - 1]
    BY <1>0, <2>1, SubSeqProperties
  <2>3. i - 1 + 1 = i /\ \A k \in 1..i : 1 + k - 1 = k
    BY <1>0
  <2> HIDE DEF p
  <2> QED
    BY <1>0, <2>2, <2>3
<1>3. q \in Seq(X) /\ Len(q) = Len(s) - i /\ \A k \in 1..(Len(s) - i) : q[k] = s[i + k]
  <2>1. \A k \in (i + 1)..Len(s) : s[k] \in X
    BY <1>0, <1>1
  <2>2. /\ q \in Seq(X)
        /\ Len(q) = IF i + 1 <= Len(s) THEN Len(s) - (i + 1) + 1 ELSE 0
        /\ \A k \in 1..(Len(s) - (i + 1) + 1) : q[k] = s[(i + 1) + k - 1]
    BY <1>0, <2>1, SubSeqProperties
  <2>3. Len(s) - (i + 1) + 1 = Len(s) - i /\ \A k \in 1..(Len(s) - i) : (i + 1) + k - 1 = i + k
    BY <1>0
  <2> HIDE DEF q
  <2>4. Len(q) = Len(s) - i
    <3>0. Len(q) = IF i + 1 <= Len(s) THEN Len(s) - (i + 1) + 1 ELSE 0
      BY <2>2, Zenon
    <3>1. CASE i + 1 <= Len(s)
      BY <2>3, <3>0, <3>1, Zenon
    <3>2. CASE ~(i + 1 <= Len(s))
      <4>1. Len(q) = 0
        BY <3>0, <3>2, Zenon
      <4>2. Len(s) - i = 0
        BY <1>0, <3>2
      <4> QED
        BY <4>1, <4>2, Zenon
    <3> QED
      BY <3>1, <3>2, Zenon
  <2>5. ASSUME NEW k \in 1..(Len(s) - i) PROVE q[k] = s[i + k]
    <3>1. k \in 1..(Len(s) - (i + 1) + 1) /\ (i + 1) + k - 1 = i + k
      BY <1>0, <2>3
    <3>2. q[k] = s[(i + 1) + k - 1]
      BY <2>2, <3>1
    <3> QED
      BY <3>1, <3>2
  <2> QED
    BY <2>2, <2>4, <2>5
<1> QED
  BY <1>2, <1>3

Both(p, q) == p \o q

\* t is p followed by q.
FollowedBy(t, p, q, X) ==
    /\ t \in Seq(X) /\ Len(t) = Len(p) + Len(q)
    /\ \A k \in 1..Len(p) : t[k] = p[k]
    /\ \A k \in 1..Len(q) : t[Len(p) + k] = q[k]

LEMMA Joined ==
    ASSUME NEW X, NEW p \in Seq(X), NEW q \in Seq(X)
    PROVE  FollowedBy(Both(p, q), p, q, X)
BY DEF Both, FollowedBy

\* t is s with x after its i-th letter.
Wider(t, s, i, x, X) ==
    /\ t \in Seq(X) /\ Len(t) = Len(s) + 1 /\ t[i + 1] = x
    /\ \A k \in 1..i : t[k] = s[k]
    /\ \A k \in (i + 1)..Len(s) : t[k + 1] = s[k]

\* t is s without its i-th letter.
Narrower(t, s, i, X) ==
    /\ t \in Seq(X) /\ Len(t) = Len(s) - 1
    /\ \A k \in 1..(i - 1) : t[k] = s[k]
    /\ \A k \in i..(Len(s) - 1) : t[k] = s[k + 1]

With(s, i, x) == SubSeq(s, 1, i) \o <<x>> \o SubSeq(s, i + 1, Len(s))

Without(s, i) == SubSeq(s, 1, i - 1) \o SubSeq(s, i + 1, Len(s))

LEMMA PutIn ==
    ASSUME NEW X, NEW s \in Seq(X), NEW i \in 0..Len(s), NEW x \in X
    PROVE  Wider(With(s, i, x), s, i, x, X)
<1> DEFINE p == SubSeq(s, 1, i)
           q == SubSeq(s, i + 1, Len(s))
           m == <<x>>
           pm == Both(p, m)
           t == Both(pm, q)
<1>0. Len(s) \in Nat /\ i \in Nat
  OBVIOUS
<1>1. /\ p \in Seq(X) /\ Len(p) = i /\ \A k \in 1..i : p[k] = s[k]
      /\ q \in Seq(X) /\ Len(q) = Len(s) - i /\ \A k \in 1..(Len(s) - i) : q[k] = s[i + k]
  BY Parts
<1>2. m \in Seq(X) /\ Len(m) = 1 /\ m[1] = x
  OBVIOUS
<1> HIDE DEF p, q, m
<1>3. pm \in Seq(X) /\ Len(pm) = i + 1 /\ (\A k \in 1..i : pm[k] = p[k]) /\ pm[i + 1] = x
  <2>1. /\ pm \in Seq(X) /\ Len(pm) = i + 1
        /\ \A k \in 1..i : pm[k] = p[k]
        /\ \A k \in 1..1 : pm[i + k] = m[k]
    <3>1. FollowedBy(pm, p, m, X)
      BY <1>1, <1>2, Joined, Zenon
    <3> HIDE DEF pm
    <3> QED
      BY <1>1, <1>2, <3>1 DEF FollowedBy
  <2> HIDE DEF pm
  <2> QED
    BY <1>2, <2>1
<1> HIDE DEF pm
<1>4. /\ t \in Seq(X) /\ Len(t) = (i + 1) + Len(q)
      /\ \A k \in 1..(i + 1) : t[k] = pm[k]
      /\ \A k \in 1..Len(q) : t[(i + 1) + k] = q[k]
  <2>1. FollowedBy(t, pm, q, X)
    BY <1>1, <1>3, Joined, Zenon
  <2> HIDE DEF t
  <2> QED
    BY <1>3, <2>1 DEF FollowedBy
<1>5. With(s, i, x) = t
  BY DEF With, Both, t, pm, p, q, m
<1> HIDE DEF t
<1>6. ASSUME NEW k \in (i + 1)..Len(s) PROVE t[k + 1] = s[k]
  <2>1. k - i \in 1..Len(q) /\ (i + 1) + (k - i) = k + 1 /\ i + (k - i) = k /\ k - i \in 1..(Len(s) - i)
    BY <1>0, <1>1
  <2>2. t[(i + 1) + (k - i)] = q[k - i] /\ q[k - i] = s[i + (k - i)]
    BY <1>1, <1>4, <2>1
  <2> QED
    BY <2>1, <2>2
<1>7. Len(t) = Len(s) + 1 /\ t[i + 1] = x /\ \A k \in 1..i : t[k] = s[k]
  BY <1>0, <1>1, <1>3, <1>4
<1> QED
  BY <1>4, <1>5, <1>6, <1>7 DEF Wider

LEMMA TakeOut ==
    ASSUME NEW X, NEW s \in Seq(X), NEW i \in 1..Len(s)
    PROVE  Narrower(Without(s, i), s, i, X)
<1> DEFINE p == SubSeq(s, 1, i - 1)
           q == SubSeq(s, i + 1, Len(s))
           t == Both(p, q)
<1>0. Len(s) \in Nat /\ i \in Nat /\ i - 1 \in 0..Len(s) /\ i \in 0..Len(s)
  OBVIOUS
<1>1. /\ p \in Seq(X) /\ Len(p) = i - 1 /\ \A k \in 1..(i - 1) : p[k] = s[k]
      /\ q \in Seq(X) /\ Len(q) = Len(s) - i /\ \A k \in 1..(Len(s) - i) : q[k] = s[i + k]
  BY <1>0, Parts
<1> HIDE DEF p, q
<1>2. /\ t \in Seq(X) /\ Len(t) = (i - 1) + Len(q)
      /\ \A k \in 1..(i - 1) : t[k] = p[k]
      /\ \A k \in 1..Len(q) : t[(i - 1) + k] = q[k]
  <2>1. FollowedBy(t, p, q, X)
    BY <1>1, Joined, Zenon
  <2> HIDE DEF t
  <2> QED
    BY <1>1, <2>1 DEF FollowedBy
<1>3. Without(s, i) = t
  BY DEF Without, Both, t, p, q
<1> HIDE DEF t
<1>4. ASSUME NEW k \in i..(Len(s) - 1) PROVE t[k] = s[k + 1]
  <2>1. k - i + 1 \in 1..Len(q) /\ (i - 1) + (k - i + 1) = k /\ i + (k - i + 1) = k + 1
        /\ k - i + 1 \in 1..(Len(s) - i)
    BY <1>0, <1>1
  <2>2. t[(i - 1) + (k - i + 1)] = q[k - i + 1] /\ q[k - i + 1] = s[i + (k - i + 1)]
    BY <1>1, <1>2, <2>1
  <2> QED
    BY <2>1, <2>2
<1>5. Len(t) = Len(s) - 1 /\ \A k \in 1..(i - 1) : t[k] = s[k]
  BY <1>0, <1>1, <1>2
<1> QED
  BY <1>2, <1>3, <1>4, <1>5 DEF Narrower

LEMMA OneEditCases ==
    ASSUME NEW s, NEW t
    PROVE  t \in OneEdit(s) <=>
             \/ \E i \in 0..Len(s), x \in Letter : t = With(s, i, x)
             \/ \E i \in 1..Len(s) : t = Without(s, i)
             \/ \E i \in 1..Len(s), x \in Letter : t = [s EXCEPT ![i] = x]
<1>1. OneEdit(s) = {With(s, i, x) : i \in 0..Len(s), x \in Letter}
                     \cup {Without(s, i) : i \in 1..Len(s)}
                     \cup {[s EXCEPT ![i] = x] : i \in 1..Len(s), x \in Letter}
  BY DEF OneEdit, With, Without
<1> QED
  BY <1>1

\* OneEdit in the terms of the rows.
OneEditFrom(s, t) ==
    \/ Inserted(s, Len(s), t, Len(t))
    \/ Inserted(t, Len(t), s, Len(s))
    \/ Exchanged(s, Len(s), t, Len(t))

LEMMA OneEditOnly ==
    ASSUME NEW s \in Seq(Letter), NEW t \in OneEdit(s)
    PROVE  t \in Seq(Letter) /\ OneEditFrom(s, t)
<1>0. Len(s) \in Nat
  OBVIOUS
<1>1. ASSUME NEW i \in 0..Len(s), NEW x \in Letter, t = With(s, i, x)
      PROVE  t \in Seq(Letter) /\ Inserted(s, Len(s), t, Len(t))
  <2>0. Wider(t, s, i, x, Letter)
    BY <1>1, PutIn, Zenon
  <2>1. /\ t \in Seq(Letter) /\ Len(t) = Len(s) + 1
        /\ \A k \in 1..i : t[k] = s[k]
        /\ \A k \in (i + 1)..Len(s) : t[k + 1] = s[k]
    BY <2>0 DEF Wider
  <2>2. i + 1 \in 1..Len(t) /\ (\A l \in 1..((i + 1) - 1) : s[l] = t[l]) /\ \A l \in (i + 1)..Len(s) : s[l] = t[l + 1]
    BY <1>0, <2>1
  <2> QED
    BY <2>1, <2>2 DEF Inserted
<1>2. ASSUME NEW i \in 1..Len(s), t = Without(s, i)
      PROVE  t \in Seq(Letter) /\ Inserted(t, Len(t), s, Len(s))
  <2>0. Narrower(t, s, i, Letter)
    BY <1>2, TakeOut, Zenon
  <2>1. /\ t \in Seq(Letter) /\ Len(t) = Len(s) - 1
        /\ \A k \in 1..(i - 1) : t[k] = s[k]
        /\ \A k \in i..(Len(s) - 1) : t[k] = s[k + 1]
    BY <2>0 DEF Narrower
  <2>2. Len(s) = Len(t) + 1 /\ (\A l \in 1..(i - 1) : t[l] = s[l]) /\ \A l \in i..Len(t) : t[l] = s[l + 1]
    BY <1>0, <2>1
  <2> QED
    BY <2>1, <2>2 DEF Inserted
<1>3. ASSUME NEW i \in 1..Len(s), NEW x \in Letter, t = [s EXCEPT ![i] = x]
      PROVE  t \in Seq(Letter) /\ Exchanged(s, Len(s), t, Len(t))
  <2>1. t \in Seq(Letter) /\ Len(t) = Len(s) /\ \A l \in 1..Len(s) : l # i => s[l] = t[l]
    BY <1>3
  <2> QED
    BY <2>1 DEF Exchanged
<1> QED
  BY <1>1, <1>2, <1>3, OneEditCases DEF OneEditFrom

LEMMA OneEditAll ==
    ASSUME NEW s \in Seq(Letter), NEW t \in Seq(Letter), OneEditFrom(s, t)
    PROVE  t \in OneEdit(s)
<1>0. Len(s) \in Nat /\ Len(t) \in Nat /\ \A k \in 1..Len(t) : t[k] \in Letter
  OBVIOUS
<1>1. CASE Inserted(s, Len(s), t, Len(t))
  <2>1. PICK k \in 1..Len(t) : (\A l \in 1..(k - 1) : s[l] = t[l]) /\ (\A l \in k..Len(s) : s[l] = t[l + 1])
    BY <1>1 DEF Inserted
  <2>2. Len(t) = Len(s) + 1
    BY <1>1 DEF Inserted
  <2> DEFINE i == k - 1
             u == With(s, i, t[k])
  <2>3. i \in 0..Len(s) /\ t[k] \in Letter /\ i + 1 = k
    BY <1>0, <2>2
  <2>4. Wider(u, s, i, t[k], Letter)
    BY <2>3, PutIn, Zenon
  <2>5. u \in OneEdit(s)
    BY <2>3, OneEditCases
  <2> HIDE DEF u
  <2>6. ASSUME NEW l \in 1..Len(t) PROVE u[l] = t[l]
    <3>1. CASE l < k
      BY <2>1, <2>3, <2>4, <3>1 DEF Wider
    <3>2. CASE l = k
      BY <2>3, <2>4, <3>2 DEF Wider
    <3>3. CASE l > k
      <4>1. l - 1 \in (i + 1)..Len(s) /\ l - 1 \in k..Len(s) /\ (l - 1) + 1 = l
        BY <1>0, <2>2, <2>3, <3>3
      <4>2. u[(l - 1) + 1] = s[l - 1] /\ s[l - 1] = t[(l - 1) + 1]
        BY <2>1, <2>4, <4>1 DEF Wider
      <4> QED
        BY <4>1, <4>2
    <3> QED
      BY <3>1, <3>2, <3>3
  <2>7. u = t
    BY <1>0, <2>2, <2>4, <2>6, SeqEqual DEF Wider
  <2> QED
    BY <2>5, <2>7
<1>2. CASE Inserted(t, Len(t), s, Len(s))
  <2>1. PICK k \in 1..Len(s) : (\A l \in 1..(k - 1) : t[l] = s[l]) /\ (\A l \in k..Len(t) : t[l] = s[l + 1])
    BY <1>2 DEF Inserted
  <2>2. Len(s) = Len(t) + 1
    BY <1>2 DEF Inserted
  <2> DEFINE u == Without(s, k)
  <2>3. Narrower(u, s, k, Letter)
    BY TakeOut, Zenon
  <2>4. u \in OneEdit(s)
    BY OneEditCases
  <2> HIDE DEF u
  <2>5. Len(u) = Len(t) /\ \A l \in 1..Len(t) : u[l] = t[l]
    BY <1>0, <2>1, <2>2, <2>3 DEF Narrower
  <2>6. u = t
    BY <2>3, <2>5, SeqEqual DEF Narrower
  <2> QED
    BY <2>4, <2>6
<1>3. CASE Exchanged(s, Len(s), t, Len(t))
  <2>1. PICK k \in 1..Len(s) : \A l \in 1..Len(s) : l # k => s[l] = t[l]
    BY <1>3 DEF Exchanged
  <2>2. Len(s) = Len(t)
    BY <1>3 DEF Exchanged
  <2>3. t = [s EXCEPT ![k] = t[k]] /\ t[k] \in Letter
    BY <1>0, <2>1, <2>2
  <2> QED
    BY <2>3, OneEditCases
<1> QED
  BY <1>1, <1>2, <1>3 DEF OneEditFrom

LEMMA OneEditIs ==
    ASSUME NEW s \in Seq(Letter), NEW t \in Seq(Letter)
    PROVE  t \in OneEdit(s) <=> OneEditFrom(s, t)
BY OneEditOnly, OneEditAll

LEMMA AtMostOneIs ==
    ASSUME NEW s \in Seq(Letter), NEW t \in Seq(Letter)
    PROVE  AtMostOne(s, Len(s), t, Len(t)) <=> s = t \/ OneEditFrom(s, t)
<1>1. Same(s, Len(s), t, Len(t)) <=> s = t
  BY DEF Same
<1> QED
  BY <1>1 DEF AtMostOne, OneEditFrom

LEMMA OneEditBack ==
    ASSUME NEW s \in Seq(Letter), NEW t \in Seq(Letter), OneEditFrom(s, t)
    PROVE  OneEditFrom(t, s)
<1>1. Exchanged(s, Len(s), t, Len(t)) => Exchanged(t, Len(t), s, Len(s))
  BY DEF Exchanged
<1> QED
  BY <1>1 DEF OneEditFrom

\* Two labels that are one edit apart are two edits apart as well.
LEMMA OneEditIsTwo ==
    ASSUME NEW s \in Seq(Letter), NEW t \in Seq(Letter), OneEditFrom(s, t)
    PROVE  OneEdit(s) \cap OneEdit(t) # {}
<1>1. ASSUME NEW u \in Seq(Letter), Len(u) > 0 PROVE u \in OneEdit(u)
  <2>1. 1 \in 1..Len(u) /\ Exchanged(u, Len(u), u, Len(u))
    BY <1>1 DEF Exchanged
  <2> QED
    BY <2>1, OneEditIs DEF OneEditFrom
<1>2. t \in OneEdit(s) /\ s \in OneEdit(t)
  BY OneEditIs, OneEditBack
<1>3. Len(s) > 0 \/ Len(t) > 0
  <2>1. Len(s) \in Nat /\ Len(t) \in Nat
    OBVIOUS
  <2> QED
    BY <2>1 DEF OneEditFrom, Inserted, Exchanged
<1> QED
  BY <1>1, <1>2, <1>3

LEMMA WithinIsAtMost ==
    ASSUME NEW c \in Seq(Letter), NEW b \in Seq(Letter), c # b, NEW n \in {1, 2}
    PROVE  WithinEdits(c, b, n) <=> AtMost(n, c, Len(c), b, Len(b))
<1>0. Len(c) \in Nat /\ Len(b) \in Nat
  OBVIOUS
<1>1. CASE n = 1
  <2>1. WithinEdits(c, b, n) <=> b \in OneEdit(c)
    BY <1>1 DEF WithinEdits
  <2>2. AtMost(n, c, Len(c), b, Len(b)) <=> AtMostOne(c, Len(c), b, Len(b))
    BY <1>1 DEF AtMost
  <2> QED
    BY <2>1, <2>2, OneEditIs, AtMostOneIs
<1>2. CASE n = 2
  <2>1. WithinEdits(c, b, n) <=> OneEdit(c) \cap OneEdit(b) # {}
    BY <1>2 DEF WithinEdits
  <2>2. AtMost(n, c, Len(c), b, Len(b)) <=> AtMostTwo(c, Len(c), b, Len(b))
    BY <1>2 DEF AtMost
  <2>3. ASSUME NEW u \in OneEdit(c), u \in OneEdit(b) PROVE AtMostTwo(c, Len(c), b, Len(b))
    <3>1. u \in Seq(Letter) /\ OneEditFrom(c, u) /\ OneEditFrom(b, u)
      BY <2>3, OneEditOnly
    <3>2. AtMostOne(c, Len(c), u, Len(u)) /\ AtMostOne(u, Len(u), b, Len(b))
      BY <3>1, AtMostOneIs, OneEditBack
    <3>3. Len(u) \in Nat /\ u \in [1..Len(u) -> Letter] /\ Len(u) \in 0..Len(u)
      BY <3>1
    <3> QED
      BY <3>2, <3>3 DEF AtMostTwo
  <2>4. ASSUME AtMostTwo(c, Len(c), b, Len(b)) PROVE OneEdit(c) \cap OneEdit(b) # {}
    <3>1. PICK k \in Nat : \E u \in [1..k -> Letter], m \in 0..k :
                             AtMostOne(c, Len(c), u, m) /\ AtMostOne(u, m, b, Len(b))
      BY <2>4 DEF AtMostTwo
    <3>2. PICK u \in [1..k -> Letter], m \in 0..k : AtMostOne(c, Len(c), u, m) /\ AtMostOne(u, m, b, Len(b))
      BY <3>1
    <3> DEFINE v == [l \in 1..m |-> u[l]]
    <3>3. v \in Seq(Letter) /\ Len(v) = m /\ m \in Nat /\ Same(v, m, u, m)
      BY DEF Same
    <3> HIDE DEF v
    <3>4. AtMostOne(v, m, b, Len(b))
      BY <1>0, <3>2, <3>3, SameIsAtMostOne
    <3>5. AtMostOne(v, m, c, Len(c))
      <4>1. AtMostOne(u, m, c, Len(c))
        BY <1>0, <3>2, <3>3, OneSymmetric
      <4> QED
        BY <1>0, <3>3, <4>1, SameIsAtMostOne
    <3>6. (v = c \/ OneEditFrom(v, c)) /\ (v = b \/ OneEditFrom(v, b))
      BY <3>3, <3>4, <3>5, AtMostOneIs
    <3>7. CASE v = c \/ v = b
      <4>1. OneEditFrom(c, b)
        BY <3>3, <3>6, <3>7, OneEditBack
      <4> QED
        BY <4>1, OneEditIsTwo
    <3>8. CASE OneEditFrom(v, c) /\ OneEditFrom(v, b)
      <4>1. v \in OneEdit(c) /\ v \in OneEdit(b)
        BY <3>3, <3>8, OneEditBack, OneEditIs
      <4> QED
        BY <4>1
    <3> QED
      BY <3>6, <3>7, <3>8
  <2> QED
    BY <2>1, <2>2, <2>3, <2>4
<1> QED
  BY <1>1, <1>2

\* The detector's search is for the brands within the edits.
LEMMA NearIsWithin ==
    ASSUME NEW c \in Seq(Letter), NEW b \in Seq(Letter), c # b
    PROVE  Near(c, b) <=> WithinEdits(c, b, MaxDistance(b))
<1>1. MaxDistance(b) \in {1, 2}
  BY DEF MaxDistance
<1>2. Near(c, b) <=> AtMost(MaxDistance(b), c, Len(c), b, Len(b))
  BY <1>1, LevenshteinIsEdits DEF Near
<1> QED
  BY <1>1, <1>2, WithinIsAtMost

-----------------------------------------------------------------------------
(* Words                                                                   *)

\* b stands in c after the k-th letter: as a part of c, and as what is between two parts.
LEMMA WordAt ==
    ASSUME NEW c \in Seq(Letter), NEW b \in Seq(Letter), NEW k \in 0..(Len(c) - Len(b))
    PROVE  SubSeq(c, k + 1, k + Len(b)) = b
             <=> c = SubSeq(c, 1, k) \o b \o SubSeq(c, k + Len(b) + 1, Len(c))
<1> DEFINE n == Len(c)
           m == Len(b)
           w == SubSeq(c, k + 1, k + m)
           p == SubSeq(c, 1, k)
           e == k + m
           q == SubSeq(c, e + 1, n)
           pb == Both(p, b)
           t == Both(pb, q)
<1>0. n \in Nat /\ m \in Nat /\ k \in 0..n /\ e \in 0..n /\ \A l \in 1..n : c[l] \in Letter
  OBVIOUS
<1>1. w \in Seq(Letter) /\ Len(w) = m /\ \A l \in 1..m : w[l] = c[k + l]
  OBVIOUS
<1>2. p \in Seq(Letter) /\ Len(p) = k /\ \A l \in 1..k : p[l] = c[l]
  BY <1>0, Parts
<1>3. q \in Seq(Letter) /\ Len(q) = n - e /\ \A l \in 1..(n - e) : q[l] = c[e + l]
  BY <1>0, Parts
<1>4. t = SubSeq(c, 1, k) \o b \o SubSeq(c, k + Len(b) + 1, Len(c))
  BY DEF Both
<1> HIDE DEF w, p, q
<1>5. FollowedBy(pb, p, b, Letter)
  BY <1>2, Joined, Zenon
<1> HIDE DEF pb
<1>6. FollowedBy(t, pb, q, Letter)
  <2>1. pb \in Seq(Letter)
    BY <1>5 DEF FollowedBy
  <2> QED
    BY <1>3, <2>1, Joined, Zenon
<1> HIDE DEF t
<1>7. pb \in Seq(Letter) /\ Len(pb) = e /\ (\A l \in 1..k : pb[l] = c[l]) /\ \A l \in 1..m : pb[k + l] = b[l]
  BY <1>2, <1>5 DEF FollowedBy
<1>8. /\ t \in Seq(Letter) /\ Len(t) = n
      /\ \A l \in 1..e : t[l] = pb[l]
      /\ \A l \in 1..(n - e) : t[e + l] = c[e + l]
  <2>1. /\ t \in Seq(Letter) /\ Len(t) = e + Len(q)
        /\ \A l \in 1..e : t[l] = pb[l]
        /\ \A l \in 1..Len(q) : t[e + l] = q[l]
    BY <1>6, <1>7 DEF FollowedBy
  <2> HIDE DEF e, n
  <2>2. e + (n - e) = n
    BY <1>0 DEF e, n
  <2> QED
    BY <1>3, <2>1, <2>2
<1>9. ASSUME w = b PROVE c = t
  <2>1. ASSUME NEW l \in 1..n PROVE c[l] = t[l]
    <3>1. CASE l \in 1..k
      BY <1>0, <1>7, <1>8, <3>1
    <3>2. CASE l \in (k + 1)..e
      <4>1. l - k \in 1..m /\ k + (l - k) = l /\ l \in 1..e
        BY <1>0, <3>2
      <4>2. w[l - k] = c[k + (l - k)] /\ pb[k + (l - k)] = b[l - k]
        BY <1>1, <1>7, <4>1
      <4> QED
        BY <1>8, <1>9, <4>1, <4>2
    <3>3. CASE l \in (e + 1)..n
      <4>1. l - e \in 1..(n - e) /\ e + (l - e) = l
        BY <1>0, <3>3
      <4> QED
        BY <1>8, <4>1
    <3> QED
      BY <1>0, <3>1, <3>2, <3>3
  <2> QED
    BY <1>0, <1>8, <2>1, SeqEqual
<1>10. ASSUME c = t PROVE w = b
  <2>1. ASSUME NEW l \in 1..m PROVE w[l] = b[l]
    <3>1. k + l \in 1..e
      BY <1>0
    <3> QED
      BY <1>1, <1>7, <1>8, <1>10, <3>1
  <2> QED
    BY <1>0, <1>1, <2>1, SeqEqual
<1> QED
  BY <1>4, <1>9, <1>10 DEF w

Separator(x) == x \in {"-", "_"}

\* The k-th letter of c is a separator, or there is none.
StartsWord(c, k) == k = 0 \/ Separator(c[k])

EndsWord(c, k) == k = Len(c) \/ Separator(c[k + 1])

LEMMA NoLetters ==
    ASSUME NEW s \in Seq(Letter)
    PROVE  s = <<>> <=> Len(s) = 0
BY EmptySeq

LEMMA StartIs ==
    ASSUME NEW c \in Seq(Letter), NEW k \in 0..Len(c), NEW p, p = SubSeq(c, 1, k)
    PROVE  p = <<>> \/ Separator(Last(p)) <=> StartsWord(c, k)
<1>1. p \in Seq(Letter) /\ Len(p) = k /\ \A l \in 1..k : p[l] = c[l]
  BY Parts
<1>2. k \in Nat /\ (p = <<>> <=> k = 0)
  BY <1>1, NoLetters
<1>3. k # 0 => k \in 1..k
  BY <1>2
<1>4. k # 0 => Last(p) = c[k]
  BY <1>1, <1>3 DEF Last
<1> QED
  BY <1>2, <1>4 DEF StartsWord

LEMMA EndIs ==
    ASSUME NEW c \in Seq(Letter), NEW k \in 0..Len(c), NEW q, q = SubSeq(c, k + 1, Len(c))
    PROVE  q = <<>> \/ Separator(Head(q)) <=> EndsWord(c, k)
<1>1. q \in Seq(Letter) /\ Len(q) = Len(c) - k /\ \A l \in 1..(Len(c) - k) : q[l] = c[k + l]
  BY Parts
<1>2. k \in Nat /\ Len(c) \in Nat
  OBVIOUS
<1>3. q = <<>> <=> Len(q) = 0
  BY <1>1, NoLetters, Zenon
<1>4. Len(q) = 0 <=> k = Len(c)
  BY <1>1, <1>2
<1>5. k # Len(c) => Head(q) = c[k + 1]
  <2> SUFFICES ASSUME k # Len(c) PROVE Head(q) = c[k + 1]
    OBVIOUS
  <2>1. 1 \in 1..(Len(c) - k)
    BY <1>2
  <2>2. q[1] = c[k + 1]
    BY <1>1, <2>1
  <2>3. q # <<>>
    BY <1>3, <1>4
  <2>4. ASSUME NEW s \in Seq(Letter), s # <<>> PROVE Head(s) = s[1]
    BY <2>4
  <2> QED
    BY <1>1, <2>2, <2>3, <2>4, Zenon
<1> QED
  BY <1>3, <1>4, <1>5 DEF EndsWord

\* The brand b stands in c as a word, after the k-th letter.
WordAfter(c, b, k) ==
    SubSeq(c, k + 1, k + Len(b)) = b /\ StartsWord(c, k) /\ EndsWord(c, k + Len(b))

LEMMA BoundaryIs ==
    ASSUME NEW c, NEW b
    PROVE  ContainsAtBoundary(c, b) <=>
             /\ c # b
             /\ \E i \in Occurrences(c, b) :
                  /\ i = 1 \/ Separator(c[i - 1])
                  /\ i + Len(b) - 1 = Len(c) \/ Separator(c[i + Len(b)])
BY Zenon DEF ContainsAtBoundary, Separator

LEMMA WordIs ==
    ASSUME NEW c, NEW b
    PROVE  IsWordOf(b, c) <=>
             \E k \in 0..(Len(c) - Len(b)) :
                  /\ c = SubSeq(c, 1, k) \o b \o SubSeq(c, k + Len(b) + 1, Len(c))
                  /\ SubSeq(c, 1, k) = <<>> \/ Separator(Last(SubSeq(c, 1, k)))
                  /\ \/ SubSeq(c, k + Len(b) + 1, Len(c)) = <<>>
                     \/ Separator(Head(SubSeq(c, k + Len(b) + 1, Len(c))))
BY Zenon DEF IsWordOf, Separator

LEMMA ContainsIs ==
    ASSUME NEW c \in Seq(Letter), NEW b \in Seq(Letter), c # b
    PROVE  ContainsAtBoundary(c, b) <=> \E k \in 0..(Len(c) - Len(b)) : WordAfter(c, b, k)
<1>0. Len(c) \in Nat /\ Len(b) \in Nat
  OBVIOUS
<1>1. ASSUME ContainsAtBoundary(c, b) PROVE \E k \in 0..(Len(c) - Len(b)) : WordAfter(c, b, k)
  <2>1. PICK i \in Occurrences(c, b) : /\ i = 1 \/ Separator(c[i - 1])
                                       /\ i + Len(b) - 1 = Len(c) \/ Separator(c[i + Len(b)])
    BY <1>1, BoundaryIs
  <2>2. i \in 1..(Len(c) - Len(b) + 1) /\ SubSeq(c, i, i + Len(b) - 1) = b
    BY DEF Occurrences
  <2>3. PICK k \in 0..(Len(c) - Len(b)) : k = i - 1
    BY <1>0, <2>2
  <2>4. /\ i = k + 1 /\ i + Len(b) - 1 = k + Len(b) /\ i - 1 = k /\ i + Len(b) = k + Len(b) + 1
        /\ i = 1 <=> k = 0
    BY <1>0, <2>2, <2>3
  <2>5. SubSeq(c, k + 1, k + Len(b)) = b
    BY <2>2, <2>4
  <2>6. StartsWord(c, k) /\ EndsWord(c, k + Len(b))
    BY <2>1, <2>4 DEF StartsWord, EndsWord
  <2> QED
    BY <2>5, <2>6 DEF WordAfter
<1>2. ASSUME NEW k \in 0..(Len(c) - Len(b)), WordAfter(c, b, k) PROVE ContainsAtBoundary(c, b)
  <2>1. SubSeq(c, k + 1, k + Len(b)) = b /\ StartsWord(c, k) /\ EndsWord(c, k + Len(b))
    BY <1>2 DEF WordAfter
  <2>2. PICK i \in 1..(Len(c) - Len(b) + 1) : i = k + 1
    BY <1>0
  <2>3. /\ i + Len(b) - 1 = k + Len(b) /\ i - 1 = k /\ i + Len(b) = k + Len(b) + 1
        /\ i = 1 <=> k = 0
    BY <1>0, <2>2
  <2>4. SubSeq(c, i, i + Len(b) - 1) = b
    BY <2>1, <2>2, <2>3
  <2>5. i \in Occurrences(c, b)
    BY <2>4 DEF Occurrences
  <2>6. i = 1 \/ Separator(c[i - 1])
    BY <2>1, <2>3 DEF StartsWord
  <2>7. i + Len(b) - 1 = Len(c) \/ Separator(c[i + Len(b)])
    BY <2>1, <2>3 DEF EndsWord
  <2> QED
    BY <2>5, <2>6, <2>7, BoundaryIs
<1> QED
  BY <1>1, <1>2

\* The search for a word finds exactly the words.
LEMMA WordsAreFound ==
    ASSUME NEW c \in Seq(Letter), NEW b \in Seq(Letter), c # b
    PROVE  ContainsAtBoundary(c, b) <=> IsWordOf(b, c)
<1> DEFINE before(k) == SubSeq(c, 1, k)
           after(k) == SubSeq(c, k + Len(b) + 1, Len(c))
           Split(k) == /\ c = before(k) \o b \o after(k)
                       /\ before(k) = <<>> \/ Separator(Last(before(k)))
                       /\ after(k) = <<>> \/ Separator(Head(after(k)))
<1>1. IsWordOf(b, c) <=> \E k \in 0..(Len(c) - Len(b)) : Split(k)
  BY WordIs
<1>2. ASSUME NEW k \in 0..(Len(c) - Len(b)) PROVE Split(k) <=> WordAfter(c, b, k)
  <2>0. Len(b) \in Nat /\ Len(c) \in Nat /\ k \in 0..Len(c) /\ k + Len(b) \in 0..Len(c)
    OBVIOUS
  <2>1. c = before(k) \o b \o after(k) <=> SubSeq(c, k + 1, k + Len(b)) = b
    BY WordAt
  <2>2. before(k) = SubSeq(c, 1, k) /\ after(k) = SubSeq(c, (k + Len(b)) + 1, Len(c))
    OBVIOUS
  <2> HIDE DEF before, after
  <2>3. before(k) = <<>> \/ Separator(Last(before(k))) <=> StartsWord(c, k)
    BY <2>0, <2>2, StartIs
  <2>4. after(k) = <<>> \/ Separator(Head(after(k))) <=> EndsWord(c, k + Len(b))
    BY <2>0, <2>2, EndIs
  <2> QED
    BY <2>1, <2>3, <2>4 DEF WordAfter
<1> HIDE DEF Split
<1> QED
  BY <1>1, <1>2, ContainsIs

-----------------------------------------------------------------------------
(* The theorem                                                             *)

LEMMA ReplaceStays ==
    ASSUME NEW s \in Seq(Letter), NEW pair, NEW by, pair \in Seq(Letter) => by \in Letter
    PROVE  ReplacePair(s, pair, by) \in Seq(Letter)
<1> DEFINE n == Len(s) + 1
           r == Rest(s, pair, by)
           S == {i \in 1..n : r[i] \in Seq(Letter)}
<1>0. Len(s) \in Nat /\ n \in Nat /\ \A i \in 1..Len(s) : s[i] \in Letter
  OBVIOUS
<1>1. \A i \in 1..n : r[i] = RestStep(s, pair, by, r, i)
  BY RestExists
<1> HIDE DEF r
<1>2. ASSUME NEW i \in 1..n, \A j \in (i + 1)..n : j \in S PROVE i \in S
  <2>1. CASE i > Len(s)
    <3>1. r[i] = <<>>
      BY <1>1, <2>1 DEF RestStep
    <3>2. <<>> \in Seq(Letter)
      OBVIOUS
    <3>3. r[i] \in Seq(Letter)
      BY <3>1, <3>2, Zenon
    <3> QED
      BY <3>3
  <2>2. CASE i < Len(s) /\ SubSeq(s, i, i + 1) = pair
    <3>1. SubSeq(s, i, i + 1) \in Seq(Letter)
      <4>1. i \in Int /\ i + 1 \in Int /\ \A k \in i..(i + 1) : s[k] \in Letter
        BY <1>0, <2>2
      <4> QED
        BY <4>1, SubSeqProperties
    <3>2. by \in Letter
      BY <2>2, <3>1
    <3>3. i + 2 \in (i + 1)..n
      BY <1>0, <2>2
    <3>4. r[i] = <<by>> \o r[i + 2]
      <4>1. ~(i > Len(s))
        BY <1>0, <2>2
      <4> QED
        BY <1>1, <2>2, <4>1 DEF RestStep
    <3>5. r[i + 2] \in Seq(Letter)
      BY <1>2, <3>3
    <3>6. <<by>> \o r[i + 2] \in Seq(Letter)
      BY <3>2, <3>5
    <3> QED
      BY <3>4, <3>6
  <2>3. CASE i <= Len(s) /\ ~(i < Len(s) /\ SubSeq(s, i, i + 1) = pair)
    <3>1. i + 1 \in (i + 1)..n /\ s[i] \in Letter /\ ~(i > Len(s))
      BY <1>0, <2>3
    <3>2. r[i] = <<s[i]>> \o r[i + 1]
      BY <1>1, <2>3, <3>1 DEF RestStep
    <3>3. r[i + 1] \in Seq(Letter)
      BY <1>2, <3>1
    <3>4. <<s[i]>> \o r[i + 1] \in Seq(Letter)
      BY <3>1, <3>3
    <3> QED
      BY <3>2, <3>4
  <2> QED
    BY <1>0, <2>1, <2>2, <2>3
<1>3. 1..n \subseteq S
  <2> HIDE DEF S, n
  <2> QED
    BY <1>0, <1>2, Downwards
<1>4. 1 \in 1..n
  BY <1>0
<1>5. r[1] \in Seq(Letter)
  BY <1>3, <1>4
<1> QED
  BY <1>5, ReplaceIsRest DEF r

LEMMA NormalizeStays ==
    ASSUME NEW s \in Seq(Letter)
    PROVE  Normalize(s) \in Seq(Letter)
<1>1. ASSUME NEW i \in 1..3, NEW t \in Seq(Letter) PROVE Replaced(t, MultiHomoglyphs[i]) \in Seq(Letter)
  <2> DEFINE h == MultiHomoglyphs[i]
  <2>1. i \in DOMAIN MultiHomoglyphs
    BY DEF MultiHomoglyphs
  <2>2. h.pair \in Seq(Letter) => h.by \in Letter
    BY <2>1, GlyphAssumption
  <2> HIDE DEF h
  <2>3. ReplacePair(t, h.pair, h.by) \in Seq(Letter)
    BY <2>2, ReplaceStays
  <2> QED
    BY <2>3 DEF Replaced, h
<1>2. PICK t \in Seq(Letter) :
        t = Replaced(Replaced(Replaced(s, MultiHomoglyphs[1]), MultiHomoglyphs[2]), MultiHomoglyphs[3])
  <2>1. Replaced(s, MultiHomoglyphs[1]) \in Seq(Letter)
    BY <1>1
  <2>2. Replaced(Replaced(s, MultiHomoglyphs[1]), MultiHomoglyphs[2]) \in Seq(Letter)
    BY <1>1, <2>1
  <2> QED
    BY <1>1, <2>2
<1>3. EachGlyph(t) \in Seq(Letter)
  <2>1. Len(t) \in Nat /\ DOMAIN t = 1..Len(t) /\ \A i \in 1..Len(t) : t[i] \in Letter
    OBVIOUS
  <2>2. \A i \in 1..Len(t) : Glyph(t[i]) \in Letter
    BY <2>1, GlyphAssumption
  <2> QED
    BY <2>1, <2>2 DEF EachGlyph
<1> QED
  BY <1>2, <1>3 DEF Normalize

\* One brand and one of the two candidates: what check compares is what resembles.
LEMMA CandidateResembles ==
    ASSUME NEW c \in Seq(Letter), NEW b \in Seq(Letter), c # b
    PROVE  Near(c, b) \/ (Len(b) >= TokenLabel /\ ContainsAtBoundary(c, b)) <=> Alike(c, b)
BY NearIsWithin, WordsAreFound DEF Alike

\* A hit resembles a brand; every lookalike of a brand that is its own normal form is a
\* hit, and every one that is alike as it is spelled: for every table of brands, every
\* alphabet and all names.
THEOREM HitsAreLookalikes ==
    TyposquatSpec => []HitsResemble
<1>1. AnswerIsCheck /\ TyposquatTypeOK => HitsResemble
  <2> SUFFICES ASSUME AnswerIsCheck, TyposquatTypeOK PROVE HitsResemble
    OBVIOUS
  <2> DEFINE name == answer.name
             normal == Normalize(name)
             Compared(c, b) == Near(c, b) \/ (Len(b) >= TokenLabel /\ ContainsAtBoundary(c, b))
  <2>1. labels \subseteq Seq(Letter) /\ (answer.hit <=> Check(name, labels))
    BY DEF AnswerIsCheck
  <2>2. Check(name, labels) <=>
          /\ Suspect
          /\ \/ normal # name /\ normal \in labels
             \/ \E b \in labels : \E c \in {name, normal} : Compared(c, b)
    BY Zenon DEF Check, Suspect
  <2>3. name \in Seq(Letter)
    <3>1. name \in Name \cup {<<>>}
      BY DEF TyposquatTypeOK
    <3>2. <<>> \in Seq(Letter)
      OBVIOUS
    <3> QED
      BY <3>1, <3>2, TyposquatAssumption
  <2>4. normal \in Seq(Letter)
    BY <2>3, NormalizeStays
  <2>5. ASSUME NEW b \in labels, NEW c \in {name, normal}, c # b PROVE Compared(c, b) <=> Alike(c, b)
    <3>1. b \in Seq(Letter) /\ c \in Seq(Letter)
      BY <2>1, <2>3, <2>4
    <3> QED
      BY <2>5, <3>1, CandidateResembles
  <2>6. ASSUME NEW b PROVE Alike(b, b)
    BY DEF Alike
  <2>7. Readings(name) = {name, normal} /\ \A b : b \in Readings(b)
    BY DEF Readings
  <2> HIDE DEF name, normal, Compared
  \* What the detector compares: either reading of the name with the brand as it is.
  <2>8. answer.hit <=> Suspect /\ \E b \in labels : \E c \in {name, normal} : Alike(c, b)
    <3>1. Suspect => name \notin labels
      BY DEF Suspect, name
    <3> QED
      BY <2>1, <2>2, <2>5, <2>6, <3>1
  <2>9. answer.hit => Suspect /\ \E b \in labels : Resembles(name, b)
    BY <2>7, <2>8 DEF Resembles
  <2>10. ASSUME NEW b \in labels, Suspect, Resembles(name, b), Normalize(b) = b \/ Alike(name, b)
         PROVE  answer.hit
    <3>1. CASE Alike(name, b)
      BY <2>8, <2>10, <3>1
    <3>2. CASE Normalize(b) = b
      <4>1. Readings(b) = {b}
        BY <3>2 DEF Readings
      <4>2. \E c \in {name, normal} : Alike(c, b)
        BY <2>7, <2>10, <4>1 DEF Resembles
      <4> QED
        BY <2>8, <2>10, <4>2
    <3> QED
      BY <2>10, <3>1, <3>2
  <2> QED
    BY <2>9, <2>10 DEF HitsResemble, name
<1> QED
  BY <1>1, AnswerIsCheckAlways, TyposquatType, PTL
=============================================================================

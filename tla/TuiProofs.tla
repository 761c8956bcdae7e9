----------------------------- MODULE TuiProofs -----------------------------
(***************************************************************************)
(* Proofs about Tui, for any keys, filter, number of changes and queue.    *)
(*                                                                         *)
(* The tree.  build_rows goes through the sorted keys and adds the rows    *)
(* that the way to a key does not share with the way to the key before it. *)
(* TreeOf says what stands after the first i keys and is shown, key by     *)
(* key, to hold for all (RowsTree): a row may follow another only if its   *)
(* folder is that row or one around it (Preorder), from which it follows   *)
(* that what is in a folder stands together.  No library theorem about     *)
(* induction can be used here, so that induction is done by looking at the *)
(* first number that is missing from a set (Induction), which is also how  *)
(* FlattenSeq is unfolded (Flatten).                                       *)
(*                                                                         *)
(* The handlers.  What a handler is about was read from the selected row   *)
(* before its first call, and no other handler runs before its last one,   *)
(* so the row is the same when an answer comes (AtRow, InMode).  An add    *)
(* saves only right after a list without its key, which was answered and   *)
(* so found nothing queued; only others can have added the key since       *)
(* (Saving, Queued).  The rows a delete goes to were read from the rows    *)
(* that still stand when the list comes (Lands), where they are the        *)
(* neighbours in the tree (Neighbours).                                    *)
(***************************************************************************)
EXTENDS Tui, SequenceTheorems, WellFoundedInduction, TLAPS


-----------------------------------------------------------------------------
(* The rows.                                                               *)

LEMMA HasMinimum ==
    ASSUME NEW S \in SUBSET Nat, S # {}
    PROVE  Min(S) \in S /\ \A x \in S : Min(S) =< x
<1> DEFINE R == OpToRel(<, Nat)
<1>1. \E x \in S : \A y \in S : ~(<<y, x>> \in R)
    BY NatLessThanWellFounded, WFMin
<1>2. ASSUME NEW x \in S, NEW y \in S, ~(<<y, x>> \in R) PROVE x =< y
    BY <1>2 DEF OpToRel
<1>3. \E x \in S : \A y \in S : x =< y
    BY <1>1, <1>2
<1> QED BY <1>3 DEF Min

LEMMA HasMaximum ==
    ASSUME NEW n \in Nat, NEW S \in SUBSET (0..n), S # {}
    PROVE  Max(S) \in S /\ \A x \in S : x =< Max(S)
<1> DEFINE D == {n - x : x \in S}
<1>1. D \subseteq Nat /\ D # {}
    <2>1. \A x \in S : n - x \in Nat
        OBVIOUS
    <2> QED BY <2>1
<1>2. PICK d \in D : \A x \in D : d =< x
    BY <1>1, HasMinimum
<1>3. PICK m \in S : d = n - m
    OBVIOUS
<1>4. \A x \in S : m >= x
    BY <1>2, <1>3
<1> QED BY <1>3, <1>4 DEF Max

\* What holds at 0 and is passed on holds up to n.
LEMMA Induction ==
    ASSUME NEW n \in Nat, NEW S, 0 \in S,
           \A i \in 0..(n - 1) : i \in S => i + 1 \in S
    PROVE  0..n \subseteq S
<1> DEFINE B == (0..n) \ S
<1> SUFFICES ASSUME B # {} PROVE FALSE
    OBVIOUS
<1>1. Min(B) \in B /\ \A x \in B : Min(B) =< x
    BY HasMinimum
<1>2. Min(B) - 1 \in 0..(n - 1) /\ Min(B) - 1 \notin B
    BY <1>1
<1> QED BY <1>1, <1>2

\* FlattenSeq joins its elements one after the other.
LEMMA Flatten ==
    ASSUME NEW T, NEW n \in Nat, NEW s \in [1..n -> Seq(T)]
    PROVE  \E g \in [0..n -> Seq(T)] :
              /\ g[0] = <<>>
              /\ \A i \in 1..n : g[i] = g[i - 1] \o s[i]
              /\ FlattenSeq(s) = g[n]
<1> DEFINE J(h, i) == IF i = 1 THEN s[i] ELSE h[i - 1] \o s[i]
           P(h) == h = [i \in 1..n |-> J(h, i)]
           flatten == CHOOSE h : P(h)
           Joins(f, k) == \A i \in 1..k : f[i] = J(f, i)
           K == {k \in 0..n : \E f \in [1..k -> Seq(T)] : Joins(f, k)}
<1>1. Len(s) = n
    OBVIOUS
<1>2. n = 0 => FlattenSeq(s) = <<>>
    BY <1>1 DEF FlattenSeq
<1>3. n > 0 => FlattenSeq(s) = flatten[n]
    BY <1>1 DEF FlattenSeq
<1> HIDE DEF flatten, P
<1>4. \A h : J(h, 1) = s[1]
    OBVIOUS
<1>5. \A h : \A i \in 2..n : J(h, i) = h[i - 1] \o s[i]
    <2> SUFFICES ASSUME NEW h, NEW i \in 2..n PROVE J(h, i) = h[i - 1] \o s[i]
        OBVIOUS
    <2>1. i # 1
        OBVIOUS
    <2> QED BY <2>1
<1>6. \A h : \A i \in 1..n : h[i - 1] \in Seq(T) \/ i = 1 => J(h, i) \in Seq(T)
    <2> SUFFICES ASSUME NEW h, NEW i \in 1..n, h[i - 1] \in Seq(T) \/ i = 1
                 PROVE  J(h, i) \in Seq(T)
        OBVIOUS
    <2>1. s[i] \in Seq(T)
        OBVIOUS
    <2>2. CASE i = 1
        BY <2>1, <2>2
    <2>3. CASE i # 1
        <3>1. h[i - 1] \in Seq(T)
            BY <2>3
        <3>2. h[i - 1] \o s[i] \in Seq(T)
            BY <3>1, <2>1, ConcatProperties
        <3> QED BY <3>2, <2>3
    <2> QED BY <2>2, <2>3
<1>7. \A g, h : \A i \in 1..n : g[i - 1] = h[i - 1] \/ i = 1 => J(g, i) = J(h, i)
    <2> SUFFICES ASSUME NEW g, NEW h, NEW i \in 1..n, g[i - 1] = h[i - 1] \/ i = 1
                 PROVE  J(g, i) = J(h, i)
        OBVIOUS
    <2>1. CASE i = 1
        BY <2>1
    <2>2. CASE i # 1
        BY <2>2
    <2> QED BY <2>1, <2>2
<1> HIDE DEF J
<1>8. 0 \in K
    <2> SUFFICES ASSUME NEW z \in 0..n, z = 0 PROVE z \in K
        OBVIOUS
    <2>1. <<>> \in [1..z -> Seq(T)] /\ Joins(<<>>, z)
        OBVIOUS
    <2> HIDE DEF Joins
    <2>2. \E f \in [1..z -> Seq(T)] : Joins(f, z)
        BY <2>1
    <2> QED BY <2>2
<1>9. ASSUME NEW k \in 0..(n - 1), k \in K PROVE k + 1 \in K
    <2>1. PICK f \in [1..k -> Seq(T)] : Joins(f, k)
        BY <1>9
    <2> DEFINE h == [i \in 1..(k + 1) |-> IF i <= k THEN f[i] ELSE J(f, i)]
    <2>2. \A i \in 1..k : h[i] = f[i]
        OBVIOUS
    <2>3. h[k + 1] = J(f, k + 1)
        OBVIOUS
    <2>4. J(f, k + 1) \in Seq(T)
        <3>1. CASE k = 0
            BY <3>1, <1>6
        <3>2. CASE k # 0
            <4>1. f[(k + 1) - 1] \in Seq(T) /\ k + 1 \in 1..n
                BY <3>2
            <4> QED BY <4>1, <1>6
        <3> QED BY <3>1, <3>2
    <2>5. h \in [1..(k + 1) -> Seq(T)]
        BY <2>4
    <2> HIDE DEF h
    <2>6. ASSUME NEW i \in 1..(k + 1) PROVE h[i] = J(h, i)
        <3>1. J(f, i) = J(h, i)
            <4>1. i \in 1..n /\ (f[i - 1] = h[i - 1] \/ i = 1)
                BY <2>2
            <4> QED BY <4>1, <1>7
        <3>2. CASE i <= k
            BY <3>1, <3>2, <2>1, <2>2
        <3>3. CASE i = k + 1
            BY <3>1, <3>3, <2>3
        <3> QED BY <3>2, <3>3
    <2>7. Joins(h, k + 1)
        BY <2>6
    <2> HIDE DEF Joins
    <2>8. \E e \in [1..(k + 1) -> Seq(T)] : Joins(e, k + 1)
        BY <2>5, <2>7
    <2> QED BY <2>8
<1>10. PICK f \in [1..n -> Seq(T)] : \A i \in 1..n : f[i] = J(f, i)
    <2>1. \A k \in 0..(n - 1) : k \in K => k + 1 \in K
        BY <1>9
    <2> HIDE DEF K
    <2>2. 0..n \subseteq K
        BY <1>8, <2>1, Induction
    <2> QED BY <2>2 DEF K
<1>11. \A i \in 1..n : flatten[i] = J(flatten, i)
    <2>1. P(f)
        BY <1>10 DEF P
    <2>2. P(flatten)
        BY <2>1 DEF flatten
    <2> QED BY <2>2 DEF P
<1> DEFINE Same == {k \in 0..n : k = 0 \/ flatten[k] = f[k]}
<1>12. ASSUME NEW k \in 0..(n - 1), k \in Same PROVE k + 1 \in Same
    <2>1. k + 1 \in 1..n /\ (flatten[(k + 1) - 1] = f[(k + 1) - 1] \/ k + 1 = 1)
        BY <1>12
    <2>2. J(flatten, k + 1) = J(f, k + 1)
        BY <2>1, <1>7
    <2> QED BY <2>1, <2>2, <1>10, <1>11
<1>13. n > 0 => flatten[n] = f[n]
    <2>1. 0 \in Same /\ \A k \in 0..(n - 1) : k \in Same => k + 1 \in Same
        BY <1>12
    <2> HIDE DEF Same
    <2>2. 0..n \subseteq Same
        BY <2>1, Induction
    <2> QED BY <2>2 DEF Same
<1> DEFINE g == [i \in 0..n |-> IF i = 0 THEN <<>> ELSE f[i]]
<1>14. g \in [0..n -> Seq(T)]
    BY EmptySeq
<1>15. ASSUME NEW i \in 1..n PROVE g[i] = g[i - 1] \o s[i]
    <2>1. g[i] = f[i] /\ f[i] = J(f, i)
        BY <1>10
    <2>2. CASE i = 1
        <3>1. s[1] \in Seq(T) /\ g[0] = <<>> /\ g[1] = s[1]
            BY <2>1, <2>2, <1>4
        <3> QED BY <2>2, <3>1, ConcatEmptySeq
    <2>3. CASE i # 1
        <3>1. g[i - 1] = f[i - 1] /\ i \in 2..n
            BY <2>3
        <3> QED BY <2>1, <3>1, <1>5
    <2> QED BY <2>2, <2>3
<1>16. g[0] = <<>> /\ FlattenSeq(s) = g[n]
    BY <1>2, <1>3, <1>13
<1> HIDE DEF g
<1> QED BY <1>14, <1>15, <1>16
-----------------------------------------------------------------------------
(* Keys, folders and prefixes.                                             *)

Paths == Seq(STRING)
N == Len(KeyOrder)

LEMMA KeyTypes ==
    /\ N \in Nat /\ DOMAIN KeyOrder = 1..N
    /\ \A i \in 1..N : KeyOrder[i] \in Paths /\ Len(KeyOrder[i]) \in Nat \ {0}
<1>1. KeyOrder \in Seq(Seq(STRING) \ {<<>>})
    BY TuiAssumption
<1>2. N \in Nat /\ DOMAIN KeyOrder = 1..N
    BY <1>1, LenProperties DEF N
<1>3. ASSUME NEW i \in 1..N PROVE KeyOrder[i] \in Paths /\ Len(KeyOrder[i]) \in Nat \ {0}
    <2>1. KeyOrder[i] \in Seq(STRING) /\ KeyOrder[i] # <<>>
        BY <1>1, <1>2, <1>3, ElementOfSeq DEF N
    <2> QED BY <2>1, EmptySeq, LenProperties DEF Paths
<1> QED BY <1>2, <1>3

LEMMA PrefixType ==
    ASSUME NEW p \in Paths, NEW m \in 0..Len(p)
    PROVE  /\ Prefix(p, m) \in Paths
           /\ Len(Prefix(p, m)) = m
           /\ \A x \in 1..m : Prefix(p, m)[x] = p[x]
<1>1. Len(p) \in Nat
    BY LenProperties DEF Paths
<1>2. 1 \in 1..(Len(p) + 1) /\ m \in (1 - 1)..Len(p)
    BY <1>1
<1>3. Prefix(p, m) \in Seq(STRING)
    BY <1>1, <1>2, SubSeqProperties DEF Prefix, Paths
<1>4. Len(Prefix(p, m)) = m
    BY <1>1, <1>2, SubSeqProperties DEF Prefix, Paths
<1>5. \A x \in 1..m : Prefix(p, m)[x] = p[x]
    BY <1>1, <1>2, SubSeqProperties DEF Prefix, Paths
<1> QED BY <1>3, <1>4, <1>5 DEF Paths

LEMMA PrefixWhole ==
    ASSUME NEW p \in Paths
    PROVE  Prefix(p, Len(p)) = p
BY SubSeqFull DEF Prefix, Paths

LEMMA PrefixPrefix ==
    ASSUME NEW p \in Paths, NEW m \in 0..Len(p), NEW l \in 0..m
    PROVE  Prefix(Prefix(p, m), l) = Prefix(p, l)
<1>1. Len(p) \in Nat /\ l \in 0..Len(p)
    BY LenProperties DEF Paths
<1> DEFINE q == Prefix(p, m)
<1>2. q \in Paths /\ Len(q) = m /\ \A x \in 1..m : q[x] = p[x]
    BY PrefixType
<1> HIDE DEF q
<1>3. Prefix(q, l) \in Paths /\ Len(Prefix(q, l)) = l /\ \A x \in 1..l : Prefix(q, l)[x] = q[x]
    BY <1>2, PrefixType
<1>4. Prefix(p, l) \in Paths /\ Len(Prefix(p, l)) = l /\ \A x \in 1..l : Prefix(p, l)[x] = p[x]
    BY <1>1, PrefixType
<1>5. \A x \in 1..l : Prefix(q, l)[x] = Prefix(p, l)[x]
    BY <1>2, <1>3, <1>4
<1>6. Prefix(q, l) = Prefix(p, l)
    BY <1>3, <1>4, <1>5, SeqEqual DEF Paths
<1> QED BY <1>6 DEF q

LEMMA ShorterPrefix ==
    ASSUME NEW p \in Paths, NEW q \in Paths, NEW m \in 0..Len(p), m =< Len(q),
           Prefix(p, m) = Prefix(q, m), NEW l \in 0..m
    PROVE  Prefix(p, l) = Prefix(q, l)
<1>1. m \in 0..Len(q)
    BY LenProperties DEF Paths
<1> QED BY <1>1, PrefixPrefix

\* A path is in a folder if it goes on where a prefix of it ends.
LEMMA InPrefix ==
    ASSUME NEW p \in Paths, NEW q \in Paths, NEW m \in 0..Len(p)
    PROVE  InFolder(q, Prefix(p, m)) <=> m < Len(q) /\ Prefix(q, m) = Prefix(p, m)
BY PrefixType DEF InFolder

LEMMA FolderOf ==
    ASSUME NEW i \in 1..N, NEW m \in 1..(Len(KeyOrder[i]) - 1)
    PROVE  Prefix(KeyOrder[i], m) \in Folders
BY KeyTypes DEF Folders, Keys, Range

LEMMA RowOnType ==
    ASSUME NEW i \in 1..N, NEW m \in 1..Len(KeyOrder[i])
    PROVE  RowOn(KeyOrder[i], m) \in Rows
<1>1. KeyOrder[i] \in Keys
    BY KeyTypes DEF Keys, Range
<1>2. CASE m < Len(KeyOrder[i])
    <2>1. Prefix(KeyOrder[i], m) \in Folders
        BY <1>2, KeyTypes, FolderOf
    <2> QED BY <1>2, <2>1 DEF RowOn, Rows
<1>3. CASE m = Len(KeyOrder[i])
    <2>1. RowOn(KeyOrder[i], m) = Row(KeyOrder[i], FALSE)
        <3>1. Prefix(KeyOrder[i], m) = KeyOrder[i]
            BY <1>3, KeyTypes, PrefixWhole
        <3>2. (m < Len(KeyOrder[i])) = FALSE
            BY <1>3, KeyTypes
        <3> QED BY <3>1, <3>2 DEF RowOn
    <2> QED BY <1>1, <2>1 DEF Rows
<1> QED BY <1>2, <1>3, KeyTypes

LEMMA RowsAre ==
    ASSUME NEW r \in Rows
    PROVE  r.id \in Paths /\ Len(r.id) \in Nat \ {0} /\ r.dir \in BOOLEAN /\ r = Row(r.id, r.dir)
<1>1. \A k \in Keys : k \in Paths /\ Len(k) \in Nat \ {0}
    BY KeyTypes DEF Keys, Range
<1>2. ASSUME NEW f \in Folders PROVE f \in Paths /\ Len(f) \in Nat \ {0}
    <2>1. PICK k \in Keys : \E m \in 1..(Len(k) - 1) : f = Prefix(k, m)
        BY DEF Folders
    <2>2. PICK m \in 1..(Len(k) - 1) : f = Prefix(k, m)
        BY <2>1
    <2> QED BY <1>1, <2>2, PrefixType
<1>3. CASE r \in {Row(k, FALSE) : k \in Keys}
    <2>1. PICK k \in Keys : r = Row(k, FALSE)
        BY <1>3
    <2> QED BY <1>1, <2>1 DEF Row
<1>4. CASE r \in {Row(f, TRUE) : f \in Folders}
    <2>1. PICK f \in Folders : r = Row(f, TRUE)
        BY <1>4
    <2> QED BY <1>2, <2>1 DEF Row
<1> QED BY <1>3, <1>4 DEF Rows

-----------------------------------------------------------------------------
(* What build_rows opens for one key.                                      *)

LEMMA OpenIs ==
    ASSUME NEW f \in BOOLEAN, NEW c, NEW key \in Paths, Len(key) \in Nat \ {0}
    PROVE  /\ Open(f, c, key) \in 1..Len(key)
           /\ \A m \in 1..(Open(f, c, key) - 1) : ~is_folded(f, c, Prefix(key, m))
           /\ Open(f, c, key) < Len(key) => is_folded(f, c, Prefix(key, Open(f, c, key)))
<1> DEFINE S == {Len(key)} \cup {m \in 1..(Len(key) - 1) : is_folded(f, c, Prefix(key, m))}
<1>1. S \subseteq Nat /\ S # {}
    OBVIOUS
<1>2. Min(S) \in S /\ \A x \in S : Min(S) =< x
    BY <1>1, HasMinimum
<1>3. Open(f, c, key) = Min(S)
    BY DEF Open
<1>4. Open(f, c, key) \in 1..Len(key)
    BY <1>2, <1>3
<1>5. ASSUME NEW m \in 1..(Open(f, c, key) - 1) PROVE ~is_folded(f, c, Prefix(key, m))
    <2>1. m \in 1..(Len(key) - 1) /\ m < Min(S)
        BY <1>3, <1>4
    <2>2. m \notin S
        <3>1. Min(S) \in Nat
            BY <1>1, <1>2
        <3> HIDE DEF S
        <3> QED BY <1>2, <2>1, <3>1
    <2> QED BY <2>1, <2>2
<1>6. Open(f, c, key) < Len(key) => is_folded(f, c, Prefix(key, Open(f, c, key)))
    BY <1>2, <1>3
<1> QED BY <1>4, <1>5, <1>6

LEMMA SharedIs ==
    ASSUME NEW previous \in Paths, NEW key \in Paths, Len(key) \in Nat \ {0}
    PROVE  /\ Shared(previous, key) \in 0..(Len(key) - 1)
           /\ \A m \in 1..Shared(previous, key) :
                 m < Len(previous) /\ Prefix(previous, m) = Prefix(key, m)
           /\ \A m \in 1..(Len(key) - 1) :
                 m < Len(previous) /\ Prefix(previous, m) = Prefix(key, m)
                 => m =< Shared(previous, key)
<1> DEFINE S == {0} \cup {m \in 1..(Len(key) - 1) :
                            m < Len(previous) /\ Prefix(previous, m) = Prefix(key, m)}
<1>1. S \subseteq 0..(Len(key) - 1) /\ S # {} /\ Len(key) - 1 \in Nat /\ Len(previous) \in Nat
    BY LenProperties DEF Paths
<1>2. Max(S) \in S /\ \A x \in S : x =< Max(S)
    BY <1>1, HasMaximum
<1>3. Shared(previous, key) = Max(S)
    BY DEF Shared
<1>4. Max(S) \in 0..(Len(key) - 1)
    BY <1>1, <1>2
<1>5. ASSUME NEW m \in 1..Max(S)
      PROVE  m < Len(previous) /\ Prefix(previous, m) = Prefix(key, m)
    <2>1. Max(S) \in 1..(Len(key) - 1) /\ Max(S) < Len(previous)
          /\ Prefix(previous, Max(S)) = Prefix(key, Max(S))
        BY <1>2, <1>4, <1>5
    <2> HIDE DEF S
    <2>2. Max(S) \in 0..Len(previous) /\ Max(S) =< Len(key) /\ m \in 0..Max(S)
        BY <1>1, <2>1
    <2>3. Prefix(previous, m) = Prefix(key, m)
        BY <2>1, <2>2, ShorterPrefix
    <2> QED BY <1>1, <2>1, <2>3
<1>6. \A m \in 1..(Len(key) - 1) :
         m < Len(previous) /\ Prefix(previous, m) = Prefix(key, m) => m =< Max(S)
    BY <1>2
<1> QED BY <1>3, <1>4, <1>5, <1>6

\* As far as two keys share their folders they are open alike.
LEMMA SharedOpen ==
    ASSUME NEW f \in BOOLEAN, NEW c,
           NEW previous \in Paths, NEW key \in Paths,
           Len(key) \in Nat \ {0}, Len(previous) \in Nat \ {0}
    PROVE  LET shared == Shared(previous, key) IN
           IF Open(f, c, key) > shared THEN Open(f, c, previous) > shared
           ELSE Open(f, c, previous) = Open(f, c, key)
<1> DEFINE shared == Shared(previous, key)
           o == Open(f, c, key)
           b == Open(f, c, previous)
<1>1. /\ shared \in 0..(Len(key) - 1)
      /\ \A m \in 1..shared : m < Len(previous) /\ Prefix(previous, m) = Prefix(key, m)
    BY SharedIs
<1>2. /\ o \in 1..Len(key)
      /\ \A m \in 1..(o - 1) : ~is_folded(f, c, Prefix(key, m))
      /\ o < Len(key) => is_folded(f, c, Prefix(key, o))
    BY OpenIs
<1>3. /\ b \in 1..Len(previous)
      /\ \A m \in 1..(b - 1) : ~is_folded(f, c, Prefix(previous, m))
      /\ b < Len(previous) => is_folded(f, c, Prefix(previous, b))
    BY OpenIs
<1> HIDE DEF shared, o, b
<1>4. CASE o > shared
    <2>1. ASSUME b =< shared PROVE FALSE
        <3>1. b \in 1..shared
            BY <1>1, <1>3, <2>1
        <3>2. b < Len(previous) /\ Prefix(previous, b) = Prefix(key, b)
            BY <1>1, <3>1
        <3>3. b \in 1..(o - 1)
            BY <1>1, <1>2, <1>4, <3>1
        <3> QED BY <1>2, <1>3, <3>2, <3>3
    <2>2. b > shared
        BY <1>1, <1>3, <2>1
    <2> QED BY <1>4, <2>2 DEF shared, o, b
<1>5. CASE o =< shared
    <2>1. o \in 1..shared /\ o < Len(key)
        BY <1>1, <1>2, <1>5
    <2>2. o < Len(previous) /\ is_folded(f, c, Prefix(previous, o))
        BY <1>1, <1>2, <2>1
    <2>3. b =< o
        BY <1>2, <1>3, <2>2
    <2>4. ASSUME b < o PROVE FALSE
        <3>1. b \in 1..shared /\ b \in 1..(o - 1) /\ b < Len(previous)
            BY <1>1, <1>3, <2>1, <2>2, <2>4
        <3>2. Prefix(previous, b) = Prefix(key, b)
            BY <1>1, <3>1
        <3>3. is_folded(f, c, Prefix(previous, b)) /\ ~is_folded(f, c, Prefix(key, b))
            BY <1>2, <1>3, <3>1
        <3> QED BY <3>2, <3>3
    <2>5. b = o
        BY <1>2, <1>3, <2>3, <2>4
    <2> QED BY <1>1, <1>2, <1>5, <2>5 DEF shared, o, b
<1> QED BY <1>1, <1>2, <1>4, <1>5

LEMMA BeforeIs ==
    ASSUME NEW shown \in SUBSET (1..N), NEW i \in 1..N
    PROVE  \/ Before(shown, i) = <<>> /\ \A l \in shown : ~(l < i)
           \/ \E b \in shown : /\ b < i /\ Before(shown, i) = KeyOrder[b]
                               /\ \A l \in shown : l < i => l =< b
<1> DEFINE earlier == {j \in shown : j < i}
<1>1. CASE earlier = {}
    BY <1>1 DEF Before
<1>2. CASE earlier # {}
    <2>1. N \in Nat /\ 1..N \subseteq 0..N
        BY KeyTypes
    <2>2. earlier \subseteq 0..N
        BY <2>1
    <2>3. Max(earlier) \in earlier /\ \A x \in earlier : x =< Max(earlier)
        BY <1>2, <2>1, <2>2, HasMaximum
    <2>4. Before(shown, i) = KeyOrder[Max(earlier)]
        BY <1>2 DEF Before
    <2> QED BY <2>3, <2>4
<1> QED BY <1>1, <1>2

LEMMA BeforeType ==
    ASSUME NEW shown \in SUBSET (1..N), NEW i \in 1..N
    PROVE  Before(shown, i) \in Paths
<1>1. <<>> \in Paths
    BY EmptySeq DEF Paths
<1> QED BY <1>1, BeforeIs, KeyTypes

LEMMA ShownType == ASSUME NEW ks, NEW f PROVE Shown(ks, f) \in SUBSET (1..N)
BY KeyTypes DEF Shown

\* Beyond the shared folders, the way to a key is new: no row of an earlier key
\* is on it, or in a folder on it.
LEMMA Fresh ==
    ASSUME NEW shown \in SUBSET (1..N), NEW i \in shown, NEW j \in shown, j < i,
           NEW m \in (Shared(Before(shown, i), KeyOrder[i]) + 1)..Len(KeyOrder[i]),
           NEW l \in 1..Len(KeyOrder[j])
    PROVE  /\ RowOn(KeyOrder[j], l) # RowOn(KeyOrder[i], m)
           /\ m < Len(KeyOrder[i]) => ~InFolder(Prefix(KeyOrder[j], l), Prefix(KeyOrder[i], m))
<1> DEFINE key == KeyOrder[i]
           old == KeyOrder[j]
           previous == Before(shown, i)
           shared == Shared(previous, key)
<1>1. /\ key \in Paths /\ Len(key) \in Nat \ {0}
      /\ old \in Paths /\ Len(old) \in Nat \ {0}
      /\ previous \in Paths
      /\ i \in 1..N /\ j \in 1..N
    BY KeyTypes, BeforeType
<1>2. shared \in 0..(Len(key) - 1)
    BY <1>1, SharedIs
<1>3. m \in 1..Len(key)
    BY <1>1, <1>2
<1>4. PICK b \in shown : b < i /\ previous = KeyOrder[b] /\ j =< b
    <2>1. i \in 1..N
        OBVIOUS
    <2> QED BY <2>1, BeforeIs
<1>5. ASSUME m < Len(key), InFolder(old, Prefix(key, m)) PROVE FALSE
    <2>1. m \in 1..(Len(key) - 1)
        BY <1>1, <1>3, <1>5
    <2>2. Prefix(key, m) \in Folders
        BY <2>1, <1>1, FolderOf
    <2>3. InFolder(key, Prefix(key, m))
        BY <1>1, <1>5, <2>1, InPrefix
    <2>4. b \in j..i
        BY <1>1, <1>4
    <2>5. InFolder(previous, Prefix(key, m))
        BY <1>1, <1>4, <1>5, <2>2, <2>3, <2>4, SortAssumption, KeyTypes
    <2>6. m < Len(previous) /\ Prefix(previous, m) = Prefix(key, m)
        BY <1>1, <2>1, <2>5, InPrefix
    <2>7. m =< shared
        BY <1>1, <2>1, <2>6, SharedIs
    <2> QED BY <1>2, <2>1, <2>7
<1>6. ASSUME RowOn(old, l) = RowOn(key, m) PROVE FALSE
    <2>1. Prefix(old, l) = Prefix(key, m) /\ (l < Len(old)) = (m < Len(key))
        BY <1>6 DEF RowOn, Row
    <2>2. l = m
        BY <1>1, <1>3, <2>1, PrefixType
    <2>3. CASE m < Len(key)
        <3>1. m < Len(old) /\ Prefix(old, m) = Prefix(key, m)
            BY <2>1, <2>2, <2>3
        <3>2. InFolder(old, Prefix(key, m))
            BY <1>1, <1>3, <3>1, InPrefix
        <3> QED BY <1>5, <2>3, <3>2
    <2>4. CASE ~(m < Len(key))
        <3>1. m = Len(key) /\ l = Len(old)
            BY <1>1, <1>3, <2>1, <2>2, <2>4
        <3>2. old = key
            BY <1>1, <2>1, <3>1, PrefixWhole
        <3>3. i \in DOMAIN KeyOrder /\ j \in DOMAIN KeyOrder
            BY KeyTypes
        <3>4. i = j
            BY <3>2, <3>3, TuiAssumption
        <3> QED BY <1>1, <3>4
    <2> QED BY <2>3, <2>4
<1>7. ASSUME m < Len(key), InFolder(Prefix(old, l), Prefix(key, m)) PROVE FALSE
    <2>1. Prefix(old, l) \in Paths /\ Len(Prefix(old, l)) = l
        BY <1>1, PrefixType
    <2>2. m < l /\ Prefix(Prefix(old, l), m) = Prefix(key, m)
        BY <1>1, <1>3, <1>7, <2>1, InPrefix
    <2>3. Prefix(old, m) = Prefix(key, m) /\ m < Len(old)
        BY <1>1, <1>3, <2>2, PrefixPrefix
    <2>4. InFolder(old, Prefix(key, m))
        BY <1>1, <1>3, <2>3, InPrefix
    <2> QED BY <1>5, <1>7, <2>4
<1> QED BY <1>6, <1>7

LEMMA NewRowsAre ==
    ASSUME NEW previous \in Paths, NEW f \in BOOLEAN, NEW c, NEW i \in 1..N
    PROVE  LET key == KeyOrder[i]
               s == NewRows(previous, key, f, c)
               shared == Shared(previous, key)
           IN  /\ s \in Seq(Rows)
               /\ Len(s) = IF Open(f, c, key) > shared THEN Open(f, c, key) - shared ELSE 0
               /\ \A x \in 1..Len(s) : shared + x =< Open(f, c, key) /\ s[x] = RowOn(key, shared + x)
<1> DEFINE key == KeyOrder[i]
           s == NewRows(previous, key, f, c)
           shared == Shared(previous, key)
           o == Open(f, c, key)
           n == IF o > shared THEN o - shared ELSE 0
<1>1. key \in Paths /\ Len(key) \in Nat \ {0}
    BY KeyTypes
<1>2. o \in 1..Len(key) /\ shared \in 0..(Len(key) - 1)
    BY <1>1, OpenIs, SharedIs
<1>3. s = [m \in 1..(o - shared) |-> RowOn(key, shared + m)]
    BY DEF NewRows
<1> HIDE DEF s, o, shared
<1>4. n \in Nat /\ 1..n = 1..(o - shared)
    BY <1>2
<1>5. s = [m \in 1..n |-> RowOn(key, shared + m)]
    BY <1>3, <1>4
<1>6. \A m \in 1..n : shared + m \in 1..o
    BY <1>2
<1> HIDE DEF n
<1>7. ASSUME NEW m \in 1..n PROVE RowOn(key, shared + m) \in Rows
    <2>1. shared + m \in 1..Len(key)
        BY <1>2, <1>6
    <2> QED BY <2>1, RowOnType
<1>8. s \in [1..n -> Rows]
    BY <1>5, <1>7
<1>9. s \in Seq(Rows) /\ Len(s) = n
    BY <1>4, <1>8
<1>10. \A x \in 1..n : shared + x =< o /\ s[x] = RowOn(key, shared + x)
    BY <1>2, <1>5, <1>6
<1> QED BY <1>9, <1>10 DEF n, s, o, shared


-----------------------------------------------------------------------------
(* The tree after the first keys, one more key at a time.                  *)

\* The rows of the shown ones of the first i keys.
IsDrawn(ks, f, c, i, r) ==
    \E j \in Shown(ks, f) :
        j =< i /\ \E m \in 1..Open(f, c, KeyOrder[j]) : r = RowOn(KeyOrder[j], m)

Complete(ks, f, c, i, g) ==
    /\ \A x \in DOMAIN g : IsDrawn(ks, f, c, i, g[x])
    /\ \A r \in Rows : IsDrawn(ks, f, c, i, r) => \E x \in DOMAIN g : g[x] = r

Distinct(g) == \A x, y \in DOMAIN g : g[x] = g[y] => x = y

FolderFirst(g) ==
    \A x, y \in DOMAIN g : g[x].dir /\ InFolder(g[y].id, g[x].id) => x < y

\* Row b can stand right below row a: its folder is a, or one around a.
Follows(a, b) ==
    LET up == Len(b.id) - 1 IN
    /\ up =< Len(a.id) /\ Prefix(a.id, up) = Prefix(b.id, up)
    /\ up = Len(a.id) => a.dir

Preorder(g) == \A x \in 1..(Len(g) - 1) : Follows(g[x], g[x + 1])

\* The last row is the last one open on the way to the last shown key.
EndsAt(ks, f, c, i, g) ==
    \A j \in Shown(ks, f) :
        j =< i /\ (\A l \in Shown(ks, f) : l =< i => l =< j)
        => g # <<>> /\ g[Len(g)].id = Prefix(KeyOrder[j], Open(f, c, KeyOrder[j]))

TreeOf(ks, f, c, i, g) ==
    /\ g \in Seq(Rows)
    /\ Complete(ks, f, c, i, g)
    /\ Distinct(g)
    /\ FolderFirst(g)
    /\ Preorder(g)
    /\ EndsAt(ks, f, c, i, g)

\* A key that is not shown adds nothing.
LEMMA StepHidden ==
    ASSUME NEW ks, NEW f \in BOOLEAN, NEW c, NEW i \in 0..(N - 1), NEW g,
           TreeOf(ks, f, c, i, g), i + 1 \notin Shown(ks, f)
    PROVE  TreeOf(ks, f, c, i + 1, g)
<1>1. \A j \in Shown(ks, f) : j \in Nat /\ (j =< i + 1 <=> j =< i)
    BY ShownType, KeyTypes
<1>2. \A r : IsDrawn(ks, f, c, i + 1, r) <=> IsDrawn(ks, f, c, i, r)
    BY <1>1 DEF IsDrawn
<1>3. EndsAt(ks, f, c, i + 1, g)
    BY <1>1 DEF EndsAt, TreeOf
<1> QED BY <1>2, <1>3 DEF TreeOf, Complete

\* A key in a folded folder that the key before it is in, too, adds nothing.
LEMMA StepFolded ==
    ASSUME NEW ks, NEW f \in BOOLEAN, NEW c, NEW i \in 0..(N - 1), NEW g,
           TreeOf(ks, f, c, i, g), i + 1 \in Shown(ks, f),
           Open(f, c, KeyOrder[i + 1])
              =< Shared(Before(Shown(ks, f), i + 1), KeyOrder[i + 1])
    PROVE  TreeOf(ks, f, c, i + 1, g)
<1> DEFINE sh == Shown(ks, f)
           key == KeyOrder[i + 1]
           previous == Before(sh, i + 1)
           shared == Shared(previous, key)
           o == Open(f, c, key)
<1>1. /\ sh \in SUBSET (1..N) /\ i + 1 \in 1..N /\ N \in Nat
      /\ key \in Paths /\ Len(key) \in Nat \ {0}
      /\ previous \in Paths
    BY ShownType, KeyTypes, BeforeType
<1>2. /\ shared \in 0..(Len(key) - 1)
      /\ \A m \in 1..shared : m < Len(previous) /\ Prefix(previous, m) = Prefix(key, m)
    BY <1>1, SharedIs
<1>3. o \in 1..Len(key)
    BY <1>1, OpenIs
<1>4. o =< shared
    OBVIOUS
<1>5. previous # <<>>
    <2>1. 1 < Len(previous)
        BY <1>2, <1>3, <1>4
    <2> QED BY <2>1
<1>6. PICK b \in sh : /\ b < i + 1 /\ previous = KeyOrder[b]
                      /\ \A l \in sh : l < i + 1 => l =< b
    <2> HIDE DEF sh
    <2> QED BY <1>1, <1>5, BeforeIs
<1>7. Open(f, c, KeyOrder[b]) = o
    <2>1. ~(o > shared)
        BY <1>2, <1>3, <1>4
    <2>2. Len(KeyOrder[b]) \in Nat \ {0} /\ KeyOrder[b] \in Paths
        BY <1>1, KeyTypes
    <2> QED BY <1>1, <1>6, <2>1, <2>2, SharedOpen
<1>8. ASSUME NEW m \in 1..o PROVE RowOn(key, m) = RowOn(KeyOrder[b], m)
    <2>1. m \in 1..shared /\ m < Len(key)
        BY <1>2, <1>3, <1>4
    <2>2. m < Len(previous) /\ Prefix(previous, m) = Prefix(key, m)
        BY <1>2, <2>1
    <2> QED BY <1>6, <2>1, <2>2 DEF RowOn
<1> HIDE DEF sh, key, previous, shared, o
<1>9. \A j \in sh : j \in Nat /\ (j =< i + 1 <=> j =< i \/ j = i + 1)
    BY <1>1
<1>10. ASSUME NEW r PROVE IsDrawn(ks, f, c, i + 1, r) <=> IsDrawn(ks, f, c, i, r)
    <2>1. ASSUME IsDrawn(ks, f, c, i, r) PROVE IsDrawn(ks, f, c, i + 1, r)
        BY <2>1, <1>9 DEF IsDrawn, sh
    <2>2. ASSUME IsDrawn(ks, f, c, i + 1, r) PROVE IsDrawn(ks, f, c, i, r)
        <3>1. PICK j \in sh : j =< i + 1 /\ \E m \in 1..Open(f, c, KeyOrder[j]) : r = RowOn(KeyOrder[j], m)
            BY <2>2 DEF IsDrawn, sh
        <3>2. CASE j =< i
            BY <3>1, <3>2 DEF IsDrawn, sh
        <3>3. CASE j = i + 1
            <4>1. PICK m \in 1..o : r = RowOn(key, m)
                BY <3>1, <3>3 DEF o, key
            <4>2. r = RowOn(KeyOrder[b], m) /\ m \in 1..Open(f, c, KeyOrder[b])
                BY <4>1, <1>7, <1>8
            <4>3. b \in sh /\ b =< i
                BY <1>6, <1>9
            <4> QED BY <4>2, <4>3 DEF IsDrawn, sh
        <3> QED BY <3>1, <3>2, <3>3, <1>9
    <2> QED BY <2>1, <2>2
<1>11. EndsAt(ks, f, c, i + 1, g)
    <2> SUFFICES ASSUME NEW j \in sh, j =< i + 1, \A l \in sh : l =< i + 1 => l =< j
                 PROVE  g # <<>> /\ g[Len(g)].id = Prefix(KeyOrder[j], Open(f, c, KeyOrder[j]))
        BY DEF EndsAt, sh
    <2>1. j = i + 1
        BY <1>1, <1>9 DEF sh
    <2>2. g # <<>> /\ g[Len(g)].id = Prefix(KeyOrder[b], Open(f, c, KeyOrder[b]))
        <3>1. b =< i /\ \A l \in sh : l =< i => l =< b
            BY <1>6, <1>9
        <3> QED BY <3>1, <1>6 DEF TreeOf, EndsAt, sh
    <2>3. o \in 1..shared
        BY <1>2, <1>3, <1>4
    <2>4. Prefix(KeyOrder[b], o) = Prefix(key, o)
        BY <1>2, <1>6, <2>3
    <2> QED BY <2>1, <2>2, <2>4, <1>7 DEF key, o
<1> QED BY <1>10, <1>11 DEF TreeOf, Complete

\* Any other key adds the rest of its way, below the last row on it.
LEMMA StepOpen ==
    ASSUME NEW ks, NEW f \in BOOLEAN, NEW c, NEW i \in 0..(N - 1), NEW g,
           TreeOf(ks, f, c, i, g), i + 1 \in Shown(ks, f),
           Open(f, c, KeyOrder[i + 1])
              > Shared(Before(Shown(ks, f), i + 1), KeyOrder[i + 1])
    PROVE  TreeOf(ks, f, c, i + 1,
                  g \o NewRows(Before(Shown(ks, f), i + 1), KeyOrder[i + 1], f, c))
<1> DEFINE sh == Shown(ks, f)
           key == KeyOrder[i + 1]
           previous == Before(sh, i + 1)
           shared == Shared(previous, key)
           o == Open(f, c, key)
           s == NewRows(previous, key, f, c)
           h == g \o s
           n == Len(g)
           k == Len(s)
<1>1. /\ sh \in SUBSET (1..N) /\ i + 1 \in 1..N /\ N \in Nat
      /\ key \in Paths /\ Len(key) \in Nat \ {0}
      /\ previous \in Paths
    BY ShownType, KeyTypes, BeforeType
<1>2. /\ shared \in 0..(Len(key) - 1)
      /\ \A m \in 1..shared : m < Len(previous) /\ Prefix(previous, m) = Prefix(key, m)
    BY <1>1, SharedIs
<1>3. o \in 1..Len(key) /\ o > shared
    BY <1>1, OpenIs
<1>4. /\ s \in Seq(Rows) /\ k = o - shared
      /\ \A x \in 1..k : shared + x =< o /\ s[x] = RowOn(key, shared + x)
    BY <1>1, <1>3, NewRowsAre
<1>5. g \in Seq(Rows) /\ n \in Nat /\ DOMAIN g = 1..n
    BY LenProperties DEF TreeOf
<1>6. k \in Nat \ {0} /\ DOMAIN s = 1..k
    BY <1>2, <1>3, <1>4, LenProperties
<1>7. /\ h \in Seq(Rows) /\ Len(h) = n + k /\ DOMAIN h = 1..(n + k)
      /\ \A x \in 1..(n + k) : h[x] = IF x =< n THEN g[x] ELSE s[x - n]
    BY <1>4, <1>5, <1>6, ConcatProperties, LenProperties
<1>8. previous # <<>> =>
        \E b \in sh : /\ b < i + 1 /\ previous = KeyOrder[b]
                      /\ \A l \in sh : l < i + 1 => l =< b
    <2> HIDE DEF sh
    <2> QED BY <1>1, BeforeIs
<1>9. ASSUME NEW m \in (shared + 1)..o, NEW r, IsDrawn(ks, f, c, i, r)
      PROVE  r # RowOn(key, m) /\ (m < Len(key) => ~InFolder(r.id, Prefix(key, m)))
    <2>1. PICK j \in sh : j =< i /\ \E l \in 1..Open(f, c, KeyOrder[j]) : r = RowOn(KeyOrder[j], l)
        BY <1>9 DEF IsDrawn
    <2>2. PICK l \in 1..Open(f, c, KeyOrder[j]) : r = RowOn(KeyOrder[j], l)
        BY <2>1
    <2>3. KeyOrder[j] \in Paths /\ Len(KeyOrder[j]) \in Nat \ {0}
        BY <1>1, KeyTypes
    <2>4. l \in 1..Len(KeyOrder[j])
        BY <2>3, OpenIs
    <2>5. m \in (shared + 1)..Len(key) /\ j < i + 1
        BY <1>1, <1>2, <1>3, <2>1
    <2> HIDE DEF sh
    <2>6. /\ RowOn(KeyOrder[j], l) # RowOn(key, m)
          /\ m < Len(key) => ~InFolder(Prefix(KeyOrder[j], l), Prefix(key, m))
        BY <1>1, <2>4, <2>5, Fresh DEF sh
    <2> QED BY <2>2, <2>6 DEF RowOn, Row
<1>10. ASSUME NEW x \in 1..(n + k)
       PROVE  \/ x =< n /\ h[x] = g[x] /\ IsDrawn(ks, f, c, i, h[x])
              \/ x > n /\ x - n \in 1..k /\ h[x] = RowOn(key, shared + (x - n))
    <2>1. CASE x =< n
        <3>1. x \in DOMAIN g /\ h[x] = g[x]
            BY <1>5, <1>6, <1>7, <2>1
        <3> QED BY <2>1, <3>1 DEF TreeOf, Complete
    <2>2. CASE x > n
        <3>1. x - n \in 1..k /\ h[x] = s[x - n]
            BY <1>5, <1>6, <1>7, <2>2
        <3> QED BY <1>4, <2>2, <3>1
    <2> QED BY <1>5, <2>1, <2>2
<1> HIDE DEF sh, key, previous, shared, o, s, h, n, k
<1>11. \A j \in sh : j \in Nat /\ (j =< i + 1 <=> j =< i \/ j = i + 1)
    BY <1>1
<1>12. Complete(ks, f, c, i + 1, h)
    <2>1. ASSUME NEW x \in DOMAIN h PROVE IsDrawn(ks, f, c, i + 1, h[x])
        <3>1. CASE IsDrawn(ks, f, c, i, h[x])
            BY <3>1, <1>11 DEF IsDrawn, sh
        <3>2. CASE x > n /\ x - n \in 1..k /\ h[x] = RowOn(key, shared + (x - n))
            <4>1. shared + (x - n) \in 1..o
                BY <1>2, <1>4, <3>2
            <4>2. i + 1 \in sh /\ i + 1 =< i + 1
                BY DEF sh
            <4> QED BY <3>2, <4>1, <4>2 DEF IsDrawn, sh, key, o
        <3> QED BY <3>1, <3>2, <1>7, <1>10
    <2>2. ASSUME NEW r \in Rows, IsDrawn(ks, f, c, i + 1, r) PROVE \E x \in DOMAIN h : h[x] = r
        <3>1. PICK j \in sh : j =< i + 1 /\ \E m \in 1..Open(f, c, KeyOrder[j]) : r = RowOn(KeyOrder[j], m)
            BY <2>2 DEF IsDrawn, sh
        <3>2. ASSUME IsDrawn(ks, f, c, i, r) PROVE \E x \in DOMAIN h : h[x] = r
            <4>1. PICK x \in DOMAIN g : g[x] = r
                BY <3>2 DEF TreeOf, Complete
            <4>2. x \in DOMAIN h /\ h[x] = g[x]
                BY <1>5, <1>6, <1>7
            <4> QED BY <4>1, <4>2
        <3>3. CASE j =< i
            BY <3>1, <3>2, <3>3 DEF IsDrawn, sh
        <3>4. CASE j = i + 1
            <4>1. PICK m \in 1..o : r = RowOn(key, m)
                BY <3>1, <3>4 DEF o, key
            <4>2. CASE m > shared
                <5>1. m - shared \in 1..k
                    BY <1>2, <1>3, <1>4, <4>2
                <5>2. n + (m - shared) \in 1..(n + k)
                    BY <1>5, <1>6, <5>1
                <5>3. h[n + (m - shared)] = s[m - shared]
                    BY <1>5, <1>6, <1>7, <5>1, <5>2
                <5>4. s[m - shared] = RowOn(key, m)
                    BY <1>2, <1>3, <1>4, <5>1
                <5> QED BY <1>7, <4>1, <5>2, <5>3, <5>4
            <4>3. CASE m =< shared
                <5>1. m \in 1..shared /\ m < Len(key)
                    BY <1>2, <1>3, <4>3
                <5>2. m < Len(previous) /\ Prefix(previous, m) = Prefix(key, m)
                    BY <1>2, <5>1
                <5>3. RowOn(key, m) = RowOn(previous, m)
                    BY <5>1, <5>2 DEF RowOn
                <5>4. previous # <<>>
                    BY <5>1, <5>2
                <5>5. PICK b \in sh : b < i + 1 /\ previous = KeyOrder[b]
                    BY <1>8, <5>4
                <5>6. KeyOrder[b] \in Paths /\ Len(KeyOrder[b]) \in Nat \ {0}
                    BY <1>1, KeyTypes
                <5>7. Open(f, c, KeyOrder[b]) > shared
                    BY <1>1, <1>3, <5>5, <5>6, SharedOpen DEF o, shared
                <5>8. m \in 1..Open(f, c, KeyOrder[b])
                    BY <1>2, <5>1, <5>6, <5>7, OpenIs
                <5>9. b =< i
                    BY <1>11, <5>5
                <5> QED BY <3>2, <4>1, <5>3, <5>5, <5>8, <5>9 DEF IsDrawn, sh
            <4> QED BY <1>2, <1>3, <4>2, <4>3
        <3> QED BY <3>1, <3>3, <3>4, <1>11
    <2> QED BY <2>1, <2>2 DEF Complete
<1>13. ASSUME NEW m \in 1..Len(key)
       PROVE  /\ RowOn(key, m).id = Prefix(key, m) /\ RowOn(key, m).dir = (m < Len(key))
              /\ Prefix(key, m) \in Paths /\ Len(Prefix(key, m)) = m
    BY <1>1, PrefixType DEF RowOn, Row
<1>14. ASSUME NEW x \in 1..k
       PROVE  shared + x \in 1..Len(key) /\ shared + x \in (shared + 1)..o
    BY <1>1, <1>2, <1>3, <1>4, <1>6
<1>15. Distinct(h)
    <2> SUFFICES ASSUME NEW x \in 1..(n + k), NEW y \in 1..(n + k), h[x] = h[y] PROVE x = y
        BY <1>7 DEF Distinct
    <2>1. CASE x =< n /\ y =< n
        <3>1. x \in DOMAIN g /\ y \in DOMAIN g /\ g[x] = g[y]
            BY <1>5, <1>7, <2>1
        <3> QED BY <3>1 DEF TreeOf, Distinct
    <2>2. CASE x > n /\ y > n
        <3>1. /\ x - n \in 1..k /\ h[x] = RowOn(key, shared + (x - n))
              /\ y - n \in 1..k /\ h[y] = RowOn(key, shared + (y - n))
            BY <1>5, <1>10, <2>2
        <3>2. shared + (x - n) = shared + (y - n)
            BY <3>1, <1>13, <1>14
        <3> QED BY <1>2, <1>5, <3>2
    <2>3. ASSUME NEW a \in 1..(n + k), NEW b \in 1..(n + k), a =< n, b > n PROVE h[a] # h[b]
        <3>1. IsDrawn(ks, f, c, i, h[a])
            BY <1>5, <1>10, <2>3
        <3>2. b - n \in 1..k /\ h[b] = RowOn(key, shared + (b - n))
            BY <1>5, <1>10, <2>3
        <3> QED BY <3>1, <3>2, <1>9, <1>14
    <2> QED BY <1>5, <2>1, <2>2, <2>3
<1>16. FolderFirst(h)
    <2> SUFFICES ASSUME NEW x \in 1..(n + k), NEW y \in 1..(n + k),
                        h[x].dir, InFolder(h[y].id, h[x].id)
                 PROVE  x < y
        BY <1>7 DEF FolderFirst
    <2>1. CASE x =< n /\ y =< n
        <3>1. x \in DOMAIN g /\ y \in DOMAIN g /\ g[x] = h[x] /\ g[y] = h[y]
            BY <1>5, <1>7, <2>1
        <3> QED BY <3>1 DEF TreeOf, FolderFirst
    <2>2. CASE x =< n /\ y > n
        BY <1>5, <2>2
    <2>3. CASE x > n
        <3>1. x - n \in 1..k /\ h[x] = RowOn(key, shared + (x - n))
            BY <1>5, <1>10, <2>3
        <3>2. shared + (x - n) < Len(key) /\ h[x].id = Prefix(key, shared + (x - n))
            BY <3>1, <1>13, <1>14
        <3>3. ~IsDrawn(ks, f, c, i, h[y])
            BY <3>1, <3>2, <1>9, <1>14
        <3>4. y > n /\ y - n \in 1..k /\ h[y] = RowOn(key, shared + (y - n))
            BY <1>10, <3>3
        <3>5. Len(h[x].id) < Len(h[y].id)
            BY DEF InFolder
        <3>6. shared + (x - n) < shared + (y - n)
            BY <3>1, <3>4, <3>5, <1>13, <1>14
        <3> QED BY <1>2, <1>5, <3>6
    <2> QED BY <1>5, <2>1, <2>2, <2>3
<1>17. ASSUME NEW x \in 1..k, x > 1
       PROVE  Follows(RowOn(key, shared + (x - 1)), RowOn(key, shared + x))
    <2>1. x - 1 \in 1..k
        BY <1>6, <1>17
    <2>2. /\ shared + x \in 1..Len(key) /\ shared + (x - 1) \in 1..Len(key)
          /\ shared + (x - 1) = shared + x - 1 /\ shared + (x - 1) < Len(key)
        BY <2>1, <1>1, <1>2, <1>14
    <2> DEFINE up == shared + (x - 1)
               at == shared + x
    <2>3. /\ up \in 0..Len(key) /\ up \in 0..at /\ up \in 0..up /\ at \in 0..Len(key)
          /\ at \in 1..Len(key) /\ up \in 1..Len(key) /\ at - 1 = up /\ up =< up /\ up < Len(key)
        BY <1>1, <1>2, <2>2
    <2> HIDE DEF up, at
    <2>4. Prefix(Prefix(key, at), up) = Prefix(key, up)
        BY <1>1, <2>3, PrefixPrefix
    <2>5. Prefix(Prefix(key, up), up) = Prefix(key, up)
        BY <1>1, <2>3, PrefixPrefix
    <2>6. /\ RowOn(key, at).id = Prefix(key, at) /\ Len(Prefix(key, at)) = at
          /\ RowOn(key, up).id = Prefix(key, up) /\ Len(Prefix(key, up)) = up
          /\ RowOn(key, up).dir = TRUE
        BY <1>13, <2>3
    <2>7. Follows(RowOn(key, up), RowOn(key, at))
        BY <2>3, <2>4, <2>5, <2>6 DEF Follows
    <2> QED BY <2>7 DEF up, at
<1>18. ASSUME n > 0 PROVE Follows(g[n], RowOn(key, shared + 1))
    <2>1. PICK b \in sh : b =< i /\ \A l \in sh : l =< i => l =< b
        <3>1. IsDrawn(ks, f, c, i, g[n])
            BY <1>5, <1>18 DEF TreeOf, Complete
        <3>2. PICK j \in sh : j =< i
            BY <3>1 DEF IsDrawn, sh
        <3>3. previous # <<>>
            BY <1>1, <3>2, <1>11, BeforeIs, KeyTypes, EmptySeq DEF sh, previous
        <3> QED BY <1>8, <1>11, <3>3
    <2>2. g[n].id = Prefix(KeyOrder[b], Open(f, c, KeyOrder[b]))
        BY <2>1 DEF TreeOf, EndsAt, sh, n
    <2>3. KeyOrder[b] \in Paths /\ Len(KeyOrder[b]) \in Nat \ {0}
        BY <1>1, KeyTypes
    <2>4. previous = KeyOrder[b]
        BY <1>1, <2>1, <1>11, BeforeIs DEF previous, sh
    <2>5. Open(f, c, KeyOrder[b]) > shared /\ Open(f, c, KeyOrder[b]) \in 1..Len(KeyOrder[b])
        BY <1>1, <1>3, <2>3, <2>4, SharedOpen, OpenIs DEF o, shared
    <2>6. Len(g[n].id) > shared /\ Prefix(g[n].id, shared) = Prefix(KeyOrder[b], shared)
        <3>1. shared \in 0..Open(f, c, KeyOrder[b]) /\ Open(f, c, KeyOrder[b]) \in 0..Len(KeyOrder[b])
            BY <1>2, <2>5
        <3> QED BY <2>2, <2>3, <2>5, <3>1, PrefixType, PrefixPrefix
    <2>7. Prefix(KeyOrder[b], shared) = Prefix(key, shared)
        <3>1. CASE shared = 0
            <4>1. Prefix(KeyOrder[b], 0) = <<>> /\ Prefix(key, 0) = <<>>
                BY <1>1, <2>3, PrefixType, EmptySeq DEF Paths
            <4> QED BY <3>1, <4>1
        <3>2. CASE shared > 0
            BY <1>2, <2>4, <3>2
        <3> QED BY <1>2, <3>1, <3>2
    <2>8. shared + 1 \in 1..Len(key) /\ shared \in 0..(shared + 1)
        BY <1>1, <1>2
    <2>9. Prefix(Prefix(key, shared + 1), shared) = Prefix(key, shared)
        BY <1>1, <2>8, PrefixPrefix
    <2>10. RowOn(key, shared + 1).id = Prefix(key, shared + 1) /\ Len(Prefix(key, shared + 1)) - 1 = shared
        BY <1>2, <1>13, <2>8
    <2> QED BY <1>2, <2>6, <2>7, <2>9, <2>10 DEF Follows
<1>19. Preorder(h)
    <2> SUFFICES ASSUME NEW x \in 1..(n + k - 1) PROVE Follows(h[x], h[x + 1])
        <3>1. Len(h) = n + k
            BY <1>7
        <3> QED BY <1>5, <1>6, <3>1 DEF Preorder
    <2>1. CASE x < n
        <3>1. x \in 1..(Len(g) - 1) /\ h[x] = g[x] /\ h[x + 1] = g[x + 1]
            BY <1>5, <1>6, <1>7, <2>1 DEF n
        <3> QED BY <3>1 DEF TreeOf, Preorder
    <2>2. CASE x = n
        <3>1. h[x] = g[n] /\ h[x + 1] = RowOn(key, shared + 1) /\ n > 0
            BY <1>4, <1>5, <1>6, <1>7, <2>2
        <3> QED BY <3>1, <1>18
    <2>3. CASE x > n
        <3>1. /\ x - n \in 1..k /\ x + 1 - n \in 1..k /\ x + 1 - n > 1
              /\ x + 1 - n - 1 = x - n
            BY <1>5, <1>6, <2>3
        <3>2. h[x] = RowOn(key, shared + (x - n)) /\ h[x + 1] = RowOn(key, shared + (x + 1 - n))
            BY <1>5, <1>6, <1>10, <2>3
        <3> DEFINE y == x + 1 - n
        <3>3. y \in 1..k /\ y > 1 /\ y - 1 = x - n
            BY <1>5, <3>1
        <3>4. h[x + 1] = RowOn(key, shared + y)
            BY <3>2
        <3> HIDE DEF y
        <3>5. Follows(RowOn(key, shared + (y - 1)), RowOn(key, shared + y))
            BY <3>3, <1>17
        <3> QED BY <3>2, <3>3, <3>4, <3>5
    <2> QED BY <1>5, <2>1, <2>2, <2>3
<1>20. EndsAt(ks, f, c, i + 1, h)
    <2> SUFFICES ASSUME NEW j \in sh, j =< i + 1, \A l \in sh : l =< i + 1 => l =< j
                 PROVE  h # <<>> /\ h[Len(h)].id = Prefix(KeyOrder[j], Open(f, c, KeyOrder[j]))
        BY DEF EndsAt, sh
    <2>1. j = i + 1
        BY <1>1, <1>11 DEF sh
    <2>2. Len(h) = n + k /\ n + k \in 1..(n + k)
        BY <1>5, <1>6, <1>7
    <2>3. h[n + k] = RowOn(key, o)
        <3>1. n + k - n = k /\ n + k > n /\ k \in 1..k /\ shared + k = o
            BY <1>2, <1>3, <1>4, <1>5, <1>6
        <3>2. h[n + k] = s[k]
            BY <1>5, <1>6, <1>7, <2>2, <3>1
        <3>3. s[k] = RowOn(key, shared + k)
            BY <1>4, <3>1
        <3> QED BY <3>1, <3>2, <3>3
    <2>4. h # <<>>
        BY <1>5, <1>6, <2>2
    <2> QED BY <1>3, <1>13, <2>1, <2>2, <2>3, <2>4 DEF key, o
<1>21. TreeOf(ks, f, c, i + 1, h)
    BY <1>7, <1>12, <1>15, <1>16, <1>19, <1>20 DEF TreeOf
<1> QED BY <1>21 DEF h, s, previous, key, sh

\* What build_rows returns.
LEMMA RowsTree ==
    ASSUME NEW ks, NEW f \in BOOLEAN, NEW c
    PROVE  TreeOf(ks, f, c, N, build_rows(ks, f, c))
<1> DEFINE sh == Shown(ks, f)
           s == [i \in DOMAIN KeyOrder |->
                    IF i \in sh THEN NewRows(Before(sh, i), KeyOrder[i], f, c) ELSE <<>>]
<1>1. N \in Nat /\ DOMAIN KeyOrder = 1..N /\ sh \in SUBSET (1..N)
    BY KeyTypes, ShownType
<1>2. ASSUME NEW i \in 1..N PROVE s[i] \in Seq(Rows)
    <2>1. s[i] = IF i \in sh THEN NewRows(Before(sh, i), KeyOrder[i], f, c) ELSE <<>>
        BY <1>1
    <2> HIDE DEF sh, s
    <2>2. Before(sh, i) \in Paths
        BY <1>1, BeforeType
    <2>3. NewRows(Before(sh, i), KeyOrder[i], f, c) \in Seq(Rows)
        BY <2>2, NewRowsAre
    <2>4. <<>> \in Seq(Rows)
        BY EmptySeq
    <2> QED BY <2>1, <2>3, <2>4
<1>3. s \in [1..N -> Seq(Rows)]
    BY <1>1, <1>2
<1>4. build_rows(ks, f, c) = FlattenSeq(s)
    BY DEF build_rows
<1>5. \A i \in 1..N : s[i] = IF i \in sh THEN NewRows(Before(sh, i), KeyOrder[i], f, c) ELSE <<>>
    BY <1>1
<1> HIDE DEF s
<1>6. PICK g \in [0..N -> Seq(Rows)] :
         /\ g[0] = <<>>
         /\ \A i \in 1..N : g[i] = g[i - 1] \o s[i]
         /\ FlattenSeq(s) = g[N]
    BY <1>1, <1>3, Flatten, Zenon
<1> DEFINE S == {i \in 0..N : TreeOf(ks, f, c, i, g[i])}
<1>7. 0 \in S
    <2>1. \A j \in sh : ~(j =< 0)
        BY <1>1
    <2>2. \A r : ~IsDrawn(ks, f, c, 0, r)
        BY <2>1 DEF IsDrawn
    <2>3. TreeOf(ks, f, c, 0, <<>>)
        BY <2>1, <2>2, EmptySeq DEF TreeOf, Complete, Distinct, FolderFirst, Preorder, EndsAt
    <2> QED BY <1>1, <1>6, <2>3
<1>8. ASSUME NEW i \in 0..(N - 1), i \in S PROVE i + 1 \in S
    <2>1. i + 1 \in 1..N /\ i + 1 \in 0..N
        BY <1>1
    <2>2. g[i + 1] = g[i] \o s[i + 1] /\ g[i] \in Seq(Rows) /\ TreeOf(ks, f, c, i, g[i])
        <3>1. g[i + 1] = g[(i + 1) - 1] \o s[i + 1]
            BY <1>6, <2>1
        <3>2. (i + 1) - 1 = i
            OBVIOUS
        <3> QED BY <1>8, <3>1, <3>2
    <2> HIDE DEF S
    <2>3. CASE i + 1 \notin sh
        <3>1. g[i + 1] = g[i]
            BY <1>5, <2>1, <2>2, <2>3, ConcatEmptySeq
        <3>2. TreeOf(ks, f, c, i + 1, g[i + 1])
            BY <2>2, <2>3, <3>1, StepHidden
        <3> QED BY <2>1, <3>2 DEF S
    <2>4. CASE i + 1 \in sh /\ Open(f, c, KeyOrder[i + 1]) > Shared(Before(sh, i + 1), KeyOrder[i + 1])
        <3>1. g[i + 1] = g[i] \o NewRows(Before(sh, i + 1), KeyOrder[i + 1], f, c)
            BY <1>5, <2>1, <2>2, <2>4
        <3>2. TreeOf(ks, f, c, i + 1, g[i + 1])
            BY <2>2, <2>4, <3>1, StepOpen
        <3> QED BY <2>1, <3>2 DEF S
    <2>5. CASE i + 1 \in sh /\ Open(f, c, KeyOrder[i + 1]) =< Shared(Before(sh, i + 1), KeyOrder[i + 1])
        <3>1. s[i + 1] = NewRows(Before(sh, i + 1), KeyOrder[i + 1], f, c)
            BY <1>5, <2>1, <2>5
        <3>2. s[i + 1] \in Seq(Rows) /\ Len(s[i + 1]) = 0
            <4>1. ~(Open(f, c, KeyOrder[i + 1]) > Shared(Before(sh, i + 1), KeyOrder[i + 1]))
                <5>1. Before(sh, i + 1) \in Paths /\ KeyOrder[i + 1] \in Paths /\ Len(KeyOrder[i + 1]) \in Nat \ {0}
                    BY <1>1, <2>1, BeforeType, KeyTypes
                <5> QED BY <2>5, <5>1, OpenIs, SharedIs
            <4>2. Before(sh, i + 1) \in Paths
                BY <1>1, <2>1, BeforeType
            <4> DEFINE new == NewRows(Before(sh, i + 1), KeyOrder[i + 1], f, c)
            <4>3. /\ new \in Seq(Rows)
                  /\ Len(new) = IF Open(f, c, KeyOrder[i + 1]) > Shared(Before(sh, i + 1), KeyOrder[i + 1])
                                THEN Open(f, c, KeyOrder[i + 1]) - Shared(Before(sh, i + 1), KeyOrder[i + 1])
                                ELSE 0
                BY <2>1, <4>2, NewRowsAre
            <4> QED BY <3>1, <4>1, <4>3
        <3>3. g[i + 1] = g[i]
            BY <2>2, <3>2, EmptySeq, ConcatEmptySeq
        <3>4. TreeOf(ks, f, c, i + 1, g[i + 1])
            BY <2>2, <2>5, <3>3, StepFolded
        <3> QED BY <2>1, <3>4 DEF S
    <2>6. \/ Open(f, c, KeyOrder[i + 1]) > Shared(Before(sh, i + 1), KeyOrder[i + 1])
          \/ Open(f, c, KeyOrder[i + 1]) =< Shared(Before(sh, i + 1), KeyOrder[i + 1])
        <3>1. Before(sh, i + 1) \in Paths /\ KeyOrder[i + 1] \in Paths /\ Len(KeyOrder[i + 1]) \in Nat \ {0}
            BY <1>1, <2>1, BeforeType, KeyTypes
        <3> QED BY <3>1, OpenIs, SharedIs
    <2> QED BY <2>3, <2>4, <2>5, <2>6
<1>9. 0..N \subseteq S
    <2>1. \A i \in 0..(N - 1) : i \in S => i + 1 \in S
        BY <1>8
    <2> HIDE DEF S
    <2> QED BY <1>1, <1>7, <2>1, Induction
<1>10. TreeOf(ks, f, c, N, g[N])
    BY <1>1, <1>9
<1> QED BY <1>4, <1>6, <1>10

\* The row of a shown key, or of a folder with one, that no folded folder hides.
InView(ks, f, c, r) ==
    \/ \E k \in ks : (f => k \in Matching) /\ ~Hidden(f, c, k) /\ r = Row(k, FALSE)
    \/ \E g \in Folders :
          /\ \E k \in ks : (f => k \in Matching) /\ InFolder(k, g)
          /\ ~Hidden(f, c, g) /\ r = Row(g, TRUE)

\* The rows are those of the shown keys and of their folders that no folded
\* folder hides.
LEMMA DrawnIs ==
    ASSUME NEW ks \in SUBSET Keys, NEW f \in BOOLEAN, NEW c, NEW r
    PROVE  IsDrawn(ks, f, c, N, r) <=> InView(ks, f, c, r)
<1> DEFINE sh == Shown(ks, f)
           AsKey == \E k \in ks : (f => k \in Matching) /\ ~Hidden(f, c, k) /\ r = Row(k, FALSE)
           Holds(g) == \E k \in ks : (f => k \in Matching) /\ InFolder(k, g)
           AsFolder == \E g \in Folders : Holds(g) /\ ~Hidden(f, c, g) /\ r = Row(g, TRUE)
<1>1. sh \in SUBSET (1..N) /\ N \in Nat
    BY ShownType, KeyTypes
<1>2. \A j \in sh : j =< N /\ KeyOrder[j] \in ks /\ (f => KeyOrder[j] \in Matching)
    BY <1>1 DEF Shown
<1>3. \A k \in ks : (f => k \in Matching) => \E j \in sh : k = KeyOrder[j]
    BY KeyTypes DEF Shown, Keys, Range
<1>4. ASSUME NEW j \in sh
      PROVE  /\ KeyOrder[j] \in Paths /\ Len(KeyOrder[j]) \in Nat \ {0}
             /\ Open(f, c, KeyOrder[j]) \in 1..Len(KeyOrder[j])
             /\ \A m \in 1..(Open(f, c, KeyOrder[j]) - 1) : ~is_folded(f, c, Prefix(KeyOrder[j], m))
             /\ Open(f, c, KeyOrder[j]) < Len(KeyOrder[j])
                   => is_folded(f, c, Prefix(KeyOrder[j], Open(f, c, KeyOrder[j])))
    BY <1>1, KeyTypes, OpenIs
<1>5. ASSUME IsDrawn(ks, f, c, N, r) PROVE AsKey \/ AsFolder
    <2>1. PICK j \in sh : \E m \in 1..Open(f, c, KeyOrder[j]) : r = RowOn(KeyOrder[j], m)
        BY <1>5 DEF IsDrawn
    <2>2. PICK m \in 1..Open(f, c, KeyOrder[j]) : r = RowOn(KeyOrder[j], m)
        BY <2>1
    <2> DEFINE key == KeyOrder[j]
               p == Prefix(key, m)
    <2>3. m \in 1..Len(key) /\ key \in Paths /\ Len(key) \in Nat
        BY <1>4
    <2>4. p \in Paths /\ Len(p) = m
        BY <2>3, PrefixType
    <2>5. ~Hidden(f, c, p)
        <3>1. ASSUME NEW l \in 1..(Len(p) - 1) PROVE ~is_folded(f, c, Prefix(p, l))
            <4>1. l \in 1..(Open(f, c, key) - 1) /\ l \in 0..m
                BY <1>4, <2>3, <2>4
            <4>2. Prefix(p, l) = Prefix(key, l)
                BY <2>3, <4>1, PrefixPrefix
            <4> QED BY <1>4, <4>1, <4>2
        <3> QED BY <3>1 DEF Hidden
    <2>6. CASE m = Len(key)
        <3>1. p = key
            BY <2>3, <2>6, PrefixWhole
        <3>2. (m < Len(key)) = FALSE
            BY <2>3, <2>6
        <3>3. r = Row(key, FALSE)
            BY <2>2, <3>1, <3>2 DEF RowOn
        <3> QED BY <1>2, <2>5, <3>1, <3>3
    <2>7. CASE m < Len(key)
        <3>1. r = Row(p, TRUE)
            BY <2>2, <2>7 DEF RowOn
        <3>2. p \in Folders
            <4>1. j \in 1..N /\ m \in 1..(Len(key) - 1)
                BY <1>1, <2>3, <2>7
            <4> QED BY <4>1, FolderOf
        <3>3. InFolder(key, p)
            BY <2>3, <2>7, InPrefix
        <3>4. Holds(p)
            BY <1>2, <3>3
        <3> HIDE DEF p, Holds
        <3> QED BY <2>5, <3>1, <3>2, <3>4
    <2> HIDE DEF AsKey, AsFolder, Holds, key, p
    <2>8. m = Len(key) \/ m < Len(key)
        BY <2>3
    <2> QED BY <2>6, <2>7, <2>8
<1>6. ASSUME AsKey PROVE IsDrawn(ks, f, c, N, r)
    <2>1. PICK k \in ks : (f => k \in Matching) /\ ~Hidden(f, c, k) /\ r = Row(k, FALSE)
        BY <1>6
    <2>2. PICK j \in sh : k = KeyOrder[j]
        BY <1>3, <2>1
    <2>3. ASSUME Open(f, c, k) < Len(k) PROVE FALSE
        BY <1>4, <2>1, <2>2, <2>3 DEF Hidden
    <2>4. Open(f, c, k) = Len(k) /\ Len(k) \in Nat \ {0} /\ k \in Paths
        BY <1>4, <2>2, <2>3
    <2>5. r = RowOn(k, Len(k))
        <3>1. (Len(k) < Len(k)) = FALSE
            BY <2>4
        <3> QED BY <2>1, <2>4, <3>1, PrefixWhole DEF RowOn
    <2> QED BY <1>2, <2>2, <2>4, <2>5 DEF IsDrawn
<1>7. ASSUME AsFolder PROVE IsDrawn(ks, f, c, N, r)
    <2>1. PICK g \in Folders : Holds(g) /\ ~Hidden(f, c, g) /\ r = Row(g, TRUE)
        BY <1>7
    <2>2. PICK k \in ks : (f => k \in Matching) /\ InFolder(k, g)
        BY <2>1
    <2>3. PICK j \in sh : k = KeyOrder[j]
        BY <1>3, <2>2
    <2>4. Row(g, TRUE) \in Rows
        BY DEF Rows
    <2>5. g \in Paths /\ Len(g) \in Nat \ {0}
        BY <2>4, RowsAre DEF Row
    <2>6. k \in Paths /\ Len(g) < Len(k) /\ Prefix(k, Len(g)) = g /\ Len(k) \in Nat
        BY <1>4, <2>2, <2>3 DEF InFolder
    <2>7. ASSUME Open(f, c, k) < Len(g) PROVE FALSE
        <3>1. Open(f, c, k) \in 1..(Len(g) - 1) /\ Open(f, c, k) < Len(k)
            BY <1>4, <2>3, <2>5, <2>6, <2>7
        <3>2. Prefix(k, Open(f, c, k)) = Prefix(g, Open(f, c, k))
            BY <2>5, <2>6, <3>1, PrefixPrefix
        <3>3. is_folded(f, c, Prefix(k, Open(f, c, k)))
            BY <1>4, <2>3, <3>1
        <3> QED BY <2>1, <3>1, <3>2, <3>3 DEF Hidden
    <2>8. Len(g) \in 1..Open(f, c, k)
        BY <1>4, <2>3, <2>5, <2>7
    <2>9. r = RowOn(k, Len(g))
        BY <2>1, <2>6 DEF RowOn
    <2> QED BY <1>2, <2>3, <2>8, <2>9 DEF IsDrawn
<1> HIDE DEF AsKey, AsFolder, Holds
<1>8. IsDrawn(ks, f, c, N, r) <=> AsKey \/ AsFolder
    BY <1>5, <1>6, <1>7
<1> QED BY <1>8 DEF AsKey, AsFolder, Holds, InView

\* What is in a folder stands together, right below its row.
LEMMA FoldersTogether ==
    ASSUME NEW g \in Seq(Rows), Distinct(g), FolderFirst(g), Preorder(g),
           NEW i \in DOMAIN g, NEW j \in DOMAIN g, g[i].dir, InFolder(g[j].id, g[i].id)
    PROVE  i < j /\ \A m \in (i + 1)..j : InFolder(g[m].id, g[i].id)
<1>1. Len(g) \in Nat /\ DOMAIN g = 1..Len(g)
    BY LenProperties
<1>2. i < j
    BY DEF FolderFirst
<1> DEFINE Out == {m \in (i + 1)..j : ~InFolder(g[m].id, g[i].id)}
<1>3. ASSUME Out # {} PROVE FALSE
    <2>1. Out \in SUBSET (0..j) /\ j \in Nat
        BY <1>1
    <2>2. Max(Out) \in Out /\ \A x \in Out : x =< Max(Out)
        BY <1>3, <2>1, HasMaximum
    <2> DEFINE m == Max(Out)
    <2>3. m \in (i + 1)..j /\ m # j /\ ~InFolder(g[m].id, g[i].id)
        BY <2>2
    <2> HIDE DEF m
    <2>4. m + 1 \in (i + 1)..j /\ m + 1 \notin Out
        <3>1. m + 1 \in (i + 1)..j
            BY <1>1, <2>3
        <3>2. m \in Nat /\ \A x \in Out : x =< m
            BY <1>1, <2>2, <2>3 DEF m
        <3> HIDE DEF Out
        <3> QED BY <3>1, <3>2
    <2>5. InFolder(g[m + 1].id, g[i].id)
        BY <2>4
    <2>6. m \in 1..(Len(g) - 1) /\ m + 1 \in DOMAIN g /\ m \in DOMAIN g
        BY <1>1, <2>3, <2>4
    <2>7. Follows(g[m], g[m + 1])
        BY <2>6 DEF Preorder
    <2>8. g[m] \in Rows /\ g[m + 1] \in Rows /\ g[i] \in Rows
        BY <1>1, <2>6, ElementOfSeq
    <2> DEFINE a == g[m].id
               b == g[m + 1].id
               f == g[i].id
               up == Len(b) - 1
    <2>9. /\ a \in Paths /\ b \in Paths /\ f \in Paths
          /\ Len(a) \in Nat \ {0} /\ Len(b) \in Nat \ {0} /\ Len(f) \in Nat \ {0}
        BY <2>8, RowsAre
    <2>10. up =< Len(a) /\ Prefix(a, up) = Prefix(b, up) /\ (up = Len(a) => g[m].dir)
        BY <2>7 DEF Follows
    <2>11. Len(f) < Len(b) /\ Prefix(b, Len(f)) = f
        BY <2>5 DEF InFolder
    <2> HIDE DEF a, b, f
    <2>12. Prefix(a, Len(f)) = f /\ Len(f) =< Len(a)
        <3>1. up \in 0..Len(a) /\ up =< Len(b) /\ Len(f) \in 0..up
            BY <2>9, <2>10, <2>11
        <3>2. Prefix(a, Len(f)) = Prefix(b, Len(f))
            BY <2>9, <2>10, <3>1, ShorterPrefix
        <3> QED BY <2>9, <2>10, <2>11, <3>1, <3>2
    <2>13. ~(Len(f) < Len(a))
        BY <2>3, <2>12 DEF InFolder, a, f
    <2>14. Len(f) = Len(a) /\ up = Len(a)
        BY <2>9, <2>10, <2>11, <2>12, <2>13
    <2>15. a = f
        BY <2>9, <2>12, <2>14, PrefixWhole
    <2>16. g[m].dir = TRUE /\ g[i].dir = TRUE
        BY <2>8, <2>10, <2>14, RowsAre
    <2>17. g[m] = g[i]
        BY <2>8, <2>15, <2>16, RowsAre DEF a, f
    <2>18. m = i
        BY <2>6, <2>17 DEF Distinct
    <2> QED BY <1>1, <2>3, <2>18
<1> QED BY <1>2, <1>3

\* TreeIsComplete, for any keys that were listed, filter and folded folders.
LEMMA TreeComplete ==
    ASSUME keys \in SUBSET Keys, filter \in BOOLEAN
    PROVE  TreeIsComplete
<1> DEFINE rs == build_rows(keys, filter, collapsed)
           ks == {k \in keys : filter => k \in Matching}
           fs == {f \in Folders : \E k \in ks : InFolder(k, f)}
           KeyRows == {Row(k, FALSE) : k \in {p \in ks : ~Hidden(filter, collapsed, p)}}
           FolderRows == {Row(f, TRUE) : f \in {p \in fs : ~Hidden(filter, collapsed, p)}}
<1>1. TreeOf(keys, filter, collapsed, N, rs)
    BY RowsTree
<1> HIDE DEF rs
<1>2. ASSUME NEW r PROVE IsDrawn(keys, filter, collapsed, N, r) <=> r \in KeyRows \cup FolderRows
    <2>1. IsDrawn(keys, filter, collapsed, N, r) <=> InView(keys, filter, collapsed, r)
        BY DrawnIs
    <2>2. InView(keys, filter, collapsed, r) <=> r \in KeyRows \cup FolderRows
        BY DEF InView
    <2> QED BY <2>1, <2>2
<1>3. KeyRows \cup FolderRows \subseteq Rows
    BY DEF Rows
<1>4. {rs[i] : i \in DOMAIN rs} = KeyRows \cup FolderRows
    <2> HIDE DEF KeyRows, FolderRows
    <2> QED BY <1>1, <1>2, <1>3 DEF TreeOf, Complete
<1>5. ASSUME NEW i \in DOMAIN rs, NEW j \in DOMAIN rs
      PROVE  /\ rs[i] = rs[j] => i = j
             /\ rs[i].dir /\ InFolder(rs[j].id, rs[i].id) =>
                   i < j /\ \A m \in (i + 1)..j : InFolder(rs[m].id, rs[i].id)
    BY <1>1, FoldersTogether DEF TreeOf, Distinct
<1> HIDE DEF KeyRows, FolderRows
<1>6. {rs[i] : i \in DOMAIN rs} = KeyRows \cup FolderRows
      /\ \A i, j \in DOMAIN rs :
              /\ rs[i] = rs[j] => i = j
              /\ rs[i].dir /\ InFolder(rs[j].id, rs[i].id) =>
                    i < j /\ \A m \in (i + 1)..j : InFolder(rs[m].id, rs[i].id)
    BY <1>4, <1>5
<1> QED BY <1>6 DEF TreeIsComplete, rs, KeyRows, FolderRows

-----------------------------------------------------------------------------
(* The handlers.                                                           *)

\* The mode a handler's calls run in.
InMode ==
    /\ mode \in Modes /\ step \in Steps
    /\ step \in {"reveal", "copy", "edit", "gone", "reload", "saved", "remove", "removed"}
          => mode = "Normal"
    /\ step = "check" => mode = "Add"
    /\ step = "save" => mode \in {"Add", "Edit", "ConfirmOverwrite"}

\* A fetch, an edit and the question before a delete are about the selected
\* row.
AtRow ==
    /\ step \in {"reveal", "copy", "edit"} => target = current_key
    /\ mode \in {"Edit", "ConfirmDelete"} => current_key = opened

\* An add that is about to save was answered before, so that nothing is
\* queued, and its key was not there.
Saving ==
    step = "save" /\ mode = "Add" =>
        queued = <<>> /\ (target \in db => target \in fresh)

\* Only the first queued request can be a set that the user was not asked
\* about, of a key that is not there.
Queued ==
    /\ queued \in Seq(Range(queued))
    /\ \A i \in DOMAIN queued :
          queued[i].op = "set" /\ ~queued[i].asked => i = 1 /\ queued[i].key \notin db

Inv == InMode /\ AtRow /\ ShownIsSelected /\ Saving /\ Queued

LEMMA InvInit == Init => Inv
<1> SUFFICES ASSUME Init PROVE Inv
    OBVIOUS
<1>1. InMode /\ AtRow /\ Saving
    BY DEF Init, InMode, AtRow, Saving, Modes, Steps
<1>2. ShownIsSelected
    BY DEF Init, ShownIsSelected
<1>3. Queued
    BY DEF Init, Queued
<1> QED BY <1>1, <1>2, <1>3 DEF Inv

LEMMA InModeNext == InMode /\ [Next]_vars => InMode'
<1> SUFFICES ASSUME InMode, [Next]_vars PROVE InMode'
    OBVIOUS
<1> USE DEF InMode, Modes, Steps
<1>1. CASE Frame \/ Move \/ fold \/ apply_filter \/ clear_filter \/ expire
    BY <1>1 DEF Frame, Move, fold, apply_filter, clear_filter, expire, Idle
<1>2. CASE toggle_reveal \/ copy_value \/ start_edit
    BY <1>2 DEF toggle_reveal, copy_value, start_edit, Calls, Idle
<1>3. CASE Fetch
    BY <1>3 DEF Fetch
<1>4. CASE fail \/ reload
    BY <1>4 DEF fail, reload, refresh, Idle
<1>5. CASE start_add \/ cancel_form \/ submit_form
    BY <1>5 DEF start_add, cancel_form, submit_form, Idle
<1>6. CASE CheckName
    BY <1>6 DEF CheckName, refresh
<1>7. ASSUME NEW yes \in BOOLEAN, ConfirmOverwrite(yes) \/ ConfirmDelete(yes) PROVE InMode'
    BY <1>7 DEF ConfirmOverwrite, ConfirmDelete, Idle
<1>8. CASE save_form \/ ShowSaved
    BY <1>8 DEF save_form, ShowSaved, refresh
<1>9. CASE AskDelete \/ do_delete \/ ShowDeleted
    BY <1>9 DEF AskDelete, do_delete, ShowDeleted, Idle
<1>10. CASE Elsewhere \/ Drain \/ UNCHANGED vars
    BY <1>10 DEF Elsewhere, Drain, vars
<1> QED BY <1>1, <1>2, <1>3, <1>4, <1>5, <1>6, <1>7, <1>8, <1>9, <1>10 DEF Next, Handle

\* While rows and the index stay, so does what is selected.
LEMMA RowStays ==
    ASSUME UNCHANGED <<rows, selected>>
    PROVE  selected_row' = selected_row /\ current_key' = current_key
<1>1. selected_row' = selected_row
    BY DEF selected_row
<1> QED BY <1>1 DEF current_key

LEMMA AtRowNext == InMode /\ AtRow /\ [Next]_vars => AtRow'
<1> SUFFICES ASSUME InMode, AtRow, [Next]_vars PROVE AtRow'
    OBVIOUS
<1> USE DEF InMode, AtRow
<1>1. CASE Frame \/ expire
    BY <1>1, RowStays DEF Frame, expire, tree
<1>2. CASE Move \/ fold \/ apply_filter \/ clear_filter
    BY <1>2 DEF Move, fold, apply_filter, clear_filter, Idle
<1>3. CASE toggle_reveal \/ copy_value \/ start_edit
    BY <1>3, RowStays DEF toggle_reveal, copy_value, start_edit, Calls, Idle, tree
<1>4. CASE Fetch
    BY <1>4, RowStays DEF Fetch, tree
<1>5. CASE fail \/ reload
    BY <1>5 DEF fail, reload, refresh, Idle
<1>6. CASE start_add \/ cancel_form \/ submit_form
    BY <1>6, RowStays DEF start_add, cancel_form, submit_form, Idle, tree
<1>7. CASE CheckName
    BY <1>7 DEF CheckName, refresh
<1>8. ASSUME NEW yes \in BOOLEAN, ConfirmOverwrite(yes) \/ ConfirmDelete(yes) PROVE AtRow'
    BY <1>8 DEF ConfirmOverwrite, ConfirmDelete, Idle
<1>9. CASE save_form \/ ShowSaved
    BY <1>9, RowStays DEF save_form, ShowSaved, refresh
<1>10. CASE AskDelete \/ do_delete \/ ShowDeleted
    BY <1>10, RowStays DEF AskDelete, do_delete, ShowDeleted, Idle, tree
<1>11. CASE Elsewhere \/ Drain \/ UNCHANGED vars
    BY <1>11, RowStays DEF Elsewhere, Drain, vars, tree
<1> QED BY <1>1, <1>2, <1>3, <1>4, <1>5, <1>6, <1>7, <1>8, <1>9, <1>10, <1>11 DEF Next, Handle

\* What every event begins with hides a value whose row is no longer selected.
LEMMA SyncHides ==
    ASSUME ShownIsSelected, sync_selection
    PROVE  ShownIsSelected'
<1> SUFFICES ASSUME revealed' # None, selection' = selected_row' PROVE current_key' = revealed'
    BY DEF ShownIsSelected
<1>1. revealed' = revealed /\ selected_row' = selected_row /\ current_key = revealed
    BY DEF sync_selection, ShownIsSelected
<1> QED BY <1>1 DEF current_key

LEMMA ShownNext == AtRow /\ ShownIsSelected /\ [Next]_vars => ShownIsSelected'
<1> SUFFICES ASSUME AtRow, ShownIsSelected, [Next]_vars PROVE ShownIsSelected'
    OBVIOUS
<1>1. CASE sync_selection
    BY <1>1, SyncHides
<1>2. CASE revealed' = None
    BY <1>2 DEF ShownIsSelected
<1>3. CASE UNCHANGED <<rows, selected, selection, revealed>>
    BY <1>3, RowStays DEF ShownIsSelected
<1>4. CASE copy_value
    <2>1. selection' = selected_row /\ revealed' = IF selection = selected_row THEN revealed ELSE None
        BY <1>4 DEF copy_value, Calls
    <2> QED BY <2>1, SyncHides DEF sync_selection
<1>5. CASE Fetch
    <2>1. CASE step = "reveal" /\ revealed' = target
        BY <1>5, <2>1, RowStays DEF Fetch, tree, AtRow, ShownIsSelected
    <2>2. CASE revealed' = revealed
        BY <1>3, <1>5, <2>2 DEF Fetch, tree
    <2> QED BY <1>5, <2>1, <2>2 DEF Fetch
<1> QED BY <1>1, <1>2, <1>3, <1>4, <1>5
        DEF Next, Handle, Frame, Move, fold, apply_filter, clear_filter, toggle_reveal, start_edit,
            fail, reload, refresh, expire, start_add, cancel_form, submit_form, CheckName,
            ConfirmOverwrite, ConfirmDelete, save_form, ShowSaved, AskDelete, do_delete, ShowDeleted,
            Elsewhere, Drain, vars, tree

\* The change of another client leaves an empty queue empty, and a longer one
\* as it was, but for what the user could not have been asked.
LEMMA LatelyQueued ==
    ASSUME NEW n \in Nat, DOMAIN queued = 1..n, Elsewhere
    PROVE  /\ queued' \in Seq(Range(queued')) /\ DOMAIN queued' = 1..n
           /\ \A i \in 1..n : /\ queued'[i].op = queued[i].op
                               /\ queued'[i].key = queued[i].key
                               /\ queued'[i].asked = (queued[i].asked \/ queued[i].key \in db' \ db)
<1> DEFINE Lately(i) == [op |-> queued[i].op, key |-> queued[i].key,
                         asked |-> queued[i].asked \/ queued[i].key \in db' \ db]
<1>1. queued' = [i \in 1..n |-> Lately(i)]
    BY DEF Elsewhere
<1>2. \A i \in 1..n : /\ Lately(i).op = queued[i].op /\ Lately(i).key = queued[i].key
                      /\ Lately(i).asked = (queued[i].asked \/ queued[i].key \in db' \ db)
    OBVIOUS
<1> HIDE DEF Lately
<1>3. DOMAIN queued' = 1..n /\ \A i \in 1..n : queued'[i] = Lately(i) /\ queued'[i] \in Range(queued')
    BY <1>1 DEF Range
<1>4. queued' \in Seq(Range(queued'))
    <2> DEFINE S == Range(queued')
    <2>1. \A i \in 1..n : Lately(i) \in S
        BY <1>3
    <2> HIDE DEF S
    <2>2. [i \in 1..n |-> Lately(i)] \in [1..n -> S]
        BY <2>1
    <2>3. [i \in 1..n |-> Lately(i)] \in Seq(S)
        BY <2>2, SeqDef
    <2> QED BY <1>1, <2>3 DEF S
<1> QED BY <1>2, <1>3, <1>4

LEMMA LatelyEmpty ==
    ASSUME queued = <<>>, Elsewhere
    PROVE  queued' = <<>>
<1>1. DOMAIN queued = 1..0
    OBVIOUS
<1>2. queued' \in Seq(Range(queued')) /\ DOMAIN queued' = 1..0
    BY <1>1, LatelyQueued
<1>3. Len(queued') = 0
    BY <1>2
<1> QED BY <1>2, <1>3, EmptySeq

LEMMA SavingNext == InMode /\ Saving /\ [Next]_vars => Saving'
<1> SUFFICES ASSUME InMode, Saving, [Next]_vars, step' = "save", mode' = "Add"
             PROVE  queued' = <<>> /\ (target' \in db' => target' \in fresh')
    BY DEF Saving
<1> USE DEF InMode
<1>1. CASE Handle /\ NoteFresh
    <2>1. CASE CheckName
        <3>1. Answered /\ UNCHANGED store /\ target' \notin db
            BY <2>1 DEF CheckName, refresh
        <3> QED BY <3>1 DEF Answered, store
    <2>2. CASE ~CheckName
        BY <1>1, <2>2
           DEF Handle, Frame, Move, fold, apply_filter, clear_filter, toggle_reveal, copy_value,
               start_edit, Calls, Fetch, fail, reload, refresh, expire, start_add, cancel_form,
               submit_form, ConfirmOverwrite, ConfirmDelete, save_form, ShowSaved, AskDelete,
               do_delete, ShowDeleted, Idle
    <2> QED BY <2>1, <2>2
<1>2. CASE (Elsewhere \/ Drain) /\ NoteFresh
    <2>1. UNCHANGED <<step, mode, target>> /\ Elsewhere
        BY <1>2 DEF Elsewhere, Drain, Saving
    <2>2. fresh' = fresh \cup (db' \ db)
        BY <1>2, <2>1 DEF NoteFresh
    <2>3. queued = <<>> /\ (target \in db => target \in fresh)
        BY <2>1 DEF Saving
    <2>4. queued' = <<>>
        BY <2>1, <2>3, LatelyEmpty
    <2> QED BY <2>1, <2>2, <2>3, <2>4
<1>3. CASE UNCHANGED vars
    BY <1>3 DEF vars, store, Saving
<1> QED BY <1>1, <1>2, <1>3 DEF Next

\* A request goes to the end of the queue.
LEMMA AppendQueued ==
    ASSUME Queued, NEW x, queued' = Append(queued, x), db' = db,
           x.op = "set" /\ ~x.asked => queued = <<>> /\ x.key \notin db
    PROVE  Queued'
<1> DEFINE S == Range(queued) \cup {x}
<1>1. queued \in Seq(S) /\ x \in S
    <2>1. DOMAIN queued = 1..Len(queued) /\ Len(queued) \in Nat
        BY DEF Queued
    <2> QED BY <2>1 DEF Queued
<1>2. /\ queued' \in Seq(S) /\ Len(queued') = Len(queued) + 1 /\ Len(queued) \in Nat
      /\ \A i \in 1..Len(queued) : queued'[i] = queued[i]
      /\ queued'[Len(queued) + 1] = x
    BY <1>1, AppendProperties
<1>3. queued' \in Seq(Range(queued'))
    BY <1>2 DEF Range
<1>4. ASSUME NEW i \in DOMAIN queued', queued'[i].op = "set", ~queued'[i].asked
      PROVE  i = 1 /\ queued'[i].key \notin db'
    <2>1. CASE i \in DOMAIN queued
        BY <1>1, <1>2, <1>4, <2>1 DEF Queued
    <2>2. CASE i = Len(queued) + 1
        <3>1. queued = <<>> /\ x.key \notin db
            BY <1>2, <1>4, <2>2
        <3> QED BY <1>2, <2>2, <3>1
    <2>3. DOMAIN queued' = 1..(Len(queued) + 1) /\ DOMAIN queued = 1..Len(queued)
        BY <1>1, <1>2
    <2> QED BY <1>2, <2>1, <2>2, <2>3
<1> QED BY <1>3, <1>4 DEF Queued

LEMMA QueuedNext == InMode /\ Saving /\ Queued /\ [Next]_vars => Queued'
<1> SUFFICES ASSUME InMode, Saving, Queued, [Next]_vars PROVE Queued'
    OBVIOUS
<1>1. CASE queued' = <<>>
    BY <1>1 DEF Queued
<1>2. CASE UNCHANGED <<queued, db>>
    BY <1>2 DEF Queued, Range
<1>3. CASE save_form
    <2>1. CASE queued' = Append(queued, [op |-> "set", key |-> target,
                                         asked |-> mode # "Add" \/ target \in fresh])
               /\ db' = db
        <3> DEFINE x == [op |-> "set", key |-> target, asked |-> mode # "Add" \/ target \in fresh]
        <3>1. x.key = target /\ x.op = "set" /\ x.asked = (mode # "Add" \/ target \in fresh)
            OBVIOUS
        <3>2. ~x.asked => queued = <<>> /\ x.key \notin db
            BY <1>3, <3>1 DEF save_form, Saving
        <3> HIDE DEF x
        <3>3. queued' = Append(queued, x) /\ db' = db
            BY <2>1 DEF x
        <3> QED BY <3>2, <3>3, AppendQueued
    <2> QED BY <1>1, <1>2, <1>3, <2>1 DEF save_form, Unanswered, Answered
<1>4. CASE do_delete
    <2>1. CASE queued' = Append(queued, [op |-> "delete", key |-> target, asked |-> TRUE]) /\ db' = db
        BY <2>1, AppendQueued
    <2> QED BY <1>1, <1>2, <1>4, <2>1 DEF do_delete, Unanswered, Answered, store
<1>5. CASE Elsewhere
    <2>1. DOMAIN queued = 1..Len(queued) /\ Len(queued) \in Nat
        BY DEF Queued
    <2>2. /\ queued' \in Seq(Range(queued')) /\ DOMAIN queued' = DOMAIN queued
          /\ \A i \in DOMAIN queued :
                 /\ queued'[i].op = queued[i].op /\ queued'[i].key = queued[i].key
                 /\ queued'[i].asked = (queued[i].asked \/ queued[i].key \in db' \ db)
        BY <1>5, <2>1, LatelyQueued
    <2> QED BY <2>2 DEF Queued
<1>6. CASE Drain /\ queued' = Tail(queued)
    <2>1. /\ Tail(queued) \in Seq(Range(queued)) /\ Len(Tail(queued)) = Len(queued) - 1
          /\ \A i \in 1..(Len(queued) - 1) : Tail(queued)[i] = queued[i + 1]
          /\ Len(queued) \in Nat /\ DOMAIN queued = 1..Len(queued)
        BY <1>6, HeadTailProperties DEF Drain, Queued
    <2>2. queued' \in Seq(Range(queued'))
        <3> DEFINE t == queued'
        <3>1. t \in Seq(Range(queued))
            BY <1>6, <2>1
        <3> HIDE DEF t
        <3>2. t \in Seq(Range(t))
            BY <3>1 DEF Range
        <3> QED BY <3>2 DEF t
    <2>3. ASSUME NEW i \in DOMAIN queued', queued'[i].op = "set" PROVE queued'[i].asked
        <3>1. i + 1 \in DOMAIN queued /\ i + 1 # 1 /\ queued'[i] = queued[i + 1]
            BY <1>6, <2>1
        <3> QED BY <2>3, <3>1 DEF Queued
    <2> QED BY <2>2, <2>3 DEF Queued
<1> QED BY <1>1, <1>2, <1>3, <1>4, <1>5, <1>6
        DEF Next, Handle, Frame, Move, fold, apply_filter, clear_filter, toggle_reveal, copy_value,
            start_edit, Calls, Fetch, fail, reload, refresh, expire, start_add, cancel_form,
            submit_form, CheckName, ConfirmOverwrite, ConfirmDelete, ShowSaved, AskDelete,
            ShowDeleted, Drain, vars, store

-----------------------------------------------------------------------------
(* Types.                                                                  *)

\* The key a handler is about, once it has one.
Targeted ==
    /\ step \in {"reveal", "copy", "edit", "gone", "check", "save", "saved", "remove", "removed"}
          => target \in Keys
    /\ mode = "ConfirmOverwrite" => target \in Keys
    /\ mode \in {"Edit", "ConfirmDelete"} => opened \in Keys

LEMMA FirstIs ==
    ASSUME NEW rs \in Seq(Rows), NEW js \in SUBSET (DOMAIN rs), js # {}
    PROVE  Min(js) \in js /\ rs[Min(js)] \in Rows /\ <<rs[Min(js)]>> \in Seq(Rows)
<1>1. js \subseteq Nat
    BY LenProperties
<1>2. Min(js) \in js
    BY <1>1, HasMinimum
<1> QED BY <1>2, ElementOfSeq, LenProperties

\* What is selected is a row, and a key if it is no folder.
LEMMA SelectedType ==
    ASSUME rows \in Seq(Rows), selected \in 1..(IF rows = <<>> THEN 1 ELSE Len(rows))
    PROVE  /\ selected_row \in Rows \cup {None}
           /\ selected_row # None => selected \in DOMAIN rows /\ selected_row = rows[selected]
           /\ current_key \in Keys \cup {None}
           /\ current_key # None => selected_row = Row(current_key, FALSE)
<1>1. Len(rows) \in Nat /\ DOMAIN rows = 1..Len(rows)
    BY LenProperties
<1>2. rows # <<>> => selected \in DOMAIN rows /\ rows[selected] \in Rows
    BY <1>1, ElementOfSeq
<1>3. selected_row \in Rows \cup {None}
    BY <1>2 DEF selected_row
<1>4. selected_row # None => selected \in DOMAIN rows /\ selected_row = rows[selected]
    BY <1>2 DEF selected_row
<1>5. ASSUME NEW r \in Rows, ~r.dir PROVE r.id \in Keys /\ r = Row(r.id, FALSE)
    BY <1>5 DEF Rows, Row
<1>6. None \notin Rows /\ None \notin Keys
    BY TuiAssumption
<1>7. CASE selected_row = None \/ selected_row.dir
    BY <1>3, <1>4, <1>7 DEF current_key
<1>8. CASE ~(selected_row = None \/ selected_row.dir)
    <2>1. current_key = selected_row.id
        BY <1>8 DEF current_key
    <2>2. selected_row \in Rows /\ ~selected_row.dir
        BY <1>3, <1>8
    <2> QED BY <1>3, <1>4, <1>5, <2>1, <2>2
<1> QED BY <1>7, <1>8

LEMMA RowsType ==
    ASSUME NEW ks, NEW f \in BOOLEAN, NEW c
    PROVE  build_rows(ks, f, c) \in Seq(Rows)
BY RowsTree DEF TreeOf

LEMMA ReselectType ==
    ASSUME NEW rs \in Seq(Rows), NEW row,
           rows \in Seq(Rows), selected \in 1..(IF rows = <<>> THEN 1 ELSE Len(rows))
    PROVE  Reselect(row, rs) \in 1..(IF rs = <<>> THEN 1 ELSE Len(rs))
<1>1. Len(rs) \in Nat /\ DOMAIN rs = 1..Len(rs) /\ Len(rows) \in Nat /\ (rs # <<>> => Len(rs) # 0)
    BY LenProperties, EmptySeq
<1>2. selected \in Nat \ {0}
    BY <1>1
<1>3. CASE IndexIn(row, rs) # {}
    <2>1. Reselect(row, rs) \in IndexIn(row, rs)
        BY <1>3 DEF Reselect
    <2>2. Reselect(row, rs) \in DOMAIN rs
        BY <2>1 DEF IndexIn
    <2> QED BY <1>1, <2>2, EmptySeq
<1>4. CASE IndexIn(row, rs) = {}
    <2>1. Reselect(row, rs) = Clamped(selected, rs)
        BY <1>4 DEF Reselect
    <2> QED BY <1>1, <1>2, <2>1 DEF Clamped
<1> QED BY <1>3, <1>4

\* The rows of a deleted one's level right below and right above it, and a
\* sequence of the first one.
After(g, s) ==
    {j \in (s + 1)..Len(g) : Depth(g[j]) = Depth(g[s]) /\
        \A m \in (s + 1)..(j - 1) : Depth(g[m]) > Depth(g[s])}
Above(g, s) ==
    {j \in 1..(s - 1) : Depth(g[j]) = Depth(g[s]) /\
        \A m \in (j + 1)..(s - 1) : Depth(g[m]) > Depth(g[s])}
At(g, js) == IF js = {} THEN <<>> ELSE <<g[Min(js)]>>

LEMMA AtIs ==
    ASSUME NEW g \in Seq(Rows), NEW js \in SUBSET (DOMAIN g)
    PROVE  /\ At(g, js) \in Seq(Rows)
           /\ js = {} => Len(At(g, js)) = 0
           /\ js # {} => Len(At(g, js)) = 1 /\ Min(js) \in js /\ At(g, js)[1] = g[Min(js)]
BY FirstIs, EmptySeq DEF At

\* The rows to select after a delete begin with the neighbours.
LEMMA LandingIs ==
    ASSUME NEW g \in Seq(Rows), NEW s \in DOMAIN g, ~g[s].dir
    PROVE  /\ After(g, s) \in SUBSET (DOMAIN g) /\ Above(g, s) \in SUBSET (DOMAIN g)
           /\ \E around, other \in Seq(Rows) :
                 delete_landing(g, s) = At(g, After(g, s)) \o At(g, Above(g, s)) \o around \o other
<1> DEFINE gone == g[s]
           Around == [m \in 1..(Len(gone.id) - 1) |->
                         Row(Prefix(gone.id, Len(gone.id) - m), TRUE)]
           Other == {j \in 1..(s - 1) :
                       /\ ~IsPrefix(g[j].id, gone.id)
                       /\ \A m \in (j + 1)..(s - 1) : IsPrefix(g[m].id, gone.id)}
<1>1. Len(g) \in Nat /\ DOMAIN g = 1..Len(g)
    BY LenProperties
<1>2. After(g, s) \in SUBSET (DOMAIN g) /\ Above(g, s) \in SUBSET (DOMAIN g) /\ Other \in SUBSET (DOMAIN g)
    BY <1>1 DEF After, Above
<1>3. gone \in Rows
    BY <1>1, ElementOfSeq
<1>4. gone.id \in Keys /\ Len(gone.id) \in Nat \ {0}
    BY <1>3, RowsAre DEF Rows, Row
<1>5. Around \in Seq(Rows)
    <2>1. ASSUME NEW m \in 1..(Len(gone.id) - 1) PROVE Row(Prefix(gone.id, Len(gone.id) - m), TRUE) \in Rows
        <3>1. Len(gone.id) - m \in 1..(Len(gone.id) - 1)
            BY <1>4
        <3>2. Prefix(gone.id, Len(gone.id) - m) \in Folders
            BY <1>4, <3>1 DEF Folders
        <3> QED BY <3>2 DEF Rows
    <2> DEFINE n == Len(gone.id) - 1
    <2>2. n \in Nat
        BY <1>4
    <2>3. Around \in [1..n -> Rows]
        BY <2>1
    <2> HIDE DEF n, Around
    <2> QED BY <2>2, <2>3, SeqDef
<1>6. At(g, Other) \in Seq(Rows)
    BY <1>2, AtIs
<1>7. delete_landing(g, s) = At(g, After(g, s)) \o At(g, Above(g, s)) \o Around \o At(g, Other)
    BY DEF delete_landing, At, After, Above
<1> HIDE DEF Around, Other
<1> QED BY <1>2, <1>5, <1>6, <1>7

LEMMA LandingType ==
    ASSUME NEW g \in Seq(Rows), NEW s \in DOMAIN g, ~g[s].dir
    PROVE  delete_landing(g, s) \in Seq(Rows)
<1>1. At(g, After(g, s)) \in Seq(Rows) /\ At(g, Above(g, s)) \in Seq(Rows)
    BY LandingIs, AtIs
<1>2. PICK around \in Seq(Rows), other \in Seq(Rows) :
         delete_landing(g, s) = At(g, After(g, s)) \o At(g, Above(g, s)) \o around \o other
    BY LandingIs
<1>3. At(g, After(g, s)) \o At(g, Above(g, s)) \in Seq(Rows)
    BY <1>1, ConcatProperties
<1>4. At(g, After(g, s)) \o At(g, Above(g, s)) \o around \in Seq(Rows)
    BY <1>3, ConcatProperties
<1> QED BY <1>2, <1>4, ConcatProperties

Requests == [op : {"set", "delete"}, key : Keys, asked : BOOLEAN]

StoreType ==
    /\ db \subseteq Keys /\ queued \in Seq(Requests) /\ changes \in 0..MaxChanges

TreeType ==
    /\ keys \subseteq Keys /\ rows \in Seq(Rows)
    /\ filter \in BOOLEAN /\ collapsed \subseteq Folders
    /\ selected \in 1..(IF rows = <<>> THEN 1 ELSE Len(rows))

HandlerType ==
    /\ selection \in Rows \cup {None} /\ revealed \in Keys \cup {None}
    /\ mode \in Modes /\ step \in Steps
    /\ target \in Keys \cup {None} /\ opened \in Keys \cup {None}
    /\ landing \in Seq(Rows) /\ listed \in BOOLEAN
    /\ Targeted

Types == StoreType /\ TreeType /\ HandlerType /\ fresh \subseteq Keys

LEMMA TypesInit == Init => Types
<1> SUFFICES ASSUME Init PROVE Types
    OBVIOUS
<1>1. StoreType
    BY TuiAssumption, EmptySeq DEF Init, StoreType
<1>2. TreeType
    <2>1. build_rows(keys, FALSE, {}) \in Seq(Rows)
        BY RowsType
    <2>2. Len(rows) \in Nat /\ (rows # <<>> => Len(rows) # 0)
        BY <2>1, LenProperties, EmptySeq DEF Init
    <2>3. rows \in Seq(Rows)
        BY <2>1 DEF Init
    <2>5. 1 \in 1..(IF rows = <<>> THEN 1 ELSE Len(rows))
        BY <2>2
    <2>4. filter \in BOOLEAN /\ keys \subseteq Keys /\ collapsed \subseteq Folders /\ selected = 1
        BY DEF Init
    <2> QED BY <2>3, <2>4, <2>5 DEF TreeType
<1>3. HandlerType
    BY EmptySeq DEF Init, HandlerType, Targeted, Modes, Steps
<1> QED BY <1>1, <1>2, <1>3 DEF Init, Types

LEMMA StoreNext == Types /\ [Next]_vars => StoreType'
<1> SUFFICES ASSUME Types, [Next]_vars PROVE StoreType'
    OBVIOUS
<1> USE DEF StoreType
<1>1. CASE UNCHANGED store
    BY <1>1 DEF store, Types
<1>2. ASSUME NEW op \in {"set", "delete"}, NEW asked \in BOOLEAN, target \in Keys, Unanswered(op, asked)
      PROVE  StoreType'
    <2>1. [op |-> op, key |-> target, asked |-> asked] \in Requests
        BY <1>2 DEF Requests
    <2> QED BY <1>2, <2>1, AppendProperties DEF Unanswered, Types
<1>3. CASE save_form
    <2>1. target \in Keys
        BY <1>3 DEF save_form, Types, HandlerType, Targeted
    <2>2. (mode # "Add" \/ target \in fresh) \in BOOLEAN
        OBVIOUS
    <2> QED BY <1>2, <1>3, <2>1, <2>2 DEF save_form, Types
<1>4. CASE do_delete
    <2>1. target \in Keys
        BY <1>4 DEF do_delete, Types, HandlerType, Targeted
    <2> QED BY <1>1, <1>2, <1>4, <2>1 DEF do_delete, Types
<1>5. CASE Elsewhere
    <2>1. db' \subseteq Keys /\ changes' \in 0..MaxChanges
        BY <1>5, TuiAssumption DEF Elsewhere, Types
    <2>2. queued' \in Seq(Requests)
        <3> DEFINE Lately(i) == [op |-> queued[i].op, key |-> queued[i].key,
                                 asked |-> queued[i].asked \/ queued[i].key \in db' \ db]
        <3>1. queued \in Seq(Requests)
            BY DEF Types
        <3>2. DOMAIN queued = 1..Len(queued) /\ Len(queued) \in Nat
              /\ \A i \in 1..Len(queued) : queued[i] \in Requests
            BY <3>1, LenProperties, ElementOfSeq
        <3>3. \A i \in 1..Len(queued) : Lately(i) \in Requests
            BY <3>2 DEF Requests
        <3>4. queued' = [i \in 1..Len(queued) |-> Lately(i)]
            BY <1>5, <3>2 DEF Elsewhere
        <3> HIDE DEF Lately, Requests
        <3>5. queued' \in [1..Len(queued) -> Requests]
            BY <3>3, <3>4
        <3> QED BY <3>2, <3>5, SeqDef
    <2> QED BY <2>1, <2>2 DEF Types
<1>6. CASE Drain
    <2>1. /\ Tail(queued) \in Seq(Requests) /\ Head(queued) \in Requests
        BY <1>6, HeadTailProperties DEF Drain, Types
    <2>2. Head(queued).key \in Keys
        BY <2>1 DEF Requests
    <2> QED BY <1>6, <2>1, <2>2, EmptySeq DEF Drain, Types
<1>7. CASE UNCHANGED vars
    BY <1>1, <1>7 DEF vars
<1> QED BY <1>1, <1>3, <1>4, <1>5, <1>6, <1>7
        DEF Next, Handle, Frame, Move, fold, apply_filter, clear_filter, toggle_reveal, copy_value,
            start_edit, Calls, Fetch, fail, reload, refresh, expire, start_add, cancel_form,
            submit_form, CheckName, ConfirmOverwrite, ConfirmDelete, ShowSaved, AskDelete, ShowDeleted

LEMMA RefreshType ==
    ASSUME Types, NEW row, NEW next, refresh(row, next)
    PROVE  TreeType' /\ listed' \in BOOLEAN
<1>1. CASE UNCHANGED <<keys, rows, selected>>
    BY <1>1 DEF refresh, Types, TreeType
<1>2. CASE /\ keys' = db /\ rows' = build_rows(db, filter, collapsed)
           /\ selected' = Reselect(row, rows')
    <2>1. rows' \in Seq(Rows)
        BY <1>2, RowsType DEF Types, TreeType
    <2>2. selected' \in 1..(IF rows' = <<>> THEN 1 ELSE Len(rows'))
        BY <1>2, <2>1, ReselectType DEF Types, TreeType
    <2> QED BY <1>2, <2>1, <2>2 DEF refresh, Types, StoreType, TreeType
<1>3. listed' \in BOOLEAN
    BY DEF refresh
<1> QED BY <1>1, <1>2, <1>3 DEF refresh

LEMMA TreeNext == Types /\ [Next]_vars => TreeType'
<1> SUFFICES ASSUME Types, [Next]_vars PROVE TreeType'
    OBVIOUS
<1>1. CASE UNCHANGED tree
    BY <1>1 DEF tree, Types, TreeType
<1>2. CASE Move
    <2>1. UNCHANGED <<keys, rows, filter, collapsed>> /\ selected' \in DOMAIN rows
        BY <1>2 DEF Move
    <2> QED BY <2>1, LenProperties, EmptySeq DEF Types, TreeType
<1>3. ASSUME NEW row, keys' = keys, filter' \in BOOLEAN, collapsed' \subseteq Folders,
             rows' = build_rows(keys, filter', collapsed'), selected' = Reselect(row, rows')
      PROVE  TreeType'
    <2>1. rows' \in Seq(Rows)
        BY <1>3, RowsType
    <2>2. selected' \in 1..(IF rows' = <<>> THEN 1 ELSE Len(rows'))
        BY <1>3, <2>1, ReselectType DEF Types, TreeType
    <2> QED BY <1>3, <2>1, <2>2 DEF Types, TreeType
<1>4. CASE fold
    <2>1. rows[selected] \in Rows
        BY <1>4, LenProperties, ElementOfSeq DEF fold, Types, TreeType
    <2>2. rows[selected].id \in Folders
        BY <1>4, <2>1 DEF fold, Rows, Row
    <2>3. collapsed' \subseteq Folders /\ filter' \in BOOLEAN /\ keys' = keys
        BY <1>4, <2>2 DEF fold, Types, TreeType
    <2>4. filter' = filter /\ rows' = build_rows(keys, filter, collapsed')
          /\ selected' = Reselect(selected_row, rows')
        BY <1>4 DEF fold
    <2> QED BY <1>3, <2>3, <2>4
<1>5. CASE apply_filter
    <2>1. /\ filter' \in BOOLEAN /\ keys' = keys /\ collapsed' = collapsed
          /\ rows' = build_rows(keys, filter', collapsed)
        BY <1>5 DEF apply_filter
    <2>2. collapsed' \subseteq Folders /\ rows' = build_rows(keys, filter', collapsed')
        BY <2>1 DEF Types, TreeType
    <2>3. CASE selected' = Reselect(selected_row, rows')
        BY <1>3, <2>1, <2>2, <2>3
    <2> DEFINE Secrets == {i \in DOMAIN rows' : ~rows'[i].dir}
               First == {i \in Secrets : \A j \in Secrets : i <= j}
    <2>4. CASE Secrets # {} /\ selected' = CHOOSE i \in Secrets : \A j \in Secrets : i <= j
        <3>1. rows' \in Seq(Rows)
            BY <2>1, RowsType
        <3>2. Secrets \subseteq Nat
            BY <3>1, LenProperties
        <3>3. Min(Secrets) \in Secrets /\ \A j \in Secrets : Min(Secrets) =< j
            BY <2>4, <3>2, HasMinimum
        <3> HIDE DEF Secrets
        <3>4. selected' \in Secrets
            BY <2>4, <3>3
        <3>5. selected' \in DOMAIN rows' /\ Len(rows') \in Nat /\ DOMAIN rows' = 1..Len(rows')
            BY <3>1, <3>4, LenProperties DEF Secrets
        <3> QED BY <2>1, <2>2, <3>1, <3>5, EmptySeq DEF Types, TreeType
    <2> QED BY <1>5, <2>3, <2>4 DEF apply_filter
<1>6. CASE clear_filter
    <2>1. /\ filter' = FALSE /\ keys' = keys /\ collapsed' \subseteq Folders
          /\ rows' = build_rows(keys, filter', collapsed') /\ selected' = Reselect(selected_row, rows')
        BY <1>6 DEF clear_filter, expand_to, Types, TreeType
    <2>2. filter' \in BOOLEAN
        BY <2>1
    <2> QED BY <1>3, <2>1, <2>2
<1>7. CASE fail \/ reload \/ CheckName \/ ShowSaved
    BY <1>1, <1>7, RefreshType DEF fail, reload, CheckName, ShowSaved
<1>8. CASE save_form
    BY <1>8 DEF save_form, expand_to, Types, TreeType, Unanswered
<1>9. CASE ShowDeleted
    <2>1. CASE UNCHANGED <<keys, rows, selected>>
        BY <1>9, <2>1 DEF ShowDeleted, Types, TreeType
    <2>2. CASE /\ keys' = db /\ rows' = build_rows(db, filter, collapsed)
               /\ \E row : selected' = Reselect(row, rows')
        <3>1. rows' \in Seq(Rows)
            BY <2>2, RowsType DEF Types, TreeType
        <3>2. selected' \in 1..(IF rows' = <<>> THEN 1 ELSE Len(rows'))
            BY <2>2, <3>1, ReselectType DEF Types, TreeType
        <3> QED BY <1>9, <2>2, <3>1, <3>2 DEF ShowDeleted, Types, StoreType, TreeType
    <2> QED BY <1>9, <2>1, <2>2 DEF ShowDeleted
<1> QED BY <1>1, <1>2, <1>4, <1>5, <1>6, <1>7, <1>8, <1>9
        DEF Next, Handle, Frame, toggle_reveal, copy_value, start_edit, Calls, Fetch, expire,
            start_add, cancel_form, submit_form, ConfirmOverwrite, ConfirmDelete, AskDelete,
            do_delete, Elsewhere, Drain, vars

LEMMA HandlerNext == Types /\ InMode /\ AtRow /\ [Next]_vars => HandlerType'
<1> SUFFICES ASSUME Types, InMode, AtRow, [Next]_vars PROVE HandlerType'
    OBVIOUS
<1> DEFINE Ids == Keys \cup {None}
<1>1. selected_row \in Rows \cup {None} /\ current_key \in Ids
    BY SelectedType DEF Types, TreeType
<1>2. revealed \in Ids /\ target \in Ids /\ opened \in Ids /\ selection \in Rows \cup {None}
    BY DEF Types, HandlerType
<1>3. sync_selection => selection' \in Rows \cup {None} /\ revealed' \in Ids
    BY <1>1, <1>2 DEF sync_selection
<1>4. None \in Ids /\ None \notin Keys /\ <<>> \in Seq(Rows)
    BY TuiAssumption, EmptySeq
<1> USE DEF HandlerType, Targeted, Modes, Steps
<1>5. CASE UNCHANGED vars
    BY <1>5 DEF vars, Types
<1>6. CASE Frame \/ Move \/ fold \/ apply_filter \/ clear_filter
    BY <1>3, <1>6 DEF Frame, Move, fold, apply_filter, clear_filter, Idle, Types
<1>7. CASE toggle_reveal \/ copy_value \/ start_edit
    BY <1>1, <1>2, <1>4, <1>7 DEF toggle_reveal, copy_value, start_edit, Calls, Idle, Types
<1>8. CASE Fetch
    <2>1. /\ UNCHANGED <<selection, landing, listed>>
          /\ step \in {"reveal", "copy", "edit"} /\ step' \in {"idle", "gone"}
          /\ mode' = mode \/ mode' = "Edit"
        BY <1>8 DEF Fetch
    <2>2. target \in Keys /\ mode' \in Modes
        BY <2>1 DEF Types
    <2>3. /\ revealed' = target \/ revealed' = revealed
          /\ target' = None \/ target' = target
          /\ opened' = None \/ opened' = target \/ opened' = opened
        BY <1>8 DEF Fetch
    <2>4. Targeted'
        <3>1. mode = "Normal"
            BY <2>1 DEF InMode
        <3> QED BY <1>8, <2>2, <3>1 DEF Fetch, Types
    <2> QED BY <1>2, <1>4, <2>1, <2>2, <2>3, <2>4 DEF Types
<1>9. CASE fail \/ reload \/ ShowSaved
    <2>1. CASE reload /\ step = "idle"
        BY <1>2, <1>3, <1>4, <2>1 DEF reload, Idle, refresh, Types
    <2>2. CASE fail \/ ShowSaved \/ (reload /\ step # "idle")
        <3>1. /\ step' = "idle" /\ revealed' = None /\ (target' = target \/ target' = None)
              /\ UNCHANGED <<selection, mode, landing, opened>> /\ listed' \in BOOLEAN
              /\ step \in {"gone", "reload", "saved"}
            BY <2>2, RefreshType DEF fail, reload, ShowSaved, refresh, Idle
        <3>2. mode # "ConfirmOverwrite"
            BY <3>1 DEF InMode
        <3> QED BY <1>2, <1>4, <3>1, <3>2 DEF Types
    <2> QED BY <1>9, <2>1, <2>2
<1>10. CASE expire \/ start_add \/ cancel_form
    BY <1>1, <1>3, <1>4, <1>10 DEF expire, start_add, cancel_form, Idle, Types
<1>11. CASE submit_form
    BY <1>1, <1>2, <1>3, <1>4, <1>11 DEF submit_form, Types, AtRow
<1>12. CASE CheckName
    BY <1>2, <1>4, <1>12, RefreshType DEF CheckName, refresh, Types
<1>13. ASSUME NEW yes \in BOOLEAN, ConfirmOverwrite(yes) PROVE HandlerType'
    BY <1>2, <1>3, <1>4, <1>13 DEF ConfirmOverwrite, Idle, Types
<1>14. CASE save_form
    BY <1>2, <1>4, <1>14 DEF save_form, Types
<1>15. CASE AskDelete
    BY <1>1, <1>2, <1>3, <1>15 DEF AskDelete, Idle, Types
<1>16. ASSUME NEW yes \in BOOLEAN, ConfirmDelete(yes) PROVE HandlerType'
    <2>1. current_key \in Keys
        BY <1>16 DEF ConfirmDelete, Idle, Types, AtRow
    <2>2. selected \in DOMAIN rows /\ ~rows[selected].dir
        <3>1. current_key # None
            BY <1>4, <2>1
        <3>2. selected_row # None /\ selected_row = Row(current_key, FALSE)
            BY <3>1, SelectedType DEF Types, TreeType, current_key
        <3>3. selected \in DOMAIN rows /\ rows[selected] = Row(current_key, FALSE)
            BY <3>2, SelectedType DEF Types, TreeType
        <3> QED BY <3>3 DEF Row
    <2>3. delete_landing(rows, selected) \in Seq(Rows)
        BY <2>2, LandingType DEF Types, TreeType
    <2> QED BY <1>2, <1>3, <1>4, <1>16, <2>1, <2>3 DEF ConfirmDelete, Idle, Types
<1>17. CASE do_delete \/ ShowDeleted
    <2>1. /\ revealed' = None \/ revealed' = revealed
          /\ step' = "idle" \/ (step' \in {"gone", "removed"} /\ target' = target)
          /\ target' = None \/ target' = target
          /\ landing' = landing \/ landing' = <<>>
          /\ UNCHANGED <<mode, selection, opened>> /\ step \in {"remove", "removed"}
        BY <1>17 DEF do_delete, ShowDeleted
    <2>2. listed' \in BOOLEAN
        BY <1>17 DEF do_delete, ShowDeleted, Types
    <2>3. mode # "ConfirmOverwrite"
        BY <2>1 DEF InMode
    <2> QED BY <1>2, <1>4, <2>1, <2>2, <2>3 DEF Types
<1>18. CASE Elsewhere \/ Drain
    BY <1>18 DEF Elsewhere, Drain, Types
<1> QED BY <1>5, <1>6, <1>7, <1>8, <1>9, <1>10, <1>11, <1>12, <1>13, <1>14, <1>15, <1>16, <1>17, <1>18
        DEF Next, Handle

LEMMA TypesNext == Types /\ InMode /\ AtRow /\ [Next]_vars => Types'
<1> SUFFICES ASSUME Types, InMode, AtRow, [Next]_vars PROVE Types'
    OBVIOUS
<1>1. StoreType' /\ TreeType' /\ HandlerType'
    BY StoreNext, TreeNext, HandlerNext
<1>2. fresh' \subseteq Keys
    BY <1>1 DEF Next, NoteFresh, vars, Types, StoreType
<1> QED BY <1>1, <1>2 DEF Types

-----------------------------------------------------------------------------
(* Where the selection lands.                                              *)

\* What a delete selects afterwards was worked out on the rows that are still
\* there; what a save unfolds is not folded again before the list comes.
Lands ==
    /\ step \in {"remove", "removed"} =>
          target = current_key /\ landing = delete_landing(rows, selected)
    /\ step = "saved" =>
          /\ filter => target \in Matching
          /\ \A f \in collapsed : ~InFolder(target, f)

LEMMA LandsNext == InMode /\ AtRow /\ Lands /\ [Next]_vars => Lands'
<1> SUFFICES ASSUME InMode, AtRow, Lands, [Next]_vars PROVE Lands'
    OBVIOUS
<1> USE DEF Lands
<1>1. CASE step' \notin {"remove", "removed", "saved"}
    BY <1>1
<1>2. CASE save_form
    BY <1>2 DEF save_form, expand_to
<1>3. CASE do_delete /\ step' = "removed"
    <2>1. UNCHANGED <<rows, selected, target, landing>> /\ step = "remove"
        BY <1>3 DEF do_delete, tree
    <2> QED BY <1>3, <2>1, RowStays
<1>4. ASSUME NEW yes \in BOOLEAN, ConfirmDelete(yes), step' = "remove" PROVE Lands'
    <2>1. UNCHANGED <<rows, selected>> /\ target' = current_key
          /\ landing' = delete_landing(rows, selected)
        BY <1>4 DEF ConfirmDelete, Idle, tree
    <2> QED BY <1>4, <2>1, RowStays
<1>5. CASE UNCHANGED <<tree, step, target, landing>>
    BY <1>5, RowStays DEF tree
<1>6. CASE Elsewhere \/ Drain \/ UNCHANGED vars
    BY <1>5, <1>6 DEF Elsewhere, Drain, vars
<1>7. ASSUME NEW yes \in BOOLEAN, ConfirmOverwrite(yes) \/ ConfirmDelete(yes) PROVE Lands'
    BY <1>1, <1>4, <1>7 DEF ConfirmOverwrite, ConfirmDelete, Idle
<1>8. CASE Frame \/ Move \/ fold \/ apply_filter \/ clear_filter \/ expire
    BY <1>1, <1>8 DEF Frame, Move, fold, apply_filter, clear_filter, expire, Idle
<1>9. CASE toggle_reveal \/ copy_value \/ start_edit \/ Fetch
    BY <1>1, <1>9 DEF toggle_reveal, copy_value, start_edit, Calls, Fetch, Idle
<1>10. CASE fail \/ reload \/ start_add \/ cancel_form \/ submit_form
    BY <1>1, <1>10 DEF fail, reload, refresh, start_add, cancel_form, submit_form, Idle
<1>11. CASE CheckName \/ ShowSaved \/ AskDelete \/ ShowDeleted
    BY <1>1, <1>11 DEF CheckName, ShowSaved, refresh, AskDelete, ShowDeleted, Idle
<1>12. CASE do_delete
    BY <1>1, <1>3, <1>12 DEF do_delete
<1> QED BY <1>2, <1>6, <1>7, <1>8, <1>9, <1>10, <1>11, <1>12 DEF Next, Handle

\* A row in view is there, and is what is selected if it is asked for.
LEMMA InViewThere ==
    ASSUME NEW ks \in SUBSET Keys, NEW f \in BOOLEAN, NEW c, NEW r \in Rows
    PROVE  InView(ks, f, c, r) <=> IndexIn(r, build_rows(ks, f, c)) # {}
<1> DEFINE rs == build_rows(ks, f, c)
<1>1. TreeOf(ks, f, c, N, rs)
    BY RowsTree
<1> HIDE DEF rs
<1>2. InView(ks, f, c, r) <=> IsDrawn(ks, f, c, N, r)
    BY DrawnIs
<1>3. InView(ks, f, c, r) <=> \E x \in DOMAIN rs : rs[x] = r
    BY <1>1, <1>2 DEF TreeOf, Complete
<1> QED BY <1>3 DEF rs, IndexIn

LEMMA ReselectFinds ==
    ASSUME NEW rs, NEW r, IndexIn(r, rs) # {}
    PROVE  Reselect(r, rs) \in DOMAIN rs /\ rs[Reselect(r, rs)] = r
<1>1. Reselect(r, rs) \in IndexIn(r, rs)
    BY DEF Reselect
<1> QED BY <1>1 DEF IndexIn

LEMMA SaveLands ==
    ASSUME Types, Types', Lands, [Next]_vars, step = "saved", step' = "idle", listed', target \in keys'
    PROVE  rows' # <<>> /\ rows'[selected'] = Row(target, FALSE)
<1> DEFINE r == Row(target, FALSE)
<1>1. ShowSaved
    BY DEF Next, Handle, Frame, Move, fold, apply_filter, clear_filter, toggle_reveal, copy_value,
           start_edit, Calls, Fetch, fail, reload, expire, start_add, cancel_form, submit_form,
           CheckName, ConfirmOverwrite, ConfirmDelete, save_form, AskDelete, do_delete, ShowDeleted,
           Idle, Elsewhere, Drain, vars
<1>2. keys' = db /\ rows' = build_rows(db, filter, collapsed) /\ selected' = Reselect(r, rows')
    BY <1>1 DEF ShowSaved, refresh
<1>3. db \in SUBSET Keys /\ filter \in BOOLEAN /\ target \in Keys /\ rows' \in Seq(Rows)
    BY <1>2 DEF Types, StoreType, TreeType, HandlerType, Targeted
<1>4. r \in Rows
    BY <1>3 DEF Rows
<1>5. ASSUME Hidden(filter, collapsed, target) PROVE FALSE
    <2>1. PICK i \in 1..(Len(target) - 1) : Prefix(target, i) \in collapsed
        BY <1>5 DEF Hidden, is_folded
    <2>2. target \in Paths /\ Len(target) \in Nat
        BY <1>3, KeyTypes DEF Keys, Range
    <2>3. InFolder(target, Prefix(target, i))
        BY <2>2, InPrefix
    <2> QED BY <2>1, <2>3 DEF Lands
<1>6. InView(db, filter, collapsed, r)
    BY <1>2, <1>5 DEF InView, Lands
<1> HIDE DEF r
<1>7. IndexIn(r, rows') # {}
    BY <1>2, <1>3, <1>4, <1>6, InViewThere
<1>8. rows'[selected'] = r /\ selected' \in DOMAIN rows'
    BY <1>2, <1>7, ReselectFinds
<1>9. rows' # <<>>
    BY <1>8
<1> QED BY <1>8, <1>9 DEF r

\* Rows that are not above a folder's level share what leads to that level.
LEMMA SameParent ==
    ASSUME NEW g \in Seq(Rows), Preorder(g), NEW i \in DOMAIN g, NEW j \in DOMAIN g, i =< j,
           NEW d \in Nat \ {0}, \A m \in i..j : d =< Depth(g[m])
    PROVE  \A m \in i..j : Prefix(g[m].id, d - 1) = Prefix(g[i].id, d - 1)
<1> DEFINE n == j - i
           S == {t \in 0..n : Prefix(g[i + t].id, d - 1) = Prefix(g[i].id, d - 1)}
<1>1. Len(g) \in Nat /\ DOMAIN g = 1..Len(g) /\ i \in Nat /\ j \in Nat /\ n \in Nat
    BY LenProperties
<1>2. 0 \in S
    BY <1>1
<1>3. ASSUME NEW t \in 0..(n - 1), t \in S PROVE t + 1 \in S
    <2> DEFINE a == g[i + t]
               b == g[i + (t + 1)]
               up == Len(b.id) - 1
    <2>1. /\ i + t \in 1..(Len(g) - 1) /\ i + (t + 1) = (i + t) + 1
          /\ i + t \in i..j /\ i + (t + 1) \in i..j /\ i + (t + 1) \in DOMAIN g /\ i + t \in DOMAIN g
        BY <1>1
    <2>2. Follows(a, b)
        BY <2>1 DEF Preorder
    <2>3. a \in Rows /\ b \in Rows
        BY <2>1, ElementOfSeq, <1>1
    <2>4. a.id \in Paths /\ b.id \in Paths /\ Len(a.id) \in Nat \ {0} /\ Len(b.id) \in Nat \ {0}
        BY <2>3, RowsAre
    <2>5. d =< Len(b.id) /\ d =< Len(a.id)
        BY <2>1 DEF Depth
    <2> HIDE DEF a, b
    <2>6. up =< Len(a.id) /\ Prefix(a.id, up) = Prefix(b.id, up)
        BY <2>2 DEF Follows
    <2>7. up \in 0..Len(a.id) /\ up =< Len(b.id) /\ d - 1 \in 0..up
        BY <2>4, <2>5, <2>6
    <2>8. Prefix(a.id, d - 1) = Prefix(b.id, d - 1)
        BY <2>4, <2>6, <2>7, ShorterPrefix
    <2>9. Prefix(a.id, d - 1) = Prefix(g[i].id, d - 1)
        BY <1>3 DEF a
    <2> QED BY <1>1, <2>8, <2>9 DEF b
<1>4. 0..n \subseteq S
    <2>1. \A t \in 0..(n - 1) : t \in S => t + 1 \in S
        BY <1>3
    <2> HIDE DEF S
    <2> QED BY <1>1, <1>2, <2>1, Induction
<1>5. ASSUME NEW m \in i..j PROVE Prefix(g[m].id, d - 1) = Prefix(g[i].id, d - 1)
    <2>1. m - i \in 0..n /\ i + (m - i) = m
        BY <1>1
    <2>2. m - i \in S
        BY <1>4, <2>1
    <2> HIDE DEF n
    <2> QED BY <2>1, <2>2
<1> QED BY <1>5

LEMMA DepthIs ==
    ASSUME NEW g \in Seq(Rows), NEW m \in DOMAIN g
    PROVE  /\ g[m] \in Rows /\ g[m].id \in Paths
           /\ Depth(g[m]) \in Nat \ {0} /\ Depth(g[m]) = Len(g[m].id)
<1>1. g[m] \in Rows
    BY LenProperties, ElementOfSeq
<1> QED BY <1>1, RowsAre DEF Depth

\* Between a key's row and another one of its folder, nothing is above them.
LEMMA Between ==
    ASSUME NEW ks \in SUBSET Keys, NEW f \in BOOLEAN, NEW c, NEW g, TreeOf(ks, f, c, N, g),
           NEW s \in DOMAIN g, NEW x \in DOMAIN g, ~g[s].dir, Parent(g[x]) = Parent(g[s])
    PROVE  /\ Depth(g[x]) = Depth(g[s])
           /\ \A m \in (s..x) \cup (x..s) : Depth(g[s]) =< Depth(g[m])
<1> DEFINE key == g[s].id
           d == Depth(g[s])
           P == Prefix(key, d - 1)
<1>1. g \in Seq(Rows) /\ Distinct(g) /\ FolderFirst(g) /\ Preorder(g) /\ Complete(ks, f, c, N, g)
    BY DEF TreeOf
<1>2. Len(g) \in Nat /\ DOMAIN g = 1..Len(g)
    BY <1>1, LenProperties
<1>3. \A m \in DOMAIN g : /\ g[m] \in Rows /\ g[m].id \in Paths
                          /\ Depth(g[m]) \in Nat \ {0} /\ Depth(g[m]) = Len(g[m].id)
    BY <1>1, DepthIs
<1>4. d \in Nat \ {0} /\ d = Len(key) /\ key \in Paths /\ P \in Paths /\ Len(P) = d - 1
    BY <1>3, PrefixType
<1>5. Prefix(g[x].id, Len(g[x].id) - 1) = P
    BY <1>4 DEF Parent
<1>6. Len(g[x].id) = d
    <2>1. Len(Prefix(g[x].id, Len(g[x].id) - 1)) = Len(g[x].id) - 1
        BY <1>3, PrefixType
    <2> HIDE DEF P, d, key
    <2> QED BY <1>3, <1>4, <1>5, <2>1
<1>7. \A m \in (s..x) \cup (x..s) : m \in DOMAIN g
    BY <1>2
<1>8. CASE d = 1
    <2> HIDE DEF d, P
    <2>1. \A m \in (s..x) \cup (x..s) : d =< Depth(g[m])
        BY <1>3, <1>7, <1>8
    <2> QED BY <1>3, <1>6, <2>1 DEF d
<1>9. CASE d # 1
    <2>1. InView(ks, f, c, g[s])
        BY <1>1, DrawnIs DEF Complete
    <2>2. PICK k \in ks : (f => k \in Matching) /\ ~Hidden(f, c, k) /\ g[s] = Row(k, FALSE)
        BY <2>1 DEF InView, Row
    <2>3. k = key /\ key \in Keys
        BY <2>2 DEF Row
    <2>4. P \in Folders
        <3>1. d - 1 \in 1..(Len(key) - 1)
            <4> HIDE DEF d, key
            <4> QED BY <1>4, <1>9
        <3>2. key \in Keys
            BY <2>3
        <3> QED BY <3>1, <3>2 DEF Folders
    <2>5. InFolder(key, P)
        BY <1>4 DEF InFolder
    <2>6. ~Hidden(f, c, P)
        <3>1. ASSUME NEW l \in 1..(Len(P) - 1) PROVE ~is_folded(f, c, Prefix(P, l))
            <4>1. l \in 1..(Len(key) - 1) /\ l \in 0..(d - 1) /\ d - 1 \in 0..Len(key)
                BY <1>4
            <4>2. Prefix(P, l) = Prefix(key, l)
                BY <1>4, <4>1, PrefixPrefix
            <4> QED BY <2>2, <2>3, <4>1, <4>2 DEF Hidden
        <3> QED BY <3>1 DEF Hidden
    <2>7. InView(ks, f, c, Row(P, TRUE)) /\ Row(P, TRUE) \in Rows
        BY <2>2, <2>3, <2>4, <2>5, <2>6 DEF InView, Rows
    <2>8. PICK p \in DOMAIN g : g[p] = Row(P, TRUE)
        BY <1>1, <2>7, DrawnIs DEF Complete
    <2>9. g[p].dir /\ g[p].id = P
        BY <2>8 DEF Row
    <2>10. InFolder(g[s].id, g[p].id) /\ InFolder(g[x].id, g[p].id)
        BY <1>4, <1>5, <1>6, <2>5, <2>9 DEF InFolder
    <2>11. /\ p < s /\ \A m \in (p + 1)..s : InFolder(g[m].id, g[p].id)
           /\ p < x /\ \A m \in (p + 1)..x : InFolder(g[m].id, g[p].id)
        BY <1>1, <2>9, <2>10, FoldersTogether
    <2>12. ASSUME NEW m \in (s..x) \cup (x..s) PROVE d =< Depth(g[m])
        <3>1. InFolder(g[m].id, g[p].id)
            BY <1>2, <2>11
        <3>2. Len(P) < Len(g[m].id)
            BY <2>9, <3>1 DEF InFolder
        <3> HIDE DEF d, P
        <3> QED BY <1>3, <1>4, <1>7, <3>2
    <2> QED BY <1>3, <1>6, <2>12
<1> QED BY <1>8, <1>9

\* The first row to select after a delete is the neighbour below, else the one
\* above.
LEMMA LandingFirst ==
    ASSUME NEW g \in Seq(Rows), NEW s \in DOMAIN g, ~g[s].dir,
           After(g, s) # {} \/ Above(g, s) # {}
    PROVE  /\ 1 \in DOMAIN delete_landing(g, s)
           /\ \E a \in After(g, s) \cup Above(g, s) : delete_landing(g, s)[1] = g[a]
<1> DEFINE A == At(g, After(g, s))
           B == At(g, Above(g, s))
<1>1. After(g, s) \in SUBSET (DOMAIN g) /\ Above(g, s) \in SUBSET (DOMAIN g)
    BY LandingIs
<1>2. PICK around \in Seq(Rows), other \in Seq(Rows) :
         delete_landing(g, s) = A \o B \o around \o other
    BY LandingIs
<1>3. /\ A \in Seq(Rows) /\ B \in Seq(Rows)
      /\ After(g, s) = {} => Len(A) = 0
      /\ After(g, s) # {} => Len(A) = 1 /\ Min(After(g, s)) \in After(g, s) /\ A[1] = g[Min(After(g, s))]
      /\ Above(g, s) # {} => Len(B) = 1 /\ Min(Above(g, s)) \in Above(g, s) /\ B[1] = g[Min(Above(g, s))]
    BY <1>1, AtIs
<1> HIDE DEF A, B
<1>4. /\ A \o B \in Seq(Rows) /\ Len(A \o B) \in Nat \ {0}
      /\ \E a \in After(g, s) \cup Above(g, s) : (A \o B)[1] = g[a]
    <2>1. /\ A \o B \in Seq(Rows) /\ Len(A \o B) = Len(A) + Len(B) /\ Len(A) \in Nat /\ Len(B) \in Nat
          /\ \A i \in 1..(Len(A) + Len(B)) : (A \o B)[i] = IF i <= Len(A) THEN A[i] ELSE B[i - Len(A)]
        BY <1>3, ConcatProperties, LenProperties
    <2>2. CASE After(g, s) # {}
        <3>1. (A \o B)[1] = A[1]
            BY <1>3, <2>1, <2>2
        <3> QED BY <1>3, <2>1, <2>2, <3>1
    <2>3. CASE After(g, s) = {}
        <3>1. (A \o B)[1] = B[1]
            BY <1>3, <2>1, <2>3
        <3> QED BY <1>3, <2>1, <2>3, <3>1
    <2> QED BY <2>2, <2>3
<1>5. ASSUME NEW p \in Seq(Rows), NEW q \in Seq(Rows), Len(p) \in Nat \ {0}
      PROVE  p \o q \in Seq(Rows) /\ Len(p \o q) \in Nat \ {0} /\ (p \o q)[1] = p[1]
    <2>1. /\ p \o q \in Seq(Rows) /\ Len(p \o q) = Len(p) + Len(q) /\ Len(q) \in Nat
          /\ \A i \in 1..(Len(p) + Len(q)) : (p \o q)[i] = IF i <= Len(p) THEN p[i] ELSE q[i - Len(p)]
        BY ConcatProperties, LenProperties
    <2> QED BY <1>5, <2>1
<1> DEFINE C == A \o B
           D == C \o around
           L == D \o other
<1>6. D \in Seq(Rows) /\ Len(D) \in Nat \ {0} /\ D[1] = C[1]
    BY <1>4, <1>5
<1>7. L \in Seq(Rows) /\ Len(L) \in Nat \ {0} /\ L[1] = C[1]
    <2> HIDE DEF D
    <2> QED BY <1>5, <1>6
<1>8. 1 \in DOMAIN L
    <2> HIDE DEF L
    <2> QED BY <1>7, LenProperties
<1>9. delete_landing(g, s) = L
    BY <1>2
<1> HIDE DEF L
<1> QED BY <1>4, <1>7, <1>8, <1>9

\* A key's row has a neighbour if its folder has another row, and its
\* neighbours are in its folder.
LEMMA Neighbours ==
    ASSUME NEW g \in Seq(Rows), Preorder(g), NEW s \in DOMAIN g
    PROVE  /\ \A x \in DOMAIN g :
                 /\ x # s /\ Depth(g[x]) = Depth(g[s])
                 /\ \A m \in (s..x) \cup (x..s) : Depth(g[s]) =< Depth(g[m])
                 => After(g, s) # {} \/ Above(g, s) # {}
           /\ \A a \in After(g, s) \cup Above(g, s) :
                 /\ a \in DOMAIN g /\ a # s
                 /\ Depth(g[a]) = Depth(g[s]) /\ Parent(g[a]) = Parent(g[s])
<1> DEFINE d == Depth(g[s])
<1>1. Len(g) \in Nat /\ DOMAIN g = 1..Len(g) /\ s \in Nat
    BY LenProperties
<1>2. \A m \in DOMAIN g : Depth(g[m]) \in Nat \ {0} /\ Depth(g[m]) = Len(g[m].id)
    BY DepthIs
<1>3. d \in Nat \ {0}
    BY <1>2
<1> HIDE DEF d
<1>4. ASSUME NEW x \in DOMAIN g, x # s, Depth(g[x]) = d,
             \A m \in (s..x) \cup (x..s) : d =< Depth(g[m])
      PROVE  After(g, s) # {} \/ Above(g, s) # {}
    <2>1. CASE s < x
        <3> DEFINE T == {j \in (s + 1)..x : Depth(g[j]) = d}
                   t == Min(T)
        <3>1. T \subseteq Nat /\ x \in T
            BY <1>1, <1>4, <2>1
        <3>2. t \in T /\ \A j \in T : t =< j
            BY <3>1, HasMinimum
        <3> HIDE DEF t
        <3>3. ASSUME NEW m \in (s + 1)..(t - 1) PROVE Depth(g[m]) > d
            <4>1. m \in (s + 1)..x /\ ~(t =< m) /\ m \in DOMAIN g /\ m \in s..x
                BY <1>1, <3>2
            <4>2. m \notin T
                BY <3>2, <4>1
            <4>3. Depth(g[m]) # d
                BY <4>1, <4>2
            <4> QED BY <1>2, <1>3, <1>4, <4>1, <4>3
        <3>4. t \in (s + 1)..Len(g) /\ Depth(g[t]) = d
            BY <1>1, <3>2
        <3> QED BY <3>3, <3>4 DEF After, d
    <2>2. CASE x < s
        <3> DEFINE T == {j \in x..(s - 1) : Depth(g[j]) = d}
                   t == Max(T)
        <3>1. T \in SUBSET (0..s) /\ x \in T
            BY <1>1, <1>4, <2>2
        <3>2. t \in T /\ \A j \in T : j =< t
            BY <1>1, <3>1, HasMaximum
        <3> HIDE DEF t
        <3>3. ASSUME NEW m \in (t + 1)..(s - 1) PROVE Depth(g[m]) > d
            <4>1. m \in x..(s - 1) /\ ~(m =< t) /\ m \in DOMAIN g /\ m \in x..s
                BY <1>1, <3>2
            <4>2. m \notin T
                BY <3>2, <4>1
            <4>3. Depth(g[m]) # d
                BY <4>1, <4>2
            <4> QED BY <1>2, <1>3, <1>4, <4>1, <4>3
        <3>4. t \in 1..(s - 1) /\ Depth(g[t]) = d
            BY <1>1, <3>2
        <3> QED BY <3>3, <3>4 DEF Above, d
    <2> QED BY <1>1, <1>4, <2>1, <2>2
<1>5. ASSUME NEW a \in DOMAIN g, Depth(g[a]) = d, Prefix(g[a].id, d - 1) = Prefix(g[s].id, d - 1)
      PROVE  Parent(g[a]) = Parent(g[s])
    <2>1. Len(g[a].id) = d /\ Len(g[s].id) = d
        BY <1>2, <1>5 DEF d
    <2> QED BY <1>5, <2>1 DEF Parent
<1>6. ASSUME NEW a \in After(g, s)
      PROVE  a \in DOMAIN g /\ a # s /\ Depth(g[a]) = d /\ Parent(g[a]) = Parent(g[s])
    <2>1. /\ a \in (s + 1)..Len(g) /\ Depth(g[a]) = d
          /\ \A m \in (s + 1)..(a - 1) : Depth(g[m]) > d
        BY DEF After, d
    <2>2. a \in DOMAIN g /\ s =< a /\ a # s
        BY <1>1, <2>1
    <2>3. ASSUME NEW m \in s..a PROVE d =< Depth(g[m])
        <3>1. m = s \/ m = a \/ m \in (s + 1)..(a - 1)
            BY <1>1, <2>1
        <3>2. m \in DOMAIN g
            BY <1>1, <2>1
        <3> QED BY <1>2, <1>3, <2>1, <3>1, <3>2 DEF d
    <2>4. Prefix(g[a].id, d - 1) = Prefix(g[s].id, d - 1)
        <3>1. \A m \in s..a : Prefix(g[m].id, d - 1) = Prefix(g[s].id, d - 1)
            BY <1>3, <2>2, <2>3, SameParent
        <3> QED BY <1>1, <2>1, <3>1
    <2> QED BY <1>5, <2>1, <2>2, <2>4
<1>7. ASSUME NEW a \in Above(g, s)
      PROVE  a \in DOMAIN g /\ a # s /\ Depth(g[a]) = d /\ Parent(g[a]) = Parent(g[s])
    <2>1. /\ a \in 1..(s - 1) /\ Depth(g[a]) = d
          /\ \A m \in (a + 1)..(s - 1) : Depth(g[m]) > d
        BY DEF Above, d
    <2>2. a \in DOMAIN g /\ a =< s /\ a # s
        BY <1>1, <2>1
    <2>3. ASSUME NEW m \in a..s PROVE d =< Depth(g[m])
        <3>1. m = s \/ m = a \/ m \in (a + 1)..(s - 1)
            BY <1>1, <2>1
        <3>2. m \in DOMAIN g
            BY <1>1, <2>1
        <3> QED BY <1>2, <1>3, <2>1, <3>1, <3>2 DEF d
    <2>4. Prefix(g[a].id, d - 1) = Prefix(g[s].id, d - 1)
        <3>1. \A m \in a..s : Prefix(g[m].id, d - 1) = Prefix(g[a].id, d - 1)
            BY <1>3, <2>2, <2>3, SameParent
        <3> QED BY <1>1, <2>1, <3>1
    <2> QED BY <1>5, <2>1, <2>2, <2>4
<1> QED BY <1>4, <1>6, <1>7 DEF d

LEMMA DeleteLands ==
    ASSUME Types, Types', Lands, [Next]_vars, step = "removed", step' = "idle", listed',
           keys' = keys \ {target}, UpToDate,
           NEW i \in DOMAIN rows', Parent(rows'[i]) = Parent(Row(target, FALSE))
    PROVE  Parent(rows'[selected']) = Parent(Row(target, FALSE))
<1> DEFINE ks == keys'
           new == rows'
           there == {m \in DOMAIN landing : IndexIn(landing[m], new) # {}}
<1>1. ShowDeleted
    BY DEF Next, Handle, Frame, Move, fold, apply_filter, clear_filter, toggle_reveal, copy_value,
           start_edit, Calls, Fetch, fail, reload, refresh, expire, start_add, cancel_form,
           submit_form, CheckName, ConfirmOverwrite, ConfirmDelete, save_form, ShowSaved, AskDelete,
           do_delete, Idle, Elsewhere, Drain, vars
<1>2. /\ new = build_rows(ks, filter, collapsed)
      /\ selected' = Reselect(IF there = {} THEN None ELSE landing[Min(there)], new)
    BY <1>1 DEF ShowDeleted
<1>3. /\ keys \in SUBSET Keys /\ ks \in SUBSET Keys /\ filter \in BOOLEAN /\ target \in Keys
      /\ rows \in Seq(Rows) /\ new \in Seq(Rows) /\ landing \in Seq(Rows)
    BY DEF Types, TreeType, HandlerType, Targeted
<1>4. selected \in DOMAIN rows /\ rows[selected] = Row(target, FALSE)
    <2>1. target = current_key /\ target # None
        BY <1>3, TuiAssumption DEF Lands
    <2>2. selected_row = Row(target, FALSE) /\ selected_row # None
        BY <2>1, SelectedType DEF Types, TreeType, current_key
    <2> QED BY <2>2, SelectedType DEF Types, TreeType
<1> HIDE DEF ks, new
<1>5. \A r \in Rows : IndexIn(r, rows) # {} <=> InView(keys, filter, collapsed, r)
    BY <1>3, InViewThere DEF UpToDate
<1>6. \A r \in Rows : IndexIn(r, new) # {} <=> InView(ks, filter, collapsed, r)
    BY <1>2, <1>3, InViewThere
<1>7. ks = keys \ {target}
    BY DEF ks
<1>8. TreeOf(keys, filter, collapsed, N, rows)
    BY <1>3, RowsTree DEF UpToDate
<1>9. PICK x \in DOMAIN rows : rows[x] = new[i]
    <2>1. new[i] \in Rows /\ IndexIn(new[i], new) # {}
        BY <1>3, LenProperties, ElementOfSeq DEF IndexIn, new
    <2>2. InView(ks, filter, collapsed, new[i])
        BY <1>6, <2>1
    <2>3. InView(keys, filter, collapsed, new[i])
        BY <1>7, <2>2 DEF InView
    <2> QED BY <1>5, <2>1, <2>3 DEF IndexIn
<1>10. x # selected
    <2> SUFFICES ASSUME new[i] = Row(target, FALSE) PROVE FALSE
        BY <1>4, <1>9
    <2>1. InView(ks, filter, collapsed, Row(target, FALSE))
        <3>1. new[i] \in Rows /\ IndexIn(new[i], new) # {}
            BY <1>3, LenProperties, ElementOfSeq DEF IndexIn, new
        <3> QED BY <1>6, <3>1
    <2> QED BY <1>7, <2>1 DEF InView, Row
<1>11. ~rows[selected].dir /\ Parent(rows[x]) = Parent(rows[selected])
    BY <1>4, <1>9 DEF Row, new
<1>12. Preorder(rows)
    BY <1>8 DEF TreeOf
<1>13. After(rows, selected) # {} \/ Above(rows, selected) # {}
    <2>1. /\ Depth(rows[x]) = Depth(rows[selected])
          /\ \A m \in (selected..x) \cup (x..selected) : Depth(rows[selected]) =< Depth(rows[m])
        BY <1>3, <1>4, <1>8, <1>11, Between
    <2> QED BY <1>3, <1>4, <1>10, <1>12, <2>1, Neighbours
<1>14. PICK a \in After(rows, selected) \cup Above(rows, selected) :
          1 \in DOMAIN landing /\ landing[1] = rows[a]
    BY <1>3, <1>4, <1>11, <1>13, LandingFirst DEF Lands
<1>15. a \in DOMAIN rows /\ a # selected /\ Depth(rows[a]) = Depth(rows[selected])
       /\ Parent(rows[a]) = Parent(rows[selected])
    BY <1>3, <1>4, <1>12, Neighbours
<1>16. IndexIn(rows[a], new) # {}
    <2>1. rows[a] \in Rows /\ IndexIn(rows[a], rows) # {} /\ rows[a] # rows[selected]
        <3>1. rows[a] # rows[selected]
            BY <1>4, <1>8, <1>15 DEF TreeOf, Distinct
        <3> QED BY <1>3, <1>15, <3>1, LenProperties, ElementOfSeq DEF IndexIn
    <2>2. InView(keys, filter, collapsed, rows[a])
        BY <1>5, <2>1
    <2>3. CASE \E k \in keys : /\ filter => k \in Matching
                               /\ ~Hidden(filter, collapsed, k) /\ rows[a] = Row(k, FALSE)
        <3>1. InView(ks, filter, collapsed, rows[a])
            BY <1>4, <1>7, <2>1, <2>3 DEF InView
        <3> QED BY <1>6, <2>1, <3>1
    <2>4. CASE \E g \in Folders : /\ \E k \in keys : (filter => k \in Matching) /\ InFolder(k, g)
                                  /\ ~Hidden(filter, collapsed, g) /\ rows[a] = Row(g, TRUE)
        <3>1. PICK g \in Folders : /\ \E k \in keys : (filter => k \in Matching) /\ InFolder(k, g)
                                   /\ ~Hidden(filter, collapsed, g) /\ rows[a] = Row(g, TRUE)
            BY <2>4
        <3>2. Len(g) = Len(target) /\ Len(target) \in Nat
            <4>1. Depth(rows[a]) = Len(g) /\ Depth(rows[selected]) = Len(target)
                BY <1>4, <3>1 DEF Depth, Row
            <4> QED BY <1>3, <1>4, <1>15, <4>1, DepthIs
        <3>3. ~InFolder(target, g)
            BY <3>2 DEF InFolder
        <3>4. InView(ks, filter, collapsed, rows[a])
            BY <1>7, <3>1, <3>3 DEF InView
        <3> QED BY <1>6, <2>1, <3>4
    <2> QED BY <2>2, <2>3, <2>4 DEF InView
<1>17. Min(there) = 1 /\ there # {}
    <2>1. 1 \in there /\ there \subseteq Nat \ {0}
        BY <1>3, <1>14, <1>16, LenProperties
    <2> HIDE DEF there
    <2>2. Min(there) \in there /\ Min(there) =< 1
        BY <2>1, HasMinimum
    <2>3. Min(there) \in Nat \ {0}
        BY <2>1, <2>2
    <2>4. \A m \in Nat \ {0} : m =< 1 => m = 1
        OBVIOUS
    <2> QED BY <2>1, <2>2, <2>3, <2>4
<1>18. selected' = Reselect(rows[a], new)
    BY <1>2, <1>14, <1>17
<1>19. new[selected'] = rows[a]
    BY <1>16, <1>18, ReselectFinds
<1> QED BY <1>4, <1>15, <1>19 DEF new

-----------------------------------------------------------------------------
\* The invariant of the handlers (InMode, AtRow, Saving, Queued and the row
\* whose value is shown) holds in every state of the TUI.
THEOREM Inductive == Spec => []Inv
<1>1. Inv /\ [Next]_vars => Inv'
    BY InModeNext, AtRowNext, ShownNext, SavingNext, QueuedNext DEF Inv
<1> QED BY <1>1, InvInit, PTL DEF Spec

\* A value is never shown beside another key than its own, whatever moves the
\* selection or the rows while it is shown or fetched.
THEOREM ShownBesideItsKey == Spec => []ShownIsSelected
<1>1. Inv => ShownIsSelected
    BY DEF Inv
<1> QED BY <1>1, Inductive, PTL

\* Edit and delete act on the key they were opened on, whatever other clients
\* do to the store meanwhile and whichever calls fail.
THEOREM ActsAsShown == Spec => []ActsOnTheKeyShown
<1>1. Inv => ActsOnTheKeyShown
    BY DEF Inv, AtRow, ActsOnTheKeyShown
<1> QED BY <1>1, Inductive, PTL

\* No secret is replaced by an add without a question, now or by a request
\* that is applied late, unless it came after the list the add asked for.
THEOREM AddAlwaysAsks == Spec => AddAsks
<1> DEFINE Asks ==
        /\ step = "save" /\ step' = "saved" /\ target \in db
             => mode # "Add" \/ target \in fresh
        /\ queued # <<>> /\ queued' = Tail(queued) /\ db' = db \cup {Head(queued).key}
             /\ Head(queued).op = "set" /\ Head(queued).key \in db
             => Head(queued).asked
<1>1. Inv => Asks
    <2> SUFFICES ASSUME Inv PROVE Asks
        OBVIOUS
    <2>1. step = "save" /\ target \in db => mode # "Add" \/ target \in fresh
        BY DEF Inv, Saving
    <2>2. ASSUME queued # <<>>, Head(queued).op = "set", Head(queued).key \in db
          PROVE  Head(queued).asked
        <3>1. 1 \in DOMAIN queued /\ Head(queued) = queued[1]
            BY <2>2, HeadTailProperties DEF Inv, Queued
        <3> QED BY <2>2, <3>1 DEF Inv, Queued
    <2> QED BY <2>1, <2>2
<1>2. Inv => [Asks]_vars
    BY <1>1
<1> QED BY <1>2, Inductive, PTL DEF AddAsks

\* Every variable keeps its type: the target of a handler is a key, what it is to
\* land on a sequence of rows (rows, selected, target and landing of run_ui).
THEOREM TypeCorrect == Spec => []TypeOK
<1>1. Init => Types /\ Inv
    BY TypesInit, InvInit
<1>2. Types /\ Inv /\ [Next]_vars => Types'
    BY TypesNext DEF Inv
<1>3. Types => TypeOK
    BY DEF Types, StoreType, TreeType, HandlerType, TypeOK, Requests
<1> QED BY <1>1, <1>2, <1>3, Inductive, PTL DEF Spec

\* build_rows makes a row for each key that is shown and for each of its folders,
\* once, with all that is in a folder directly after it, whatever is folded.
THEOREM TreeAlwaysComplete == Spec => []TreeIsComplete
<1>1. TypeOK => TreeIsComplete
    BY TreeComplete DEF TypeOK
<1> QED BY <1>1, TypeCorrect, PTL

\* After a save the key saved is selected, after a delete a row of its folder if
\* there is one left and the rows were up to date (select_row, delete_landing).
THEOREM SelectionAlwaysLands == Spec => SelectionLands
<1>1. Init => Types /\ Inv /\ Lands
    BY TypesInit, InvInit DEF Init, Lands
<1>2. Types /\ Inv /\ Lands /\ [Next]_vars => (Types /\ Inv /\ Lands)'
    BY TypesNext, InModeNext, AtRowNext, ShownNext, SavingNext, QueuedNext, LandsNext DEF Inv
<1> DEFINE L == step' = "idle" /\ listed' =>
          /\ step = "saved" /\ target \in keys' =>
                rows' # <<>> /\ rows'[selected'] = Row(target, FALSE)
          /\ /\ step = "removed" /\ keys' = keys \ {target} /\ UpToDate
             /\ \E i \in DOMAIN rows' : Parent(rows'[i]) = Parent(Row(target, FALSE))
             => Parent(rows'[selected']) = Parent(Row(target, FALSE))
<1>3. Types /\ Types' /\ Lands /\ [Next]_vars => L
    BY SaveLands, DeleteLands
<1>4. Types /\ Types' /\ Lands /\ [Next]_vars => [L]_vars
    BY <1>3
<1> QED BY <1>1, <1>2, <1>4, PTL DEF Spec, SelectionLands
=============================================================================

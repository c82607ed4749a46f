------------------------------- MODULE SetLemmas -------------------------------
(* Facts about sets and about counting that several proofs need.           *)
EXTENDS Integers, SequencesExt, FiniteSetTheorems, SequenceTheorems, TLAPS

(* A non-empty set of naturals has a least element.                        *)
LEMMA NatMin ==
    ASSUME NEW S \in SUBSET Nat, S # {}
    PROVE  \E x \in S : \A y \in S : x <= y
<1>1. PICK x \in S : \A y \in S : ~ (<<y, x>> \in OpToRel(<, Nat))
    BY NatLessThanWellFounded, WFMin, Zenon
<1>2. \A y \in S : ~(y < x)
    BY <1>1 DEF OpToRel
<1> QED  BY <1>2

(* FlattenSeq is a recursive function: what it computes is shown by the    *)
(* least index where it would differ.                                      *)

Flattening(g, s, n) ==
    /\ DOMAIN g = 1 .. n
    /\ g = [i \in 1 .. n |-> IF i = 1 THEN s[i] ELSE g[i - 1] \o s[i]]

LEMMA FlattenIs ==
    ASSUME NEW s, NEW n \in Nat, n # 0, Len(s) = n, NEW g, Flattening(g, s, n)
    PROVE  FlattenSeq(s) = g[n]
<1> DEFINE P(f) == f = [i \in 1 .. Len(s) |-> IF i = 1 THEN s[i] ELSE f[i - 1] \o s[i]]
           h == CHOOSE f : P(f)
<1>1. P(g)
    BY DEF Flattening
<1>2. P(h)
    <2> HIDE DEF P
    <2> QED  BY <1>1, Zenon
<1>3. FlattenSeq(s) = h[n]
    BY DEF FlattenSeq
<1> HIDE DEF h
<1>4. \A i \in 1 .. n : h[i] = IF i = 1 THEN s[i] ELSE h[i - 1] \o s[i]
    BY <1>2
<1>5. \A i \in 1 .. n : g[i] = IF i = 1 THEN s[i] ELSE g[i - 1] \o s[i]
    BY DEF Flattening
<1> HIDE DEF P
<1> DEFINE bad == {i \in 1 .. n : h[i] # g[i]}
<1>6. ASSUME bad # {} PROVE FALSE
    <2>1. bad \in SUBSET Nat
        OBVIOUS
    <2>2. PICK i \in bad : \A j \in bad : i <= j
        BY <2>1, <1>6, NatMin
    <2>3. i \in 1 .. n /\ h[i] # g[i]
        BY <2>2
    <2>4. i # 1
        BY <2>3, <1>4, <1>5
    <2>5. i - 1 \in 1 .. n /\ i - 1 \notin bad
        BY <2>2, <2>3, <2>4
    <2>6. h[i - 1] = g[i - 1]
        BY <2>5
    <2>7. h[i] = h[i - 1] \o s[i]
        BY <2>3, <2>4, <1>4
    <2>8. g[i] = g[i - 1] \o s[i]
        BY <2>3, <2>4, <1>5
    <2> QED  BY <2>3, <2>6, <2>7, <2>8
<1> QED  BY <1>6, <1>3

(* Max of a non-empty set of naturals with an upper bound is its largest   *)
(* element.                                                                *)
LEMMA MaxOfBounded ==
    ASSUME NEW n \in Nat, NEW S \in SUBSET (0 .. n), S # {}
    PROVE  Max(S) \in S /\ \A y \in S : y <= Max(S)
<1> DEFINE T == {n - i : i \in S}
<1>1. T \in SUBSET Nat
    OBVIOUS
<1>2. T # {}
    OBVIOUS
<1> HIDE DEF T
<1>3. PICK x \in T : \A y \in T : x <= y
    BY <1>1, <1>2, NatMin
<1>4. PICK i \in S : x = n - i
    BY <1>3 DEF T
<1>5. ASSUME NEW y \in S PROVE i >= y
    <2>1. n - y \in T
        BY DEF T
    <2>2. x <= n - y
        BY <1>3, <2>1
    <2> QED  BY <2>2, <1>4
<1>6. \E z \in S : \A y \in S : z >= y
    BY <1>5
<1>7. Max(S) \in S /\ \A y \in S : Max(S) >= y
    BY <1>6 DEF Max
<1> QED  BY <1>7

(* The union of finitely many finite sets is finite.                       *)
LEMMA FiniteUnion ==
    ASSUME NEW D, IsFiniteSet(D), NEW T, NEW f \in [D -> T], \A z \in T : \E x \in D : f[x] = z,
           \A z \in T : IsFiniteSet(z)
    PROVE  IsFiniteSet(UNION T)
<1>1. f \in Surjection(D, T)
    BY DEF Surjection
<1>2. IsFiniteSet(T)
    BY <1>1, FS_Surjection
<1> QED  BY <1>2, FS_UNION

(* Cardinalities of disjoint sets add up.                                  *)
LEMMA DisjointSum ==
    ASSUME NEW S, NEW T, IsFiniteSet(S), IsFiniteSet(T), S \cap T = {}
    PROVE  /\ IsFiniteSet(S \cup T) /\ Cardinality(S \cup T) = Cardinality(S) + Cardinality(T)
           /\ Cardinality(S) \in Nat /\ Cardinality(T) \in Nat
<1>1. Cardinality(S) \in Nat /\ Cardinality(T) \in Nat
    BY FS_CardinalityType
<1>2. Cardinality(S \cap T) = 0
    BY FS_EmptySet
<1>3. /\ IsFiniteSet(S \cup T)
      /\ Cardinality(S \cup T) = Cardinality(S) + Cardinality(T) - Cardinality(S \cap T)
    BY FS_Union
<1> QED  BY <1>1, <1>2, <1>3

(* A function onto a set that keeps elements apart keeps their number.     *)
LEMMA SameSize ==
    ASSUME NEW S, NEW T, IsFiniteSet(S), NEW f \in [S -> T],
           \A x, y \in S : f[x] = f[y] => x = y, \A z \in T : \E x \in S : f[x] = z
    PROVE  IsFiniteSet(T) /\ Cardinality(T) = Cardinality(S)
<1>1. f \in Bijection(S, T)
    BY DEF Bijection, Injection, Surjection, IsInjective
<1> QED  BY <1>1, FS_Bijection DEF ExistsBijection

-----------------------------------------------------------------------------
(* How often x is in the sequence s, and its places there under a label.   *)
Times(s, x) == Cardinality({j \in DOMAIN s : s[j] = x})
Labelled(c, s, x) == {<<c, i>> : i \in {j \in DOMAIN s : s[j] = x}}

LEMMA LabelledSize ==
    ASSUME NEW s, NEW n \in Nat, DOMAIN s = 1 .. n, NEW c, NEW x
    PROVE  /\ IsFiniteSet(Labelled(c, s, x)) /\ \A p \in Labelled(c, s, x) : p[1] = c
           /\ Cardinality(Labelled(c, s, x)) = Times(s, x) /\ Times(s, x) \in Nat
<1> DEFINE S == {j \in DOMAIN s : s[j] = x}
           f == [j \in S |-> <<c, j>>]
<1>1. IsFiniteSet(S)
    <2>1. IsFiniteSet(1 .. n)
        BY FS_Interval
    <2>2. S \in SUBSET (1 .. n)
        OBVIOUS
    <2> QED  BY <2>1, <2>2, FS_Subset
<1>2. f \in [S -> Labelled(c, s, x)]
    BY DEF Labelled
<1>3. \A i, j \in S : f[i] = f[j] => i = j
    OBVIOUS
<1>4. \A z \in Labelled(c, s, x) : \E j \in S : f[j] = z
    BY DEF Labelled
<1>5. \A p \in Labelled(c, s, x) : p[1] = c
    BY DEF Labelled
<1>6. Times(s, x) = Cardinality(S)
    BY DEF Times
<1> HIDE DEF f, S
<1>7. IsFiniteSet(Labelled(c, s, x)) /\ Cardinality(Labelled(c, s, x)) = Cardinality(S)
    BY <1>1, <1>2, <1>3, <1>4, SameSize
<1> QED  BY <1>1, <1>5, <1>6, <1>7, FS_CardinalityType

(* A union of labelled sets is counted label by label.                     *)
UnionOver(F, D) == UNION {F[d] : d \in D}

LEMMA LabelledUnion ==
    ASSUME NEW D, IsFiniteSet(D), NEW F, \A d \in D : IsFiniteSet(F[d]) /\ \A p \in F[d] : p[1] = d,
           NEW t \in D
    PROVE  /\ Cardinality(UnionOver(F, D))
                 = Cardinality(UnionOver(F, D \ {t})) + Cardinality(F[t])
           /\ IsFiniteSet(UnionOver(F, D))
           /\ Cardinality(UnionOver(F, D \ {t})) \in Nat /\ Cardinality(F[t]) \in Nat
<1> DEFINE others == UnionOver(F, D \ {t})
<1>1. IsFiniteSet(others)
    <2> DEFINE T == {F[d] : d \in D \ {t}}
               f == [d \in D \ {t} |-> F[d]]
    <2>1. IsFiniteSet(D \ {t})
        BY FS_Subset
    <2>2. f \in [D \ {t} -> T] /\ \A z \in T : \E d \in D \ {t} : f[d] = z
        OBVIOUS
    <2>3. \A z \in T : IsFiniteSet(z)
        OBVIOUS
    <2> HIDE DEF f, T
    <2>4. IsFiniteSet(UNION T)
        BY <2>1, <2>2, <2>3, FiniteUnion
    <2> QED  BY <2>4 DEF T, UnionOver
<1>2. others \cap F[t] = {}
    <2>1. ASSUME NEW d \in D \ {t}, NEW p, p \in F[d], p \in F[t]
          PROVE  FALSE
        <3>1. p[1] = d /\ p[1] = t
            BY <2>1
        <3> QED  BY <3>1
    <2> QED  BY <2>1 DEF UnionOver
<1>3. UnionOver(F, D) = others \cup F[t]
    BY DEF UnionOver
<1> HIDE DEF others
<1>4. /\ IsFiniteSet(others \cup F[t])
      /\ Cardinality(others \cup F[t]) = Cardinality(others) + Cardinality(F[t])
      /\ Cardinality(others) \in Nat /\ Cardinality(F[t]) \in Nat
    BY <1>1, <1>2, DisjointSum
<1> QED  BY <1>3, <1>4 DEF others

LEMMA TimesEmpty ==
    ASSUME NEW x
    PROVE  Times(<< >>, x) = 0
<1>1. {j \in DOMAIN << >> : << >>[j] = x} = {}
    OBVIOUS
<1> QED  BY <1>1, FS_EmptySet DEF Times

LEMMA TimesAppend ==
    ASSUME NEW S, NEW s, s \in Seq(S), NEW y, y \in S, NEW x
    PROVE  /\ Times(Append(s, y), x) = Times(s, x) + (IF y = x THEN 1 ELSE 0)
           /\ Times(s, x) \in Nat
<1> DEFINE n == Len(s)
           A == {j \in DOMAIN s : s[j] = x}
           B == {j \in DOMAIN Append(s, y) : Append(s, y)[j] = x}
<1>1. n \in Nat /\ DOMAIN s = 1 .. n
    BY LenProperties
<1>2. /\ DOMAIN Append(s, y) = 1 .. n + 1 /\ Append(s, y)[n + 1] = y
      /\ \A j \in 1 .. n : Append(s, y)[j] = s[j]
    BY <1>1, AppendProperties, LenProperties
<1>3. IsFiniteSet(A)
    <2>1. IsFiniteSet(1 .. n)
        BY <1>1, FS_Interval
    <2> QED  BY <1>1, <2>1, FS_Subset
<1>4. B = IF y = x THEN A \cup {n + 1} ELSE A
    BY <1>1, <1>2
<1>5. n + 1 \notin A
    BY <1>1
<1>6. Times(s, x) = Cardinality(A) /\ Times(Append(s, y), x) = Cardinality(B)
    BY DEF Times
<1> HIDE DEF A, B, n
<1>7. Cardinality(A \cup {n + 1}) = Cardinality(A) + 1 /\ Cardinality(A) \in Nat
    BY <1>3, <1>5, FS_AddElement, FS_CardinalityType
<1> QED  BY <1>4, <1>6, <1>7

IsAppend(u, s, y) == u = Append(s, y)

LEMMA TimesAppended ==
    ASSUME NEW s, s \in Seq(Nat), NEW y, y \in Nat, NEW x, NEW u, IsAppend(u, s, y)
    PROVE  /\ Times(u, x) = Times(s, x) + (IF y = x THEN 1 ELSE 0)
           /\ Times(s, x) \in Nat
<1>1. u = Append(s, y)
    BY DEF IsAppend
<1> DEFINE S == Nat
<1>2. s \in Seq(S) /\ y \in S
    OBVIOUS
<1> HIDE DEF S
<1>3. Times(Append(s, y), x) = Times(s, x) + (IF y = x THEN 1 ELSE 0) /\ Times(s, x) \in Nat
    BY <1>2, TimesAppend
<1> QED  BY <1>1, <1>3

LEMMA TimesTail ==
    ASSUME NEW S, NEW s \in Seq(S), s # << >>, NEW x
    PROVE  /\ Times(s, x) = Times(Tail(s), x) + (IF Head(s) = x THEN 1 ELSE 0)
           /\ Times(s, x) \in Nat /\ Times(Tail(s), x) \in Nat
<1> DEFINE n == Len(s)
           A == {j \in DOMAIN Tail(s) : Tail(s)[j] = x}
           C == {j \in DOMAIN s : s[j] = x} \ {1}
           B == {j \in DOMAIN s : s[j] = x}
           f == [j \in A |-> j + 1]
<1>1. n \in Nat \ {0} /\ DOMAIN s = 1 .. n /\ Head(s) = s[1]
    <2>1. n \in Nat /\ DOMAIN s = 1 .. n
        BY LenProperties
    <2>2. n # 0
        BY EmptySeq
    <2> QED  BY <2>1, <2>2, HeadTailProperties
<1>2. /\ Len(Tail(s)) = n - 1 /\ Tail(s) \in Seq(S)
      /\ \A j \in 1 .. n - 1 : Tail(s)[j] = s[j + 1]
    BY <1>1, HeadTailProperties
<1>3. DOMAIN Tail(s) = 1 .. n - 1
    BY <1>2, LenProperties
<1>4. IsFiniteSet(A) /\ IsFiniteSet(B)
    <2>1. IsFiniteSet(1 .. n) /\ IsFiniteSet(1 .. n - 1)
        BY <1>1, FS_Interval
    <2>2. A \in SUBSET (1 .. n - 1) /\ B \in SUBSET (1 .. n)
        BY <1>1, <1>3
    <2> QED  BY <2>1, <2>2, FS_Subset
<1>5. f \in [A -> C]
    BY <1>1, <1>2, <1>3
<1>6. \A i, j \in A : f[i] = f[j] => i = j
    BY <1>3
<1>7. ASSUME NEW z \in C
      PROVE  \E j \in A : f[j] = z
    <2>1. z \in 2 .. n /\ s[z] = x
        BY <1>1
    <2>2. z - 1 \in 1 .. n - 1 /\ (z - 1) + 1 = z
        BY <1>1, <2>1
    <2>3. z - 1 \in A
        BY <1>2, <1>3, <2>1, <2>2
    <2> QED  BY <2>2, <2>3
<1>8. 1 \in B <=> Head(s) = x
    BY <1>1
<1>9. Times(Tail(s), x) = Cardinality(A) /\ Times(s, x) = Cardinality(B) /\ C = B \ {1}
    BY DEF Times
<1> HIDE DEF A, B, C, f, n
<1>10. Cardinality(C) = Cardinality(A)
    BY <1>4, <1>5, <1>6, <1>7, SameSize
<1>11. Cardinality(B \ {1}) = IF 1 \in B THEN Cardinality(B) - 1 ELSE Cardinality(B)
    BY <1>4, FS_RemoveElement
<1>12. Cardinality(A) \in Nat /\ Cardinality(B) \in Nat
    BY <1>4, FS_CardinalityType
<1> QED  BY <1>8, <1>9, <1>10, <1>11, <1>12

IsHeadTail(s, y, u) == s # << >> /\ y = Head(s) /\ u = Tail(s)

LEMMA TimesTailed ==
    ASSUME NEW s, s \in Seq(Nat), NEW y, NEW u, IsHeadTail(s, y, u), NEW x
    PROVE  /\ Times(s, x) = Times(u, x) + (IF y = x THEN 1 ELSE 0)
           /\ Times(s, x) \in Nat /\ Times(u, x) \in Nat
<1>1. s # << >> /\ y = Head(s) /\ u = Tail(s)
    BY DEF IsHeadTail
<1> DEFINE S == Nat
<1>2. s \in Seq(S)
    OBVIOUS
<1> HIDE DEF S
<1>3. /\ Times(s, x) = Times(Tail(s), x) + (IF Head(s) = x THEN 1 ELSE 0)
      /\ Times(s, x) \in Nat /\ Times(Tail(s), x) \in Nat
    BY <1>1, <1>2, TimesTail
<1> QED  BY <1>1, <1>3
=============================================================================

-------------------------- MODULE SelectionProofs ---------------------------
(***************************************************************************)
(* What KeepAt returns, for every sequence and every set of positions: the *)
(* elements at those positions, all of them, once each and in their order. *)
(*                                                                         *)
(* The two inductions this takes, one for the recursion to have a          *)
(* solution and one over it, go by a least counterexample: the set of      *)
(* naturals a claim holds of is a parameter the provers can instantiate,   *)
(* the claim itself is not.                                                *)
(***************************************************************************)
EXTENDS Selection, Integers, WellFoundedInduction, TLAPS

(* Every set of naturals that is not empty has a least element.            *)
LEMMA LeastNatural ==
    ASSUME NEW T \in SUBSET Nat, T # {}
    PROVE  \E m \in T : \A k \in T : m <= k
<1>1. \A k, m \in Nat : k < m => <<k, m>> \in OpToRel(<, Nat)
  BY DEF OpToRel
<1>2. PICK m \in T : \A k \in T : ~(<<k, m>> \in OpToRel(<, Nat))
  BY NatLessThanWellFounded, WFMin
<1>3. \A k \in T : ~(k < m)
  BY <1>1, <1>2
<1> QED
  BY <1>3

(* A set with zero and the successor of each of its members up to L has    *)
(* every number up to L.                                                   *)
LEMMA InductionUpTo ==
    ASSUME NEW L \in Nat, NEW P \in SUBSET Nat,
           0 \in P,
           \A n \in 1..L : n - 1 \in P => n \in P
    PROVE  0..L \subseteq P
<1> DEFINE T == (0..L) \ P
<1> SUFFICES ASSUME T # {} PROVE FALSE
  OBVIOUS
<1>1. PICK m \in T : \A k \in T : m <= k
  <2>1. T \in SUBSET Nat /\ T # {}
    OBVIOUS
  <2> HIDE DEF T
  <2> QED
    BY <2>1, LeastNatural
<1>2. m \in 1..L
  BY <1>1
<1>3. m - 1 \in P
  BY <1>1, <1>2
<1> QED
  BY <1>1, <1>2, <1>3

-----------------------------------------------------------------------------
(* The recursion of KeepAt.                                                *)
Pass(f, s, I, n) == IF n = 0 THEN <<>>
                    ELSE IF n \in I THEN Append(f[n - 1], s[n])
                    ELSE f[n - 1]

IsPass(f, s, I, m) == f = [n \in 0..m |-> Pass(f, s, I, n)]

(* The loop has a result after every element.                              *)
LEMMA PassExists ==
    ASSUME NEW s, NEW I, NEW L \in Nat
    PROVE  \E f : IsPass(f, s, I, L)
<1> DEFINE P == {m \in Nat : \E f : IsPass(f, s, I, m)}
<1>1. 0 \in P
  <2> DEFINE f == [n \in 0..0 |-> <<>>]
  <2>1. IsPass(f, s, I, 0)
    BY DEF IsPass, Pass
  <2> QED
    BY <2>1
<1>2. ASSUME NEW m \in 1..L, m - 1 \in P
      PROVE  m \in P
  <2>1. PICK g : IsPass(g, s, I, m - 1)
    BY <1>2
  <2> DEFINE f == [n \in 0..m |-> IF n < m THEN g[n] ELSE Pass(g, s, I, m)]
  <2>2. \A n \in 0..(m - 1) : g[n] = Pass(g, s, I, n)
    BY <2>1 DEF IsPass
  <2>3. ASSUME NEW n \in 0..m
        PROVE  f[n] = Pass(f, s, I, n)
    <3>1. n # 0 => f[n - 1] = g[n - 1]
      OBVIOUS
    <3>2. Pass(f, s, I, n) = Pass(g, s, I, n)
      BY <3>1 DEF Pass
    <3> QED
      BY <2>2, <3>2
  <2>4. \E h : IsPass(h, s, I, m)
    <3>1. f = [n \in 0..m |-> f[n]]
      OBVIOUS
    <3> HIDE DEF f
    <3>2. IsPass(f, s, I, m)
      BY <2>3, <3>1 DEF IsPass
    <3> QED
      BY <3>2
  <2> QED
    BY <2>4
<1>3. 0..L \subseteq P
  <2>1. P \subseteq Nat
    OBVIOUS
  <2> HIDE DEF P
  <2> QED
    BY <1>1, <1>2, <2>1, InductionUpTo
<1> QED
  BY <1>3

(* h enumerates, in order, the positions of s that r was made from.        *)
Enumerates(h, r, s, positions) ==
    /\ h \in [1..Len(r) -> positions]
    /\ \A j \in 1..Len(r) : r[j] = s[h[j]]
    /\ \A j, k \in 1..Len(r) : j < k => h[j] < h[k]
    /\ \A i \in positions : \E j \in 1..Len(r) : h[j] = i

(* KeepAt keeps the elements at the positions it is given, every one of    *)
(* them once, in the order they have, and nothing else.                    *)
THEOREM KeepAtSelects ==
    ASSUME NEW S, NEW s \in Seq(S), NEW I
    PROVE  /\ KeepAt(s, I) \in Seq(S)
           /\ \E h : Enumerates(h, KeepAt(s, I), s, I \cap (1..Len(s)))
<1> DEFINE L == Len(s)
           f == CHOOSE f : IsPass(f, s, I, L)
<1>1. L \in Nat /\ \A i \in 1..L : s[i] \in S
  OBVIOUS
<1>2. IsPass(f, s, I, L)
  <2> HIDE DEF L
  <2>1. \E g : IsPass(g, s, I, L)
    BY <1>1, PassExists
  <2> QED
    BY <2>1
<1>3. KeepAt(s, I) = f[L]
  BY DEF KeepAt, IsPass, Pass
<1> HIDE DEF f, L
<1>4. f[0] = <<>> /\ \A n \in 1..L : f[n] = IF n \in I THEN Append(f[n - 1], s[n])
                                            ELSE f[n - 1]
  <2>1. \A n \in 0..L : f[n] = Pass(f, s, I, n)
    BY <1>2 DEF IsPass
  <2>2. 0 \in 0..L /\ \A n \in 1..L : n \in 0..L /\ n # 0
    BY <1>1
  <2>3. f[0] = <<>>
    BY <2>1, <2>2 DEF Pass
  <2>4. ASSUME NEW n \in 1..L
        PROVE  f[n] = IF n \in I THEN Append(f[n - 1], s[n]) ELSE f[n - 1]
    BY <2>1, <2>2, Zenon DEF Pass
  <2> QED
    BY <2>3, <2>4
<1> DEFINE Claim(n) == f[n] \in Seq(S) /\ \E h : Enumerates(h, f[n], s, I \cap (1..n))
           P == {n \in Nat : Claim(n)}
<1>5. 0 \in P
  <2>1. f[0] \in Seq(S) /\ Len(f[0]) = 0
    BY <1>4
  <2>2. Enumerates(<<>>, f[0], s, I \cap (1..0))
    BY <2>1 DEF Enumerates
  <2> QED
    BY <2>1, <2>2
<1>6. ASSUME NEW n \in 1..L, n - 1 \in P
      PROVE  n \in P
  <2>1. f[n - 1] \in Seq(S)
    BY <1>6
  <2>2. PICK h : Enumerates(h, f[n - 1], s, I \cap (1..(n - 1)))
    BY <1>6
  <2> DEFINE k == Len(f[n - 1])
  <2>3. k \in Nat
    BY <2>1
  <2>4. CASE n \notin I
    <3>1. f[n] = f[n - 1] /\ I \cap (1..n) = I \cap (1..(n - 1))
      BY <1>1, <1>4, <2>4
    <3>2. Enumerates(h, f[n], s, I \cap (1..n))
      BY <2>2, <3>1
    <3> QED
      BY <1>1, <2>1, <3>1, <3>2
  <2>5. CASE n \in I
    <3>1. f[n] = Append(f[n - 1], s[n])
      BY <1>4, <2>5
    <3>2. /\ f[n] \in Seq(S) /\ Len(f[n]) = k + 1 /\ f[n][k + 1] = s[n]
          /\ \A j \in 1..k : f[n][j] = f[n - 1][j]
      BY <1>1, <2>1, <3>1
    <3> DEFINE e == [j \in 1..(k + 1) |-> IF j = k + 1 THEN n ELSE h[j]]
    <3>3. \A j \in 1..k : h[j] \in I \cap (1..(n - 1))
      BY <2>2 DEF Enumerates
    <3>4. e \in [1..(k + 1) -> I \cap (1..n)]
      BY <1>1, <2>3, <2>5, <3>3
    <3>5. \A j \in 1..(k + 1) : f[n][j] = s[e[j]]
      BY <2>2, <2>3, <3>2 DEF Enumerates
    <3>6. \A i, j \in 1..(k + 1) : i < j => e[i] < e[j]
      <4>1. \A i, j \in 1..k : i < j => h[i] < h[j]
        BY <2>2 DEF Enumerates
      <4>2. \A i \in 1..k : e[i] = h[i] /\ h[i] \in Nat /\ h[i] < n
        BY <1>1, <2>3, <3>3
      <4>3. e[k + 1] = n
        BY <2>3
      <4> HIDE DEF e
      <4> SUFFICES ASSUME NEW i \in 1..(k + 1), NEW j \in 1..(k + 1), i < j
                   PROVE  e[i] < e[j]
        OBVIOUS
      <4>4. i \in 1..k
        BY <2>3
      <4>5. j = k + 1 \/ j \in 1..k
        BY <2>3
      <4> QED
        BY <4>1, <4>2, <4>3, <4>4, <4>5
    <3>7. \A i \in I \cap (1..n) : \E j \in 1..(k + 1) : e[j] = i
      <4>1. \A i \in I \cap (1..(n - 1)) : \E j \in 1..k : h[j] = i
        BY <2>2 DEF Enumerates
      <4> SUFFICES ASSUME NEW i \in I \cap (1..n)
                   PROVE  \E j \in 1..(k + 1) : e[j] = i
        OBVIOUS
      <4>2. CASE i = n
        <5>1. k + 1 \in 1..(k + 1) /\ e[k + 1] = n
          BY <2>3
        <5> QED
          BY <4>2, <5>1
      <4>3. CASE i # n
        <5>1. PICK j \in 1..k : h[j] = i
          BY <1>1, <4>1, <4>3
        <5>2. j \in 1..(k + 1) /\ e[j] = h[j]
          BY <2>3
        <5> QED
          BY <5>1, <5>2
      <4> QED
        BY <4>2, <4>3
    <3>8. Enumerates(e, f[n], s, I \cap (1..n))
      <4> HIDE DEF e
      <4> QED
        BY <3>2, <3>4, <3>5, <3>6, <3>7 DEF Enumerates
    <3>9. \E d : Enumerates(d, f[n], s, I \cap (1..n))
      <4> HIDE DEF e
      <4> QED
        BY <3>8
    <3> QED
      BY <1>1, <3>2, <3>9
  <2> QED
    BY <2>4, <2>5
<1>7. 0..L \subseteq P
  <2>1. P \subseteq Nat
    OBVIOUS
  <2> HIDE DEF P
  <2> QED
    BY <1>1, <1>5, <1>6, <2>1, InductionUpTo
<1>8. L \in P
  <2> HIDE DEF P
  <2> QED
    BY <1>1, <1>7
<1>9. Claim(L)
  BY <1>8
<1> QED
  BY <1>3, <1>9 DEF L

-----------------------------------------------------------------------------
(* Two passes over the same elements agree.                                *)
LEMMA PassesAgree ==
    ASSUME NEW s, NEW t, NEW I, NEW L \in Nat, NEW M \in L..(L + 1),
           NEW f, IsPass(f, s, I, L),
           NEW g, IsPass(g, t, I, M),
           \A n \in 1..L : s[n] = t[n]
    PROVE  f[L] = g[L]
<1> DEFINE P == {n \in Nat : n <= L => f[n] = g[n]}
<1>1. /\ \A n \in 0..L : f[n] = Pass(f, s, I, n)
      /\ \A n \in 0..M : g[n] = Pass(g, t, I, n)
  BY DEF IsPass
<1>2. 0 \in P
  <2>1. f[0] = Pass(f, s, I, 0) /\ g[0] = Pass(g, t, I, 0)
    BY <1>1
  <2> QED
    BY <2>1 DEF Pass
<1>3. ASSUME NEW n \in 1..L, n - 1 \in P
      PROVE  n \in P
  <2>1. f[n - 1] = g[n - 1] /\ s[n] = t[n]
    BY <1>3
  <2>2. f[n] = Pass(f, s, I, n) /\ g[n] = Pass(g, t, I, n)
    BY <1>1
  <2>3. f[n] = g[n]
    BY <2>1, <2>2 DEF Pass
  <2> QED
    BY <2>3
<1>4. 0..L \subseteq P
  <2>1. P \subseteq Nat
    OBVIOUS
  <2> HIDE DEF P
  <2> QED
    BY <1>2, <1>3, <2>1, InductionUpTo
<1> QED
  BY <1>4

(* Of nothing the loop keeps nothing.                                      *)
LEMMA KeepAtNothing ==
    ASSUME NEW I
    PROVE  KeepAt(<<>>, I) = <<>>
<1> DEFINE f == CHOOSE f : IsPass(f, <<>>, I, 0)
<1>1. IsPass(f, <<>>, I, 0)
  <2>1. \E g : IsPass(g, <<>>, I, 0)
    BY PassExists
  <2> QED
    BY <2>1
<1>2. KeepAt(<<>>, I) = f[0]
  BY DEF KeepAt, IsPass, Pass
<1> HIDE DEF f
<1>3. f[0] = <<>>
  BY <1>1 DEF IsPass, Pass
<1> QED
  BY <1>2, <1>3

(* One more element is appended to what the loop has kept, or skipped.     *)
LEMMA KeepAtAppends ==
    ASSUME NEW S, NEW s \in Seq(S), NEW e \in S, NEW I
    PROVE  KeepAt(Append(s, e), I) =
             IF Len(s) + 1 \in I THEN Append(KeepAt(s, I), e) ELSE KeepAt(s, I)
<1> DEFINE t == Append(s, e)
           L == Len(s)
           f == CHOOSE f : IsPass(f, s, I, Len(s))
           g == CHOOSE g : IsPass(g, t, I, Len(t))
<1>1. L \in Nat /\ Len(t) = L + 1 /\ t[L + 1] = e /\ \A n \in 1..L : s[n] = t[n]
  OBVIOUS
<1>2. KeepAt(s, I) = f[Len(s)] /\ KeepAt(t, I) = g[Len(t)]
  BY DEF KeepAt, IsPass, Pass
<1>3. IsPass(f, s, I, L)
  <2>1. \E h : IsPass(h, s, I, Len(s))
    BY PassExists
  <2> QED
    BY <2>1
<1>4. IsPass(g, t, I, L + 1)
  <2>1. \E h : IsPass(h, t, I, Len(t))
    <3>1. Len(t) \in Nat
      BY <1>1
    <3> HIDE DEF t
    <3> QED
      BY <3>1, PassExists
  <2> QED
    BY <1>1, <2>1
<1> HIDE DEF f, g, t, L
<1>5. f[L] = g[L]
  <2>1. L + 1 \in L..(L + 1)
    BY <1>1
  <2> QED
    BY <1>1, <1>3, <1>4, <2>1, PassesAgree
<1>6. g[L + 1] = Pass(g, t, I, L + 1)
  <2>1. \A n \in 0..(L + 1) : g[n] = Pass(g, t, I, n)
    BY <1>4 DEF IsPass
  <2>2. L + 1 \in 0..(L + 1)
    BY <1>1
  <2> QED
    BY <2>1, <2>2
<1>7. g[L + 1] = IF L + 1 \in I THEN Append(g[L], e) ELSE g[L]
  BY <1>1, <1>6 DEF Pass
<1>8. KeepAt(s, I) = f[L] /\ KeepAt(t, I) = g[L + 1]
  BY <1>1, <1>2 DEF L
<1> QED
  BY <1>5, <1>7, <1>8 DEF t, L
=============================================================================

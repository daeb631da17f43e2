-------------------------------- MODULE Sums --------------------------------
(***************************************************************************)
(* What a fold computes. The folds of the community modules are defined by *)
(* a recursive function on the subsets of what is folded; that there is    *)
(* one, and that it runs through a sequence from left to right, is proved  *)
(* here by looking at the least case that would be wrong.                  *)
(***************************************************************************)
EXTENDS SequencesExt, SequenceTheorems, FiniteSetTheorems, WellFoundedInduction, TLAPS

-----------------------------------------------------------------------------
(* Least numbers and largest elements.                                     *)

LEMMA LeastOfNaturals ==
  ASSUME NEW T \in SUBSET Nat, T # {}
  PROVE  \E n \in T : \A m \in T : n <= m
<1>1. PICK n \in T : \A m \in T : ~ (<<m, n>> \in OpToRel(<, Nat))
  BY NatLessThanWellFounded, WFMin
<1>2. \A m \in T : ~ (m < n)
  BY <1>1 DEF OpToRel
<1>3. \A m \in T : n <= m
  BY <1>2
<1>. QED
  BY <1>3

(* Induction over the naturals, for the set of those that are as claimed.  *)
LEMMA InductionOnNat ==
  ASSUME NEW T, 0 \in T, \A n \in Nat : n \in T => n + 1 \in T
  PROVE  Nat \subseteq T
<1>. DEFINE Bad == Nat \ T
<1>. SUFFICES ASSUME Bad # {} PROVE FALSE
  OBVIOUS
<1>1. PICK n \in Bad : \A m \in Bad : n <= m
  BY LeastOfNaturals
<1>2. n # 0 /\ n - 1 \in Nat /\ n - 1 \notin Bad
  BY <1>1
<1>3. n - 1 + 1 \in T
  BY <1>2
<1>. QED
  BY <1>1, <1>3

LEMMA MaxOfInterval ==
  ASSUME NEW n \in Nat \ {0}
  PROVE  Max(1 .. n) = n
BY DEF Max

LEMMA MaxIsOne ==
  ASSUME NEW n \in Nat, NEW T \in SUBSET (1 .. n), T # {}
  PROVE  Max(T) \in T
<1>. DEFINE D == {n - t : t \in T}
<1>1. D \in SUBSET Nat /\ D # {}
  <2>1. \A t \in T : n - t \in Nat
    OBVIOUS
  <2>. QED
    BY <2>1
<1>2. PICK t \in T : \A u \in T : n - t <= n - u
  <2>1. PICK d \in D : \A e \in D : d <= e
    <3>. HIDE DEF D
    <3>. QED
      BY <1>1, LeastOfNaturals
  <2>. QED
    BY <2>1
<1>3. \A u \in T : t >= u
  BY <1>2
<1>. QED
  BY <1>3 DEF Max

-----------------------------------------------------------------------------
(* A recursive function on the subsets of a finite set.                    *)

Picks(S, pick) == \A T \in SUBSET S : T # {} => pick[T] \in T
IsRecursion(S, A, base, g, pick, f) ==
    /\ f \in [SUBSET S -> A]
    /\ \A T \in SUBSET S : f[T] = IF T = {} THEN base ELSE g[<<pick[T], f[T \ {pick[T]}]>>]

LEMMA SetRecursion ==
  ASSUME NEW S, IsFiniteSet(S), NEW A, NEW base, base \in A, NEW g, g \in [S \X A -> A],
         NEW pick, Picks(S, pick)
  PROVE  \E f : IsRecursion(S, A, base, g, pick, f)
<1>0. \A T \in SUBSET S : T # {} => pick[T] \in T
  BY DEF Picks
<1>. DEFINE Good(f, n) == \A T \in SUBSET S : Cardinality(T) <= n =>
                f[T] = IF T = {} THEN base ELSE g[<<pick[T], f[T \ {pick[T]}]>>]
            Done(n) == \E f \in [SUBSET S -> A] : Good(f, n)
<1>1. \A T \in SUBSET S : IsFiniteSet(T) /\ Cardinality(T) \in Nat /\ (Cardinality(T) = 0 <=> T = {})
  BY FS_Subset, FS_CardinalityType, FS_EmptySet
<1>2. Done(0)
  <2>1. Good([T \in SUBSET S |-> base], 0)
    BY <1>1
  <2>. QED
    BY <2>1
<1>3. ASSUME NEW n \in Nat, Done(n)
      PROVE  Done(n + 1)
  <2>1. PICK f \in [SUBSET S -> A] : Good(f, n)
    BY <1>3
  <2>. DEFINE h == [T \in SUBSET S |->
                     IF Cardinality(T) <= n THEN f[T] ELSE g[<<pick[T], f[T \ {pick[T]}]>>]]
  <2>2. \A T \in SUBSET S : T # {} => /\ pick[T] \in S /\ T \ {pick[T]} \in SUBSET S
                                      /\ Cardinality(T \ {pick[T]}) = Cardinality(T) - 1
    BY <1>0, <1>1, FS_RemoveElement
  <2>3. \A T \in SUBSET S : ~ (Cardinality(T) <= n) => T # {}
    BY <1>1
  <2>4. h \in [SUBSET S -> A]
    BY <2>2, <2>3
  <2>5. ASSUME NEW T \in SUBSET S, Cardinality(T) <= n + 1, T # {}
        PROVE  h[T] = g[<<pick[T], h[T \ {pick[T]}]>>]
    <3>1. h[T \ {pick[T]}] = f[T \ {pick[T]}]
      BY <1>1, <2>2, <2>5
    <3>2. CASE Cardinality(T) <= n
      BY <2>1, <2>5, <3>1, <3>2
    <3>3. CASE ~ (Cardinality(T) <= n)
      BY <2>5, <3>1, <3>3
    <3>. QED
      BY <3>2, <3>3
  <2>6. h[{}] = base
    BY <1>1, <2>1
  <2>7. Good(h, n + 1)
    BY <2>5, <2>6
  <2>. HIDE DEF h, Good
  <2>. QED
    BY <2>4, <2>7
<1>4. \A n \in Nat : Done(n)
  <2>. HIDE DEF Done
  <2>1. 0 \in {n \in Nat : Done(n)} /\ \A n \in Nat : n \in {m \in Nat : Done(m)} => n + 1 \in {m \in Nat : Done(m)}
    BY <1>2, <1>3
  <2>2. PICK T : T = {n \in Nat : Done(n)}
    OBVIOUS
  <2>. QED
    BY <2>1, <2>2, InductionOnNat
<1>5. Cardinality(S) \in Nat
  BY <1>1
<1>6. PICK f \in [SUBSET S -> A] : Good(f, Cardinality(S))
  <2>. HIDE DEF Good
  <2>. QED
    BY <1>4, <1>5
<1>7. \A T \in SUBSET S : Cardinality(T) <= Cardinality(S)
  BY FS_Subset
<1>. QED
  BY <1>6, <1>7 DEF IsRecursion

-----------------------------------------------------------------------------
(* A fold runs through a sequence: what it holds after so many elements.   *)

\* g takes what has been made of s so far and its next element.
Foldable(A, B, g, base, s) == g \in [A \X B -> A] /\ base \in A /\ s \in Seq(B)

IsRun(A, g, base, s, r) ==
    /\ r \in [0 .. Len(s) -> A]
    /\ r[0] = base
    /\ \A k \in 1 .. Len(s) : r[k] = g[<<r[k - 1], s[k]>>]

RunOf(A, g, base, s)  == CHOOSE r : IsRun(A, g, base, s, r)
Folded(A, g, base, s) == RunOf(A, g, base, s)[Len(s)]

LEMMA RunExists ==
  ASSUME NEW A, NEW B, NEW g \in [A \X B -> A], NEW base \in A, NEW s \in Seq(B)
  PROVE  \E r : IsRun(A, g, base, s, r)
<1>. DEFINE Good(r, n) == \A k \in 1 .. Len(s) : k <= n => r[k] = g[<<r[k - 1], s[k]>>]
            Done(n) == \E r \in [0 .. Len(s) -> A] : r[0] = base /\ Good(r, n)
<1>1. Done(0)
  <2>. DEFINE r == [k \in 0 .. Len(s) |-> base]
  <2>1. r \in [0 .. Len(s) -> A] /\ r[0] = base /\ Good(r, 0)
    OBVIOUS
  <2>. HIDE DEF r, Good
  <2>. QED
    BY <2>1
<1>2. ASSUME NEW n \in Nat, Done(n)
      PROVE  Done(n + 1)
  <2>1. PICK r \in [0 .. Len(s) -> A] : r[0] = base /\ Good(r, n)
    BY <1>2
  <2>2. CASE n + 1 \in 1 .. Len(s)
    <3>. DEFINE q == [k \in 0 .. Len(s) |-> IF k = n + 1 THEN g[<<r[n], s[n + 1]>>] ELSE r[k]]
    <3>1. g[<<r[n], s[n + 1]>>] \in A
      BY <2>2
    <3>2. q \in [0 .. Len(s) -> A] /\ q[0] = base
      BY <2>1, <3>1
    <3>3. ASSUME NEW k \in 1 .. Len(s), k <= n + 1
          PROVE  q[k] = g[<<q[k - 1], s[k]>>]
      <4>1. q[k - 1] = r[k - 1] /\ k - 1 \in 0 .. Len(s)
        BY <3>3
      <4>2. CASE k = n + 1
        <5>1. q[k] = g[<<r[n], s[n + 1]>>] /\ k - 1 = n
          BY <4>2
        <5>. QED
          BY <4>1, <4>2, <5>1
      <4>3. CASE k # n + 1
        <5>1. q[k] = r[k] /\ k <= n
          BY <3>3, <4>3
        <5>. QED
          BY <2>1, <4>1, <5>1
      <4>. QED
        BY <4>2, <4>3
    <3>4. Good(q, n + 1)
      BY <3>3
    <3>. HIDE DEF q, Good
    <3>. QED
      BY <3>2, <3>4
  <2>3. CASE n + 1 \notin 1 .. Len(s)
    BY <2>1, <2>3
  <2>. QED
    BY <2>2, <2>3
<1>3. \A n \in Nat : Done(n)
  <2>. HIDE DEF Done
  <2>1. 0 \in {n \in Nat : Done(n)} /\ \A n \in Nat : n \in {m \in Nat : Done(m)} => n + 1 \in {m \in Nat : Done(m)}
    BY <1>1, <1>2
  <2>2. PICK T : T = {n \in Nat : Done(n)}
    OBVIOUS
  <2>. QED
    BY <2>1, <2>2, InductionOnNat
<1>4. PICK r \in [0 .. Len(s) -> A] : r[0] = base /\ Good(r, Len(s))
  <2>1. Done(Len(s))
    <3>1. Len(s) \in Nat
      OBVIOUS
    <3>. HIDE DEF Done
    <3>. QED
      BY <1>3, <3>1
  <2>. HIDE DEF Good
  <2>. QED
    BY <2>1
<1>. QED
  BY <1>4 DEF IsRun

\* As far as m, f goes the way of the run.
Follows(A, g, base, s, f, m) ==
    /\ f[0] = base
    /\ \A k \in 1 .. m : f[k - 1] \in A => f[k] = g[<<f[k - 1], s[k]>>]

LEMMA RunIsUnique ==
  ASSUME NEW A, NEW g, NEW base, NEW s, Len(s) \in Nat,
         NEW r, IsRun(A, g, base, s, r),
         NEW f, NEW m \in 0 .. Len(s), Follows(A, g, base, s, f, m)
  PROVE  f[m] = r[m]
<1>. DEFINE Fine == {n \in Nat : n <= m => f[n] = r[n]}
<1>1. 0 \in Fine
  BY DEF IsRun, Follows
<1>2. ASSUME NEW n \in Nat, n \in Fine
      PROVE  n + 1 \in Fine
  <2>. SUFFICES ASSUME n + 1 <= m PROVE f[n + 1] = r[n + 1]
    OBVIOUS
  <2>1. f[n] = r[n] /\ r[n] \in A
    BY <1>2 DEF IsRun
  <2>2. n + 1 - 1 = n /\ n + 1 \in 1 .. m /\ n + 1 \in 1 .. Len(s)
    OBVIOUS
  <2>3. f[n + 1] = g[<<f[n], s[n + 1]>>] /\ r[n + 1] = g[<<r[n], s[n + 1]>>]
    BY <2>1, <2>2 DEF IsRun, Follows
  <2>. QED
    BY <2>1, <2>3
<1>3. Nat \subseteq Fine
  <2>. HIDE DEF Fine
  <2>. QED
    BY <1>1, <1>2, InductionOnNat
<1>. QED
  BY <1>3

LEMMA FoldedRun ==
  ASSUME NEW A, NEW B, NEW g, NEW base, NEW s, Foldable(A, B, g, base, s)
  PROVE  IsRun(A, g, base, s, RunOf(A, g, base, s))
BY RunExists DEF RunOf, Foldable

LEMMA FoldedType ==
  ASSUME NEW A, NEW B, NEW g, NEW base, NEW s, Foldable(A, B, g, base, s)
  PROVE  Folded(A, g, base, s) \in A
<1>. g \in [A \X B -> A] /\ base \in A /\ s \in Seq(B)
  BY DEF Foldable
<1>1. PICK r : r = RunOf(A, g, base, s)
  OBVIOUS
<1>2. IsRun(A, g, base, s, r)
  BY <1>1, FoldedRun
<1>. QED
  BY <1>1, <1>2 DEF Folded, IsRun

LEMMA FoldedEmpty ==
  ASSUME NEW A, NEW B, NEW g \in [A \X B -> A], NEW base \in A
  PROVE  Folded(A, g, base, <<>>) = base
<1>1. <<>> \in Seq(B) /\ Len(<<>>) = 0
  OBVIOUS
<1>2. PICK r : r = RunOf(A, g, base, <<>>)
  OBVIOUS
<1>3. IsRun(A, g, base, <<>>, r)
  BY <1>1, <1>2, FoldedRun DEF Foldable
<1>. QED
  BY <1>1, <1>2, <1>3 DEF Folded, IsRun

LEMMA FoldedAppend ==
  ASSUME NEW A, NEW B, NEW g, NEW base, NEW s, Foldable(A, B, g, base, s), NEW e \in B
  PROVE  Folded(A, g, base, Append(s, e)) = g[<<Folded(A, g, base, s), e>>]
<1>. g \in [A \X B -> A] /\ base \in A /\ s \in Seq(B)
  BY DEF Foldable
<1>. DEFINE t == Append(s, e)
            r == RunOf(A, g, base, s)
            q == RunOf(A, g, base, t)
<1>1. /\ t \in Seq(B) /\ Len(t) = Len(s) + 1 /\ t[Len(s) + 1] = e
      /\ \A k \in 1 .. Len(s) : t[k] = s[k]
  OBVIOUS
<1>. HIDE DEF t
<1>2. IsRun(A, g, base, s, r) /\ IsRun(A, g, base, t, q)
  <2>1. Foldable(A, B, g, base, t)
    BY <1>1 DEF Foldable
  <2>. QED
    BY <2>1, FoldedRun
<1>. HIDE DEF r, q
<1>3. q[Len(s)] = r[Len(s)]
  <2>1. q[0] = base /\ \A k \in 1 .. Len(s) : q[k] = g[<<q[k - 1], s[k]>>]
    BY <1>1, <1>2 DEF IsRun
  <2>2. Len(s) \in 0 .. Len(s) /\ Follows(A, g, base, s, q, Len(s))
    BY <2>1 DEF Follows
  <2>. QED
    BY <1>2, <2>2, RunIsUnique
<1>4. q[Len(s) + 1] = g[<<q[Len(s)], e>>]
  BY <1>1, <1>2 DEF IsRun
<1>. QED
  BY <1>1, <1>3, <1>4 DEF Folded, r, q, t

-----------------------------------------------------------------------------
(* What FoldLeft of the community modules evaluates: F, on the subsets of  *)
(* the positions. There is such a function, and on 1 .. k it is the run.   *)

IsLeftFold(A, g, base, s, f) ==
    /\ f \in [SUBSET (1 .. Len(s)) -> A]
    /\ \A T \in SUBSET (1 .. Len(s)) :
          f[T] = IF T = {} THEN base ELSE g[<<f[T \ {Max(T)}], s[Max(T)]>>]
\* The same of a function that is only known to stay in A as far as it does.
FoldsLeft(A, g, base, s, F) ==
    \A T \in SUBSET (1 .. Len(s)) :
       /\ T = {} => F[T] = base
       /\ T # {} /\ F[T \ {Max(T)}] \in A => F[T] = g[<<F[T \ {Max(T)}], s[Max(T)]>>]

LEMMA LeftFoldExists ==
  ASSUME NEW A, NEW B, NEW g, NEW base, NEW s, Foldable(A, B, g, base, s)
  PROVE  \E f : IsLeftFold(A, g, base, s, f)
<1>. g \in [A \X B -> A] /\ base \in A /\ s \in Seq(B)
  BY DEF Foldable
<1>. DEFINE S == 1 .. Len(s)
            h == [e \in S \X A |-> g[<<e[2], s[e[1]]>>]]
<1>1. Len(s) \in Nat /\ IsFiniteSet(S) /\ \A i \in S : s[i] \in B
  BY FS_Interval
<1>2. \A T \in SUBSET S : T # {} => Max(T) \in T
  BY <1>1, MaxIsOne
<1>4. h \in [S \X A -> A] /\ \A i \in S, a \in A : h[<<i, a>>] = g[<<a, s[i]>>]
  BY <1>1
<1>5. PICK top : top = [T \in SUBSET S |-> Max(T)]
  OBVIOUS
<1>6. Picks(S, top)
  BY <1>2, <1>5 DEF Picks
<1>. HIDE DEF h
<1>7. PICK f \in [SUBSET S -> A] : \A T \in SUBSET S :
            f[T] = IF T = {} THEN base ELSE h[<<top[T], f[T \ {top[T]}]>>]
  <2>. HIDE DEF S
  <2>1. IsFiniteSet(S) /\ base \in A /\ h \in [S \X A -> A]
    BY <1>1, <1>4
  <2>2. \E f : IsRecursion(S, A, base, h, top, f)
    BY <2>1, <1>6, SetRecursion
  <2>. QED
    BY <2>2 DEF IsRecursion
<1>8. ASSUME NEW T \in SUBSET S, T # {}
      PROVE  f[T] = g[<<f[T \ {Max(T)}], s[Max(T)]>>]
  <2>1. top[T] = Max(T) /\ Max(T) \in S /\ f[T \ {Max(T)}] \in A
    BY <1>2, <1>5, <1>8
  <2>2. f[T] = h[<<Max(T), f[T \ {Max(T)}]>>]
    BY <1>7, <1>8, <2>1
  <2>3. h[<<Max(T), f[T \ {Max(T)}]>>] = g[<<f[T \ {Max(T)}], s[Max(T)]>>]
    <3>1. \A a \in A, i \in S : h[<<i, a>>] = g[<<a, s[i]>>]
      BY <1>4
    <3>. HIDE DEF S
    <3>. QED
      BY <2>1, <3>1
  <2>. QED
    BY <2>2, <2>3
<1>9. IsLeftFold(A, g, base, s, f)
  BY <1>7, <1>8 DEF IsLeftFold
<1>. QED
  BY <1>9

LEMMA LeftFoldRuns ==
  ASSUME NEW A, NEW B, NEW g, NEW base, NEW s, Foldable(A, B, g, base, s), NEW F,
         FoldsLeft(A, g, base, s, F)
  PROVE  F[1 .. Len(s)] = Folded(A, g, base, s)
<1>. g \in [A \X B -> A] /\ base \in A /\ s \in Seq(B)
  BY DEF Foldable
<1>1. PICK n : n = Len(s)
  OBVIOUS
<1>2. n \in Nat
  BY <1>1
<1>a. \A T \in SUBSET (1 .. Len(s)) :
            /\ T = {} => F[T] = base
            /\ T # {} /\ F[T \ {Max(T)}] \in A => F[T] = g[<<F[T \ {Max(T)}], s[Max(T)]>>]
  BY DEF FoldsLeft
<1>. DEFINE f == [k \in 0 .. n |-> F[1 .. k]]
<1>3. f[0] = base
  <2>1. 1 .. 0 = {} /\ {} \in SUBSET (1 .. Len(s))
    OBVIOUS
  <2>2. F[{}] = base
    BY <1>a, <2>1
  <2>. QED
    BY <1>2, <2>1, <2>2
<1>4. ASSUME NEW k \in 1 .. n, f[k - 1] \in A
      PROVE  f[k] = g[<<f[k - 1], s[k]>>]
  <2>1. 1 .. k \in SUBSET (1 .. n) /\ 1 .. k # {} /\ (1 .. k) \ {k} = 1 .. (k - 1) /\ k \in Nat \ {0}
    <3>1. k \in Nat \ {0} /\ k <= n
      BY <1>2
    <3>2. k \in 1 .. k /\ \A i \in 1 .. k : i \in 1 .. n
      BY <1>2, <3>1
    <3>3. \A i : i \in (1 .. k) \ {k} <=> i \in 1 .. (k - 1)
      BY <3>1
    <3>. QED
      BY <3>1, <3>2, <3>3
  <2>2. Max(1 .. k) = k
    BY <2>1, MaxOfInterval
  <2>3. f[k] = F[1 .. k] /\ f[k - 1] = F[1 .. (k - 1)]
    BY <1>2
  <2>. HIDE DEF f
  <2>. QED
    BY <1>1, <1>4, <1>a, <2>1, <2>2, <2>3
<1>5. PICK r : r = RunOf(A, g, base, s)
  OBVIOUS
<1>6. IsRun(A, g, base, s, r)
  BY <1>5, FoldedRun
<1>7. f[n] = r[n]
  <2>1. Follows(A, g, base, s, f, n) /\ n \in 0 .. Len(s)
    <3>. HIDE DEF f
    <3>. QED
      BY <1>1, <1>2, <1>3, <1>4 DEF Follows
  <2>. HIDE DEF f
  <2>. QED
    BY <1>1, <1>2, <1>6, <2>1, RunIsUnique
<1>. QED
  BY <1>1, <1>2, <1>5, <1>7 DEF Folded


-----------------------------------------------------------------------------
(* Induction over the sequences over B, from the left to the right.        *)
LEMMA InductionOnSeq ==
  ASSUME NEW B, NEW G, <<>> \in G, \A s \in Seq(B), e \in B : s \in G => Append(s, e) \in G
  PROVE  Seq(B) \subseteq G
<1>. DEFINE Fine == {n \in Nat : \A s \in Seq(B) : Len(s) = n => s \in G}
<1>1. 0 \in Fine
  <2>1. \A s \in Seq(B) : Len(s) = 0 => s = <<>>
    OBVIOUS
  <2>. QED
    BY <2>1
<1>2. ASSUME NEW n \in Nat, n \in Fine PROVE n + 1 \in Fine
  <2>. SUFFICES ASSUME NEW s \in Seq(B), Len(s) = n + 1 PROVE s \in G
    OBVIOUS
  <2>1. PICK t : t = SubSeq(s, 1, n)
    OBVIOUS
  <2>2. t \in Seq(B) /\ Len(t) = n /\ s[n + 1] \in B /\ \A i \in 1 .. n : t[i] = s[i]
    BY <2>1
  <2>3. s = Append(t, s[n + 1])
    BY <2>2
  <2>. QED
    BY <1>2, <2>2, <2>3
<1>3. Nat \subseteq Fine
  <2>. HIDE DEF Fine
  <2>. QED
    BY <1>1, <1>2, InductionOnNat
<1>4. \A s \in Seq(B) : Len(s) \in Nat
  OBVIOUS
<1>. QED
  BY <1>3, <1>4

(* FlattenSeq of the community modules, one sequence after the other.      *)
Joins(B) == [e \in Seq(B) \X Seq(B) |-> e[1] \o e[2]]

LEMMA JoinsType ==
  ASSUME NEW B
  PROVE  /\ Joins(B) \in [Seq(B) \X Seq(B) -> Seq(B)]
         /\ \A s, t \in Seq(B) : Joins(B)[<<s, t>>] = s \o t
<1>1. \A s, t \in Seq(B) : s \o t \in Seq(B)
  OBVIOUS
<1>. QED
  BY <1>1 DEF Joins

LEMMA FlattenFolds ==
  ASSUME NEW B, NEW ss \in Seq(Seq(B))
  PROVE  FlattenSeq(ss) = Folded(Seq(B), Joins(B), <<>>, ss)
<1>1. PICK g : g = Joins(B)
  OBVIOUS
<1>2. /\ g \in [Seq(B) \X Seq(B) -> Seq(B)] /\ \A s, t \in Seq(B) : g[<<s, t>>] = s \o t
      /\ Foldable(Seq(B), Seq(B), g, <<>>, ss)
  <2>1. g \in [Seq(B) \X Seq(B) -> Seq(B)] /\ \A s, t \in Seq(B) : g[<<s, t>>] = s \o t
    BY <1>1, JoinsType, Zenon
  <2>2. <<>> \in Seq(B)
    OBVIOUS
  <2>. QED
    BY <2>1, <2>2 DEF Foldable
<1>3. PICK r : r = RunOf(Seq(B), g, <<>>, ss)
  OBVIOUS
<1>4. /\ r \in [0 .. Len(ss) -> Seq(B)] /\ r[0] = <<>>
      /\ \A k \in 1 .. Len(ss) : r[k] = r[k - 1] \o ss[k]
  <2>1. IsRun(Seq(B), g, <<>>, ss, r)
    BY <1>2, <1>3, FoldedRun
  <2>2. ASSUME NEW k \in 1 .. Len(ss) PROVE r[k - 1] \in Seq(B) /\ ss[k] \in Seq(B)
    <3>1. Len(ss) \in Nat /\ ss[k] \in Seq(B)
      OBVIOUS
    <3>2. k - 1 \in 0 .. Len(ss)
      BY <3>1
    <3>. QED
      BY <2>1, <3>1, <3>2 DEF IsRun
  <2>. QED
    BY <1>2, <2>1, <2>2 DEF IsRun
<1>5. Len(ss) \in Nat /\ \A k \in 1 .. Len(ss) : ss[k] \in Seq(B)
  OBVIOUS
<1>b. \A k \in 2 .. Len(ss) : r[k] = r[k - 1] \o ss[k]
  <2>1. \A n \in Nat : \A k \in 2 .. n : k \in 1 .. n
    OBVIOUS
  <2>2. \A k \in 2 .. Len(ss) : k \in 1 .. Len(ss)
    BY <1>5, <2>1, Zenon
  <2>. QED
    BY <1>4, <2>2, Zenon
<1>c. 1 \in 1 .. Len(ss) => r[1] = ss[1]
  <2>1. \A t \in Seq(B) : <<>> \o t = t
    OBVIOUS
  <2>2. 1 \in 1 .. Len(ss) => r[1] = r[0] \o ss[1]
    <3>1. 1 - 1 = 0
      OBVIOUS
    <3>. QED
      BY <1>4, <3>1
  <2>. QED
    BY <1>4, <1>5, <2>1, <2>2
<1>6. CASE Len(ss) = 0
  <2>1. ss = <<>>
    BY <1>6
  <2>2. FlattenSeq(ss) = <<>>
    BY <1>6, <2>1 DEF FlattenSeq
  <2>. QED
    BY <1>1, <1>2, <2>1, <2>2, FoldedEmpty DEF Foldable
<1>7. CASE Len(ss) # 0
  <2>. DEFINE Eqn(f) == f = [i \in 1 .. Len(ss) |-> IF i = 1 THEN ss[i] ELSE f[i - 1] \o ss[i]]
              F == CHOOSE f : Eqn(f)
  <2>1. FlattenSeq(ss) = F[Len(ss)]
    BY <1>7 DEF FlattenSeq
  <2>2. \E f : Eqn(f)
    <3>1. PICK f : f = [i \in 1 .. Len(ss) |-> r[i]]
      OBVIOUS
    <3>2. ASSUME NEW i \in 1 .. Len(ss) PROVE f[i] = IF i = 1 THEN ss[i] ELSE f[i - 1] \o ss[i]
      <4>1. CASE i = 1
        BY <1>c, <3>1, <4>1
      <4>2. CASE i # 1
        <5>1. i - 1 \in 1 .. Len(ss) /\ i \in 2 .. Len(ss)
          BY <1>5, <4>2
        <5>. QED
          BY <1>b, <3>1, <4>2, <5>1
      <4>. QED
        BY <4>1, <4>2
    <3>3. Eqn(f)
      BY <3>1, <3>2
    <3>. QED
      BY <3>3
  <2>3. Eqn(F)
    BY <2>2
  <2>. HIDE DEF F
  <2>. DEFINE Fine == {n \in Nat : n + 1 \in 1 .. Len(ss) => F[n + 1] = r[n + 1]}
  <2>4. 0 \in Fine
    <3>. SUFFICES ASSUME 1 \in 1 .. Len(ss) PROVE F[1] = r[1]
      OBVIOUS
    <3>1. F[1] = ss[1]
      BY <2>3
    <3>. QED
      BY <1>c, <3>1
  <2>5. ASSUME NEW n \in Nat, n \in Fine PROVE n + 1 \in Fine
    <3>. SUFFICES ASSUME n + 1 + 1 \in 1 .. Len(ss) PROVE F[n + 1 + 1] = r[n + 1 + 1]
      OBVIOUS
    <3>1. PICK k : k = n + 1 + 1
      OBVIOUS
    <3>2. k \in 2 .. Len(ss) /\ k \in 1 .. Len(ss) /\ k # 1 /\ k - 1 = n + 1 /\ n + 1 \in 1 .. Len(ss)
      BY <1>5, <3>1
    <3>3. F[k] = F[k - 1] \o ss[k]
      BY <2>3, <3>2
    <3>4. r[k] = r[k - 1] \o ss[k]
      BY <1>b, <3>2
    <3>. QED
      BY <2>5, <3>1, <3>2, <3>3, <3>4
  <2>6. Nat \subseteq Fine
    <3>. HIDE DEF Fine
    <3>. QED
      BY <2>4, <2>5, InductionOnNat
  <2>7. F[Len(ss)] = r[Len(ss)]
    <3>1. Len(ss) - 1 \in Nat /\ Len(ss) - 1 + 1 = Len(ss) /\ Len(ss) \in 1 .. Len(ss)
      BY <1>5, <1>7
    <3>. QED
      BY <2>6, <3>1
  <2>. QED
    BY <1>1, <1>3, <2>1, <2>7 DEF Folded
<1>. QED
  BY <1>6, <1>7

LEMMA FlattenNone == FlattenSeq(<<>>) = <<>>
BY DEF FlattenSeq

LEMMA FlattenAppend ==
  ASSUME NEW B, NEW ss \in Seq(Seq(B)), NEW t \in Seq(B)
  PROVE  /\ FlattenSeq(Append(ss, t)) = FlattenSeq(ss) \o t
         /\ FlattenSeq(ss) \in Seq(B)
<1>1. PICK g : g = Joins(B)
  OBVIOUS
<1>2. g \in [Seq(B) \X Seq(B) -> Seq(B)] /\ \A u, v \in Seq(B) : g[<<u, v>>] = u \o v
  BY <1>1, JoinsType, Zenon
<1>3. Foldable(Seq(B), Seq(B), g, <<>>, ss)
  <2>1. <<>> \in Seq(B)
    OBVIOUS
  <2>. QED
    BY <1>2, <2>1 DEF Foldable
<1>4. Append(ss, t) \in Seq(Seq(B))
  OBVIOUS
<1>5. /\ FlattenSeq(ss) = Folded(Seq(B), g, <<>>, ss)
      /\ FlattenSeq(Append(ss, t)) = Folded(Seq(B), g, <<>>, Append(ss, t))
  BY <1>1, <1>4, FlattenFolds
<1>6. Folded(Seq(B), g, <<>>, Append(ss, t)) = g[<<Folded(Seq(B), g, <<>>, ss), t>>]
  BY <1>3, FoldedAppend
<1>7. Folded(Seq(B), g, <<>>, ss) \in Seq(B)
  BY <1>3, FoldedType
<1>. QED
  BY <1>2, <1>5, <1>6, <1>7

-----------------------------------------------------------------------------
(* Sums of integers over a finite set, in whatever order they are added.   *)

LEMMA InductionOnSubsets ==
  ASSUME NEW S, IsFiniteSet(S), NEW G, {} \in G,
         \A T \in SUBSET S : \A x \in S \ T : T \in G => T \cup {x} \in G
  PROVE  SUBSET S \subseteq G
<1>. DEFINE Fine == {n \in Nat : \A T \in SUBSET S : Cardinality(T) = n => T \in G}
<1>1. \A T \in SUBSET S : IsFiniteSet(T) /\ Cardinality(T) \in Nat /\ (Cardinality(T) = 0 <=> T = {})
  BY FS_Subset, FS_CardinalityType, FS_EmptySet
<1>2. 0 \in Fine
  BY <1>1
<1>3. ASSUME NEW n \in Nat, n \in Fine PROVE n + 1 \in Fine
  <2>. SUFFICES ASSUME NEW T \in SUBSET S, Cardinality(T) = n + 1 PROVE T \in G
    OBVIOUS
  <2>1. PICK x \in T : TRUE
    BY <1>1
  <2>2. Cardinality(T \ {x}) = n
    <3>1. IsFiniteSet(T) /\ x \in T
      BY <1>1, <2>1
    <3>2. Cardinality(T \ {x}) = Cardinality(T) - 1
      BY <3>1, FS_RemoveElement
    <3>. QED
      BY <1>3, <3>2
  <2>3. T \ {x} \in G /\ T \ {x} \in SUBSET S /\ x \in S \ (T \ {x}) /\ (T \ {x}) \cup {x} = T
    BY <1>3, <2>1, <2>2
  <2>. QED
    BY <2>3
<1>4. Nat \subseteq Fine
  <2>. HIDE DEF Fine
  <2>. QED
    BY <1>2, <1>3, InductionOnNat
<1>. QED
  BY <1>1, <1>4

IsSum(v, S, f) ==
    /\ f \in [SUBSET S -> Int]
    /\ f[{}] = 0
    /\ \A T \in SUBSET S : \A x \in T : f[T] = f[T \ {x}] + v[x]

SetSum(v, S) == (CHOOSE f : IsSum(v, S, f))[S]

LEMMA SumExists ==
  ASSUME NEW S, IsFiniteSet(S), NEW v, \A x \in S : v[x] \in Int
  PROVE  \E f : IsSum(v, S, f)
<1>. DEFINE g == [e \in S \X Int |-> e[2] + v[e[1]]]
            pick == [T \in SUBSET S |-> CHOOSE x \in T : TRUE]
<1>1. g \in [S \X Int -> Int] /\ \A x \in S, a \in Int : g[<<x, a>>] = a + v[x]
  OBVIOUS
<1>2. Picks(S, pick)
  BY DEF Picks
<1>. HIDE DEF g
<1>3. PICK f : IsRecursion(S, Int, 0, g, pick, f)
  <2>1. 0 \in Int
    OBVIOUS
  <2>. HIDE DEF pick
  <2>. QED
    BY <1>1, <1>2, <2>1, SetRecursion
<1>4. /\ f \in [SUBSET S -> Int] /\ f[{}] = 0
      /\ \A T \in SUBSET S : T # {} => pick[T] \in T /\ f[T] = f[T \ {pick[T]}] + v[pick[T]]
  <2>1. f \in [SUBSET S -> Int] /\ f[{}] = 0
    BY <1>3 DEF IsRecursion
  <2>2. ASSUME NEW T \in SUBSET S, T # {} PROVE pick[T] \in T /\ f[T] = f[T \ {pick[T]}] + v[pick[T]]
    <3>. HIDE DEF pick
    <3>1. pick[T] \in T
      BY <1>2, <2>2 DEF Picks
    <3>2. f[T] = g[<<pick[T], f[T \ {pick[T]}]>>]
      BY <1>3, <2>2 DEF IsRecursion
    <3>. QED
      BY <1>1, <2>1, <3>1, <3>2
  <2>. HIDE DEF pick
  <2>. QED
    BY <2>1, <2>2
<1>. HIDE DEF pick
<1>. DEFINE G == {T \in SUBSET S : \A x \in T : f[T] = f[T \ {x}] + v[x]}
            Fine == {n \in Nat : \A T \in SUBSET S : Cardinality(T) <= n => T \in G}
<1>5. \A T \in SUBSET S : IsFiniteSet(T) /\ Cardinality(T) \in Nat /\ (Cardinality(T) = 0 <=> T = {})
  BY FS_Subset, FS_CardinalityType, FS_EmptySet
<1>6. 0 \in Fine
  <2>1. {} \in G
    OBVIOUS
  <2>2. ASSUME NEW T \in SUBSET S, Cardinality(T) <= 0 PROVE T \in G
    BY <1>5, <2>1, <2>2
  <2>. QED
    BY <2>2
<1>7. ASSUME NEW n \in Nat, n \in Fine PROVE n + 1 \in Fine
  <2>. SUFFICES ASSUME NEW T \in SUBSET S, Cardinality(T) <= n + 1, NEW x \in T
                PROVE  f[T] = f[T \ {x}] + v[x]
    OBVIOUS
  <2>1. PICK p : p = pick[T]
    OBVIOUS
  <2>2. p \in T /\ f[T] = f[T \ {p}] + v[p] /\ v[p] \in Int /\ v[x] \in Int
    BY <1>4, <2>1
  <2>3. CASE p # x
    <3>1. Cardinality(T \ {x}) <= n /\ Cardinality(T \ {p}) <= n
      <4>1. Cardinality(T \ {x}) = Cardinality(T) - 1 /\ Cardinality(T \ {p}) = Cardinality(T) - 1
        BY <1>5, <2>2, FS_RemoveElement
      <4>. QED
        BY <1>5, <4>1
    <3>2. T \ {x} \in G /\ T \ {p} \in G
      BY <1>7, <3>1
    <3>3. f[T \ {p}] = f[(T \ {p}) \ {x}] + v[x]
      BY <2>2, <2>3, <3>2
    <3>4. f[T \ {x}] = f[(T \ {x}) \ {p}] + v[p]
      BY <2>2, <2>3, <3>2
    <3>5. (T \ {x}) \ {p} = (T \ {p}) \ {x} /\ (T \ {x}) \ {p} \in SUBSET S
      OBVIOUS
    <3>6. PICK a : a = f[(T \ {x}) \ {p}]
      OBVIOUS
    <3>7. a \in Int
      BY <1>4, <3>5, <3>6
    <3>8. f[T] = a + v[x] + v[p] /\ f[T \ {x}] = a + v[p]
      <4>1. f[T \ {p}] = a + v[x] /\ f[T \ {x}] = a + v[p]
        BY <3>3, <3>4, <3>5, <3>6
      <4>. QED
        BY <2>2, <4>1
    <3>. QED
      BY <2>2, <3>7, <3>8
  <2>. QED
    BY <2>2, <2>3
<1>8. Nat \subseteq Fine
  <2>. HIDE DEF Fine
  <2>. QED
    BY <1>6, <1>7, InductionOnNat
<1>9. \A T \in SUBSET S : T \in G
  BY <1>5, <1>8
<1>. HIDE DEF Fine
<1>10. IsSum(v, S, f)
  BY <1>4, <1>9 DEF IsSum
<1>. QED
  BY <1>10

LEMMA SumsAgree ==
  ASSUME NEW S, IsFiniteSet(S), NEW Z, NEW v, NEW w, \A x \in S : v[x] = w[x],
         NEW f, IsSum(v, Z, f), NEW h, IsSum(w, S, h), S \subseteq Z
  PROVE  f[S] = h[S]
<1>. DEFINE G == {T \in SUBSET S : f[T] = h[T]}
<1>1. {} \in G
  BY DEF IsSum
<1>2. ASSUME NEW T \in SUBSET S, NEW x \in S \ T, T \in G PROVE T \cup {x} \in G
  <2>1. (T \cup {x}) \ {x} = T /\ T \cup {x} \in SUBSET S /\ T \cup {x} \in SUBSET Z
    OBVIOUS
  <2>2. f[T \cup {x}] = f[(T \cup {x}) \ {x}] + v[x]
    BY <2>1 DEF IsSum
  <2>3. h[T \cup {x}] = h[(T \cup {x}) \ {x}] + w[x]
    BY <2>1 DEF IsSum
  <2>. QED
    BY <1>2, <2>1, <2>2, <2>3
<1>3. SUBSET S \subseteq G
  <2>. HIDE DEF G
  <2>. QED
    BY <1>1, <1>2, InductionOnSubsets
<1>. QED
  BY <1>3

LEMMA SumIsOne ==
  ASSUME NEW S, IsFiniteSet(S), NEW v, \A x \in S : v[x] \in Int
  PROVE  \E f : IsSum(v, S, f) /\ SetSum(v, S) = f[S]
BY SumExists DEF SetSum

LEMMA SumType ==
  ASSUME NEW S, IsFiniteSet(S), NEW v, \A x \in S : v[x] \in Int
  PROVE  SetSum(v, S) \in Int
<1>1. PICK f : IsSum(v, S, f) /\ SetSum(v, S) = f[S]
  BY SumIsOne
<1>. QED
  BY <1>1 DEF IsSum

LEMMA SumOfNothing ==
  ASSUME NEW v
  PROVE  SetSum(v, {}) = 0
<1>1. IsFiniteSet({}) /\ \A x \in {} : v[x] \in Int
  BY FS_EmptySet
<1>2. PICK f : IsSum(v, {}, f) /\ SetSum(v, {}) = f[{}]
  BY <1>1, SumIsOne
<1>. QED
  BY <1>2 DEF IsSum

LEMMA SumSame ==
  ASSUME NEW S, IsFiniteSet(S), NEW v, NEW w, \A x \in S : v[x] \in Int /\ w[x] = v[x]
  PROVE  SetSum(w, S) = SetSum(v, S)
<1>1. PICK f : IsSum(v, S, f) /\ SetSum(v, S) = f[S]
  BY SumIsOne
<1>2. PICK h : IsSum(w, S, h) /\ SetSum(w, S) = h[S]
  BY SumIsOne
<1>3. \A x \in S : w[x] = v[x]
  OBVIOUS
<1>. QED
  BY <1>1, <1>2, <1>3, SumsAgree

LEMMA SumRemove ==
  ASSUME NEW S, IsFiniteSet(S), NEW v, \A x \in S : v[x] \in Int, NEW p \in S
  PROVE  SetSum(v, S) = SetSum(v, S \ {p}) + v[p]
<1>1. PICK f : IsSum(v, S, f) /\ SetSum(v, S) = f[S]
  BY SumIsOne
<1>2. IsFiniteSet(S \ {p}) /\ S \ {p} \subseteq S
  BY FS_Subset
<1>3. PICK h : IsSum(v, S \ {p}, h) /\ SetSum(v, S \ {p}) = h[S \ {p}]
  <2>1. \A x \in S \ {p} : v[x] \in Int
    OBVIOUS
  <2>. QED
    BY <1>2, <2>1, SumIsOne
<1>4. f[S \ {p}] = h[S \ {p}]
  BY <1>1, <1>2, <1>3, SumsAgree
<1>. QED
  BY <1>1, <1>3, <1>4 DEF IsSum


LEMMA SumAdds ==
  ASSUME NEW S, IsFiniteSet(S), NEW v, NEW u, NEW w,
         \A x \in S : v[x] \in Int /\ u[x] \in Int /\ w[x] = v[x] + u[x]
  PROVE  SetSum(w, S) = SetSum(v, S) + SetSum(u, S)
<1>. DEFINE G == {T \in SUBSET S : SetSum(w, T) = SetSum(v, T) + SetSum(u, T)}
<1>1. {} \in G
  BY SumOfNothing
<1>2. ASSUME NEW T \in SUBSET S, NEW x \in S \ T, T \in G PROVE T \cup {x} \in G
  <2>1. PICK Z : Z = T \cup {x}
    OBVIOUS
  <2>2. /\ Z \ {x} = T /\ x \in Z /\ Z \in SUBSET S /\ IsFiniteSet(Z) /\ IsFiniteSet(T)
        /\ \A y \in Z : v[y] \in Int /\ u[y] \in Int /\ w[y] \in Int
    BY <2>1, FS_Subset
  <2>3. SetSum(v, Z) = SetSum(v, T) + v[x] /\ SetSum(u, Z) = SetSum(u, T) + u[x]
    BY <2>2, SumRemove
  <2>4. SetSum(w, Z) = SetSum(w, T) + w[x]
    BY <2>2, SumRemove
  <2>5. SetSum(v, T) \in Int /\ SetSum(u, T) \in Int
    BY <2>2, SumType
  <2>6. SetSum(w, T) = SetSum(v, T) + SetSum(u, T) /\ w[x] = v[x] + u[x] /\ v[x] \in Int /\ u[x] \in Int
    BY <1>2
  <2>7. SetSum(w, Z) = SetSum(v, Z) + SetSum(u, Z)
    BY <2>3, <2>4, <2>5, <2>6
  <2>. QED
    BY <2>1, <2>2, <2>7
<1>3. SUBSET S \subseteq G
  <2>. HIDE DEF G
  <2>. QED
    BY <1>1, <1>2, InductionOnSubsets
<1>. QED
  BY <1>3

LEMMA SumOfEqual ==
  ASSUME NEW S, IsFiniteSet(S), NEW v, NEW c \in Int, \A x \in S : v[x] = c
  PROVE  SetSum(v, S) = c * Cardinality(S)
<1>. DEFINE G == {T \in SUBSET S : SetSum(v, T) = c * Cardinality(T)}
<1>1. {} \in G
  BY SumOfNothing, FS_EmptySet
<1>2. ASSUME NEW T \in SUBSET S, NEW x \in S \ T, T \in G PROVE T \cup {x} \in G
  <2>1. PICK Z : Z = T \cup {x}
    OBVIOUS
  <2>2. /\ Z \ {x} = T /\ x \in Z /\ Z \in SUBSET S /\ IsFiniteSet(Z) /\ IsFiniteSet(T)
        /\ \A y \in Z : v[y] \in Int
    BY <2>1, FS_Subset
  <2>3. SetSum(v, Z) = SetSum(v, T) + c
    BY <2>2, SumRemove
  <2>4. Cardinality(Z) = Cardinality(T) + 1 /\ Cardinality(T) \in Nat
    BY <2>1, <2>2, FS_AddElement, FS_CardinalityType
  <2>5. c * (Cardinality(T) + 1) = c * Cardinality(T) + c
    <3>1. \A n \in Nat : c * (n + 1) = c * n + c
      OBVIOUS
    <3>. QED
      BY <2>4, <3>1
  <2>6. SetSum(v, Z) = c * Cardinality(Z)
    BY <1>2, <2>3, <2>4, <2>5
  <2>. QED
    BY <2>1, <2>2, <2>6
<1>3. SUBSET S \subseteq G
  <2>. HIDE DEF G
  <2>. QED
    BY <1>1, <1>2, InductionOnSubsets
<1>. QED
  BY <1>3

LEMMA SumAtMost ==
  ASSUME NEW S, IsFiniteSet(S), NEW v, NEW c \in Int, \A x \in S : v[x] \in Int /\ v[x] <= c
  PROVE  SetSum(v, S) <= c * Cardinality(S)
<1>. DEFINE G == {T \in SUBSET S : SetSum(v, T) <= c * Cardinality(T)}
<1>1. {} \in G
  BY SumOfNothing, FS_EmptySet
<1>2. ASSUME NEW T \in SUBSET S, NEW x \in S \ T, T \in G PROVE T \cup {x} \in G
  <2>1. PICK Z : Z = T \cup {x}
    OBVIOUS
  <2>2. /\ Z \ {x} = T /\ x \in Z /\ Z \in SUBSET S /\ IsFiniteSet(Z) /\ IsFiniteSet(T)
        /\ \A y \in Z : v[y] \in Int
    BY <2>1, FS_Subset
  <2>3. SetSum(v, Z) = SetSum(v, T) + v[x] /\ SetSum(v, T) \in Int /\ v[x] \in Int /\ v[x] <= c
    BY <2>2, SumRemove, SumType
  <2>4. Cardinality(Z) = Cardinality(T) + 1 /\ Cardinality(T) \in Nat
    BY <2>1, <2>2, FS_AddElement, FS_CardinalityType
  <2>5. c * (Cardinality(T) + 1) = c * Cardinality(T) + c /\ c * Cardinality(T) \in Int
    <3>1. \A n \in Nat : c * (n + 1) = c * n + c /\ c * n \in Int
      OBVIOUS
    <3>. QED
      BY <2>4, <3>1
  <2>6. SetSum(v, Z) <= c * Cardinality(Z)
    <3>1. PICK m : m = c * Cardinality(T)
      OBVIOUS
    <3>2. m \in Int /\ c * Cardinality(Z) = m + c /\ SetSum(v, T) <= m
      BY <1>2, <2>4, <2>5, <3>1
    <3>. QED
      BY <2>3, <3>2
  <2>. QED
    BY <2>1, <2>2, <2>6
<1>3. SUBSET S \subseteq G
  <2>. HIDE DEF G
  <2>. QED
    BY <1>1, <1>2, InductionOnSubsets
<1>. QED
  BY <1>3

(* What one gives another leaves the sum as it is.                         *)
LEMMA SumOfMove ==
  ASSUME NEW S, IsFiniteSet(S), NEW v, \A x \in S : v[x] \in Int,
         NEW c \in S, NEW d \in S, c # d, NEW a \in Int,
         NEW w, w[c] = v[c] - a, w[d] = v[d] + a, \A x \in S : x # c /\ x # d => w[x] = v[x]
  PROVE  SetSum(w, S) = SetSum(v, S)
<1>1. PICK R : R = (S \ {c}) \ {d}
  OBVIOUS
<1>2. /\ IsFiniteSet(S \ {c}) /\ IsFiniteSet(R) /\ R \subseteq S /\ d \in S \ {c}
      /\ \A x \in R : v[x] \in Int /\ w[x] = v[x]
      /\ \A x \in S : w[x] \in Int
  BY <1>1, FS_Subset
<1>3. SetSum(v, S) = SetSum(v, S \ {c}) + v[c] /\ SetSum(w, S) = SetSum(w, S \ {c}) + w[c]
  BY <1>2, SumRemove
<1>4. SetSum(v, S \ {c}) = SetSum(v, R) + v[d] /\ SetSum(w, S \ {c}) = SetSum(w, R) + w[d]
  <2>1. \A x \in S \ {c} : v[x] \in Int /\ w[x] \in Int
    BY <1>2
  <2>. QED
    BY <1>1, <1>2, <2>1, SumRemove
<1>5. SetSum(w, R) = SetSum(v, R) /\ SetSum(v, R) \in Int
  BY <1>2, SumSame, SumType
<1>. QED
  BY <1>3, <1>4, <1>5

(* One more, and what is not negative.                                     *)
LEMMA SumInsert ==
  ASSUME NEW S, IsFiniteSet(S), NEW v, \A x \in S : v[x] \in Int, NEW T \in SUBSET S, NEW y \in S \ T
  PROVE  /\ SetSum(v, T \cup {y}) = SetSum(v, T) + v[y]
         /\ SetSum(v, T) \in Int
<1>1. IsFiniteSet(T \cup {y}) /\ IsFiniteSet(T) /\ \A x \in T \cup {y} : v[x] \in Int
  BY FS_Subset
<1>2. SetSum(v, T \cup {y}) = SetSum(v, (T \cup {y}) \ {y}) + v[y]
  BY <1>1, SumRemove
<1>3. (T \cup {y}) \ {y} = T
  OBVIOUS
<1>. QED
  BY <1>1, <1>2, <1>3, SumType

LEMMA SumIsNatural ==
  ASSUME NEW S, IsFiniteSet(S), NEW v, \A x \in S : v[x] \in Nat
  PROVE  SetSum(v, S) \in Nat
<1>. DEFINE G == {T \in SUBSET S : SetSum(v, T) \in Nat}
<1>1. {} \in G
  BY SumOfNothing
<1>2. ASSUME NEW T \in SUBSET S, NEW y \in S \ T, T \in G PROVE T \cup {y} \in G
  <2>1. SetSum(v, T \cup {y}) = SetSum(v, T) + v[y]
    BY SumInsert
  <2>. QED
    BY <1>2, <2>1
<1>3. SUBSET S \subseteq G
  <2>. HIDE DEF G
  <2>. QED
    BY <1>1, <1>2, InductionOnSubsets
<1>. QED
  BY <1>3

LEMMA SumOfChosen ==
  ASSUME NEW S, IsFiniteSet(S), NEW K \in SUBSET S, NEW c \in Int, NEW z,
         \A x \in S : z[x] = IF x \in K THEN c ELSE 0
  PROVE  SetSum(z, S) = c * Cardinality(K)
<1>. DEFINE G == {T \in SUBSET S : SetSum(z, T) = c * Cardinality(T \cap K)}
<1>1. {} \in G
  <2>1. {} \cap K = {} /\ Cardinality({}) = 0
    BY FS_EmptySet
  <2>. QED
    BY <2>1, SumOfNothing
<1>2. ASSUME NEW T \in SUBSET S, NEW y \in S \ T, T \in G PROVE T \cup {y} \in G
  <2>0. \A x \in S : z[x] \in Int
    OBVIOUS
  <2>1. SetSum(z, T \cup {y}) = SetSum(z, T) + z[y]
    BY <2>0, SumInsert
  <2>2. PICK n : n = Cardinality(T \cap K)
    OBVIOUS
  <2>3. IsFiniteSet(T \cap K) /\ n \in Nat
    BY <2>2, FS_Subset, FS_CardinalityType
  <2>4. CASE y \in K
    <3>1. (T \cup {y}) \cap K = (T \cap K) \cup {y} /\ y \notin T \cap K
      BY <2>4
    <3>2. Cardinality((T \cap K) \cup {y}) = n + 1
      BY <2>2, <2>3, <3>1, FS_AddElement
    <3>3. c * (n + 1) = c * n + c
      BY <2>3
    <3>. QED
      BY <1>2, <2>1, <2>2, <2>4, <3>1, <3>2, <3>3
  <2>5. CASE y \notin K
    <3>1. (T \cup {y}) \cap K = T \cap K
      BY <2>5
    <3>2. c * n + 0 = c * n
      BY <2>3
    <3>. QED
      BY <1>2, <2>1, <2>2, <2>5, <3>1, <3>2
  <2>. QED
    BY <2>4, <2>5
<1>3. SUBSET S \subseteq G
  <2>. HIDE DEF G
  <2>. QED
    BY <1>1, <1>2, InductionOnSubsets
<1>4. S \cap K = K
  OBVIOUS
<1>. QED
  BY <1>3, <1>4

Apart(S, w, y) == IsFiniteSet(S) /\ (\A x \in S : w[x] \in Int) /\ y \notin S /\ w[y] \in Int

LEMMA SumWithOne ==
  ASSUME NEW S, NEW w, NEW y, Apart(S, w, y)
  PROVE  SetSum(w, S \cup {y}) = SetSum(w, S) + w[y]
<1>. IsFiniteSet(S) /\ (\A x \in S : w[x] \in Int) /\ y \notin S /\ w[y] \in Int
  BY DEF Apart
<1>1. PICK Z : Z = S \cup {y}
  OBVIOUS
<1>2. IsFiniteSet(Z) /\ Z \ {y} = S /\ y \in Z
  BY <1>1, FS_AddElement
<1>3. \A x \in Z : w[x] \in Int
  BY <1>1
<1>4. SetSum(w, Z) = SetSum(w, Z \ {y}) + w[y]
  BY <1>2, <1>3, SumRemove
<1>. QED
  BY <1>1, <1>2, <1>4

\* Two ways to count one thing: what each of M has of X, and what all of M have
\* of each of X.
Having(M, x, R) == {t \in M : <<t, x>> \in R}
Had(X, t, R)    == {x \in X : <<t, x>> \in R}

Exchange(M, X, R, v, w, u) ==
    /\ IsFiniteSet(M) /\ IsFiniteSet(X)
    /\ \A x \in X : v[x] \in Int /\ w[x] = v[x] * Cardinality(Having(M, x, R))
    /\ \A t \in M : u[t] = SetSum(v, Had(X, t, R))

LEMMA SumsExchange ==
  ASSUME NEW M, NEW X, NEW R, NEW v, NEW w, NEW u, Exchange(M, X, R, v, w, u)
  PROVE  SetSum(u, M) = SetSum(w, X)
<1>. IsFiniteSet(M) /\ IsFiniteSet(X) /\ \A x \in X : v[x] \in Int
  BY DEF Exchange
<1>. DEFINE Of(T) == [t \in M |-> SetSum(v, {x \in T : <<t, x>> \in R})]
            G == {T \in SUBSET X : SetSum(Of(T), M) = SetSum(w, T)}
<1>1. {} \in G
  <2>1. \A t \in M : Of({})[t] = 0
    BY SumOfNothing
  <2>2. SetSum(Of({}), M) = 0 * Cardinality(M) /\ Cardinality(M) \in Nat
    BY <2>1, SumOfEqual, FS_CardinalityType
  <2>. QED
    BY <2>2, SumOfNothing
<1>0. /\ \A x \in X : w[x] = v[x] * Cardinality({t \in M : <<t, x>> \in R})
      /\ \A t \in M : u[t] = SetSum(v, {x \in X : <<t, x>> \in R})
  BY DEF Exchange, Having, Had
<1>2. \A x \in X : w[x] \in Int
  <2>1. ASSUME NEW x \in X PROVE Cardinality({t \in M : <<t, x>> \in R}) \in Nat
    <3>1. PICK K : K = {t \in M : <<t, x>> \in R}
      OBVIOUS
    <3>2. K \subseteq M
      BY <3>1
    <3>3. IsFiniteSet(K)
      BY <3>2, FS_Subset
    <3>. QED
      BY <3>1, <3>3, FS_CardinalityType
  <2>2. \A c \in Int, n \in Nat : c * n \in Int
    OBVIOUS
  <2>. QED
    BY <1>0, <2>1, <2>2
<1>3. ASSUME NEW T \in SUBSET X, NEW y \in X \ T, T \in G PROVE T \cup {y} \in G
  <2>1. PICK K : K = {t \in M : <<t, y>> \in R}
    OBVIOUS
  <2>2. PICK z : z = [t \in M |-> IF t \in K THEN v[y] ELSE 0]
    OBVIOUS
  <2>3. ASSUME NEW t \in M
        PROVE  /\ Of(T)[t] \in Int /\ z[t] \in Int
               /\ Of(T \cup {y})[t] = Of(T)[t] + z[t]
    <3>1. PICK mine : mine = {x \in T : <<t, x>> \in R}
      OBVIOUS
    <3>2. mine \in SUBSET X /\ y \in X \ mine
      BY <3>1
    <3>3. SetSum(v, mine \cup {y}) = SetSum(v, mine) + v[y] /\ SetSum(v, mine) \in Int
      BY <3>2, SumInsert
    <3>4. CASE t \in K
      <4>1. {x \in T \cup {y} : <<t, x>> \in R} = mine \cup {y}
        BY <2>1, <3>1, <3>4
      <4>. QED
        BY <2>2, <3>1, <3>3, <3>4, <4>1
    <3>5. CASE t \notin K
      <4>1. {x \in T \cup {y} : <<t, x>> \in R} = mine
        BY <2>1, <3>1, <3>5
      <4>2. z[t] = 0 /\ Of(T \cup {y})[t] = SetSum(v, mine) /\ Of(T)[t] = SetSum(v, mine)
        BY <2>2, <3>1, <3>5, <4>1
      <4>. QED
        BY <3>3, <4>2
    <3>. QED
      BY <3>4, <3>5
  <2>4. SetSum(Of(T \cup {y}), M) = SetSum(Of(T), M) + SetSum(z, M)
    <3>. HIDE DEF Of
    <3>. QED
      BY <2>3, SumAdds
  <2>5. SetSum(z, M) = v[y] * Cardinality(K)
    <3>1. K \in SUBSET M /\ v[y] \in Int /\ \A t \in M : z[t] = IF t \in K THEN v[y] ELSE 0
      BY <2>1, <2>2
    <3>2. PICK c \in Int : c = v[y]
      BY <3>1
    <3>. QED
      BY <3>1, <3>2, SumOfChosen
  <2>6. SetSum(w, T \cup {y}) = SetSum(w, T) + w[y]
    BY <1>2, SumInsert
  <2>. HIDE DEF Of
  <2>. QED
    BY <1>0, <1>3, <2>1, <2>4, <2>5, <2>6
<1>4. SUBSET X \subseteq G
  <2>. HIDE DEF G
  <2>. QED
    BY <1>1, <1>3, InductionOnSubsets
<1>5. SetSum(Of(X), M) = SetSum(w, X)
  BY <1>4
<1>6. \A t \in M : Of(X)[t] \in Int /\ u[t] = Of(X)[t]
  <2>1. ASSUME NEW t \in M PROVE Of(X)[t] \in Int
    <3>1. PICK mine : mine = {x \in X : <<t, x>> \in R}
      OBVIOUS
    <3>2. IsFiniteSet(mine) /\ \A x \in mine : v[x] \in Int
      BY <3>1, FS_Subset
    <3>. QED
      BY <3>1, <3>2, SumType
  <2>. QED
    BY <1>0, <2>1
<1>. HIDE DEF Of
<1>. QED
  BY <1>5, <1>6, SumSame

=============================================================================

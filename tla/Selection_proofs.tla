-------------------------- MODULE Selection_proofs --------------------------
(* What Only, Append, \o and SubSeq do to the type, the range, the length and *)
(* the repetitions of a sequence.  The provers cannot instantiate the         *)
(* induction theorems of the library, which take an operator: induction is    *)
(* over a set here.                                                           *)
EXTENDS Selection, FiniteSetTheorems, WellFoundedInduction, TLAPS

-----------------------------------------------------------------------------
(* Induction over data without an operator as a parameter *)

\* The order of the numbers, as the set of pairs WFMin takes.
LEMMA NatBelowIsWellFounded == IsWellFoundedOn({p \in Nat \X Nat : p[1] < p[2]}, Nat)
  BY NatLessThanWellFounded, Zenon DEF OpToRel

\* Induction over the numbers for a set instead of a predicate: a set that
\* holds 0 and the successor of each of its elements holds them all.
LEMMA SetInduction ==
  ASSUME NEW P, 0 \in P, \A n \in Nat : n \in P => n + 1 \in P
  PROVE  Nat \subseteq P
<1> DEFINE below == {p \in Nat \X Nat : p[1] < p[2]}
<1>1. ASSUME NEW x \in Nat, NEW y \in Nat, y < x PROVE <<y, x>> \in below
  BY <1>1, SMT
<1>2. IsWellFoundedOn(below, Nat)
  BY NatBelowIsWellFounded, Zenon
<1> HIDE DEF below
<1>3. SUFFICES ASSUME Nat \ P # {} PROVE FALSE
  OBVIOUS
<1>4. PICK x \in Nat \ P : \A y \in Nat \ P : <<y, x>> \notin below
  BY <1>2, <1>3, WFMin, Zenon
<1>5. x # 0 /\ x - 1 \in Nat /\ x - 1 < x /\ (x - 1) + 1 = x
  BY <1>4, SMT
<1>6. x - 1 \in P
  BY <1>1, <1>4, <1>5
<1> QED
  BY <1>4, <1>5, <1>6

-----------------------------------------------------------------------------
(* Only, the choice of the elements of a set *)

\* f is the function that Only(s, T) computes on the first n elements of s.
IsOnly(f, s, T, n) ==
  f = [i \in 0..n |->
        IF i = 0 THEN <<>>
        ELSE IF s[i] \in T THEN Append(f[i - 1], s[i]) ELSE f[i - 1]]

\* One element of that function.
LEMMA OnlyStep ==
  ASSUME NEW f, NEW s, NEW T, NEW n, IsOnly(f, s, T, n), NEW i \in 0..n
  PROVE  f[i] = IF i = 0 THEN <<>>
                ELSE IF s[i] \in T THEN Append(f[i - 1], s[i]) ELSE f[i - 1]
  BY Zenon DEF IsOnly

\* There is one for no element,
LEMMA OnlyStarts == ASSUME NEW s, NEW T PROVE \E f : IsOnly(f, s, T, 0)
<1> DEFINE g == [i \in 0..0 |-> <<>>]
<1>1. g = [i \in 0..0 |->
        IF i = 0 THEN <<>>
        ELSE IF s[i] \in T THEN Append(g[i - 1], s[i]) ELSE g[i - 1]]
  BY SMT
<1> QED BY <1>1, Zenon DEF IsOnly

\* one more element extends it,
LEMMA OnlyContinues ==
  ASSUME NEW s, NEW T, NEW n \in Nat, NEW f, IsOnly(f, s, T, n)
  PROVE  \E g : IsOnly(g, s, T, n + 1)
<1> DEFINE g == [i \in 0..(n + 1) |->
                   IF i = n + 1 THEN IF s[i] \in T THEN Append(f[n], s[i]) ELSE f[n]
                   ELSE f[i]]
<1>1. \A i \in 0..n : g[i] = f[i] /\ f[i] = IF i = 0 THEN <<>>
        ELSE IF s[i] \in T THEN Append(f[i - 1], s[i]) ELSE f[i - 1]
  <2> TAKE i \in 0..n
  <2>1. i \in 0..(n + 1) /\ i # n + 1
    BY SMT
  <2>2. g[i] = f[i]
    BY <2>1
  <2>3. f[i] = IF i = 0 THEN <<>>
        ELSE IF s[i] \in T THEN Append(f[i - 1], s[i]) ELSE f[i - 1]
    BY Zenon DEF IsOnly
  <2> QED BY <2>2, <2>3
<1>2. \A i \in 0..(n + 1) : g[i] = IF i = 0 THEN <<>>
        ELSE IF s[i] \in T THEN Append(g[i - 1], s[i]) ELSE g[i - 1]
  <2> TAKE i \in 0..(n + 1)
  <2>1. CASE i = n + 1
    BY <2>1, <1>1, SMT
  <2>2. CASE i \in 0..n
    <3>1. i = 0 \/ i - 1 \in 0..n
      BY <2>2, SMT
    <3>2. g[i] = f[i] /\ (i # 0 => g[i - 1] = f[i - 1])
      BY <1>1, <2>2, <3>1
    <3> QED BY <3>2, <1>1, <2>2
  <2> QED BY <2>1, <2>2, SMT
<1>3. g = [i \in 0..(n + 1) |-> IF i = 0 THEN <<>>
        ELSE IF s[i] \in T THEN Append(g[i - 1], s[i]) ELSE g[i - 1]]
  BY <1>2, Zenon
<1> QED BY <1>3, Zenon DEF IsOnly

\* and so there is one for each length.
LEMMA OnlyExists == ASSUME NEW s, NEW T, NEW n \in Nat PROVE \E f : IsOnly(f, s, T, n)
<1> DEFINE P == {k \in Nat : \E f : IsOnly(f, s, T, k)}
<1>1. 0 \in P
  BY OnlyStarts
<1>2. \A k \in Nat : k \in P => k + 1 \in P
  BY OnlyContinues
<1> HIDE DEF P
<1>3. n \in P
  BY <1>1, <1>2, SetInduction
<1> QED BY <1>3 DEF P

\* Only(s, T) is the last value of such a function.
LEMMA OnlyIsLast ==
  ASSUME NEW S, NEW s \in Seq(S), NEW T
  PROVE  \E f : IsOnly(f, s, T, Len(s)) /\ Only(s, T) = f[Len(s)]
<1>1. \E f : IsOnly(f, s, T, Len(s))
  <2>1. Len(s) \in Nat
    OBVIOUS
  <2> QED BY <2>1, OnlyExists
<1>2. Only(s, T) = (CHOOSE f : IsOnly(f, s, T, Len(s)))[Len(s)]
  BY Zenon DEF Only, IsOnly
<1> QED BY <1>1, <1>2, Zenon

\* Nothing is chosen from nothing.
LEMMA OnlyEmpty == ASSUME NEW T PROVE Only(<<>>, T) = <<>>
<1>1. PICK f : IsOnly(f, <<>>, T, Len(<<>>)) /\ Only(<<>>, T) = f[Len(<<>>)]
  <2>1. <<>> \in Seq({}) BY SMT
  <2> QED BY <2>1, OnlyIsLast
<1> QED BY <1>1, SMT DEF IsOnly

\* An element appended to s is appended to the choice, or left out of it.
LEMMA OnlyAppend ==
  ASSUME NEW S, NEW s \in Seq(S), NEW x \in S, NEW T
  PROVE  Only(Append(s, x), T) = IF x \in T THEN Append(Only(s, T), x) ELSE Only(s, T)
<1> DEFINE t == Append(s, x)
           n == Len(s)
<1>1. /\ t \in Seq(S) /\ n \in Nat /\ Len(t) = n + 1
      /\ t[n + 1] = x /\ \A i \in 1..n : t[i] = s[i]
  BY SMT
<1>2. PICK f : IsOnly(f, s, T, n) /\ Only(s, T) = f[n]
  BY OnlyIsLast
<1>3. PICK g : IsOnly(g, t, T, n + 1) /\ Only(t, T) = g[n + 1]
  BY OnlyIsLast, <1>1
<1> HIDE DEF t, n
<1>4. \A i \in 0..n : f[i] = IF i = 0 THEN <<>>
        ELSE IF s[i] \in T THEN Append(f[i - 1], s[i]) ELSE f[i - 1]
  BY <1>2, OnlyStep
<1>5. \A i \in 0..(n + 1) : g[i] = IF i = 0 THEN <<>>
        ELSE IF t[i] \in T THEN Append(g[i - 1], t[i]) ELSE g[i - 1]
  BY <1>3, OnlyStep
<1> DEFINE P == {k \in Nat : k <= n => f[k] = g[k]}
<1>6. 0 \in P
  BY <1>1, <1>4, <1>5, SMT
<1>7. ASSUME NEW k \in Nat, k \in P PROVE k + 1 \in P
  <2>1. SUFFICES ASSUME k + 1 <= n PROVE f[k + 1] = g[k + 1]
    OBVIOUS
  <2>2. f[k] = g[k] /\ t[k + 1] = s[k + 1] /\ k + 1 \in 0..n /\ k + 1 # 0
        /\ k + 1 \in 0..(n + 1) /\ (k + 1) - 1 = k
    BY <1>1, <1>7, <2>1, SMT
  <2> QED BY <2>2, <1>4, <1>5
<1> HIDE DEF P
<1>8. n \in P
  BY <1>1, <1>6, <1>7, SetInduction
<1>9. f[n] = g[n]
  BY <1>1, <1>8, SMT DEF P
<1>10. n + 1 \in 0..(n + 1) /\ n + 1 # 0 /\ (n + 1) - 1 = n
  BY <1>1, SMT
<1>11. g[n + 1] = IF x \in T THEN Append(g[n], x) ELSE g[n]
  BY <1>1, <1>5, <1>10
<1> QED BY <1>2, <1>3, <1>9, <1>11 DEF t

-----------------------------------------------------------------------------
(* Ranges and repetitions *)

\* An appended element: the range, and no repetition when it is new.
LEMMA AppendFacts ==
  ASSUME NEW S, NEW s \in Seq(S), NEW x \in S
  PROVE  /\ Append(s, x) \in Seq(S)
         /\ ToSet(Append(s, x)) = ToSet(s) \union {x}
         /\ IsInjective(s) /\ x \notin ToSet(s) => IsInjective(Append(s, x))
         /\ IsInjective(Append(s, x)) => IsInjective(s) /\ x \notin ToSet(s)
<1> DEFINE t == Append(s, x)
           n == Len(s)
<1>1. /\ t \in Seq(S) /\ n \in Nat /\ DOMAIN s = 1..n /\ DOMAIN t = 1..(n + 1)
      /\ t[n + 1] = x /\ \A i \in 1..n : t[i] = s[i]
  BY SMT
<1> HIDE DEF t, n
<1>2. 1..(n + 1) = 1..n \union {n + 1} /\ n + 1 \notin 1..n
  BY <1>1, SMT
<1>3. ToSet(t) = ToSet(s) \union {x}
  BY <1>1, <1>2 DEF ToSet
<1>4. IsInjective(s) /\ x \notin ToSet(s) => IsInjective(t)
  BY <1>1, <1>2 DEF ToSet, IsInjective
<1>5. IsInjective(t) => IsInjective(s) /\ x \notin ToSet(s)
  BY <1>1, <1>2 DEF ToSet, IsInjective
<1> QED BY <1>1, <1>3, <1>4, <1>5 DEF t

\* Only chooses exactly the elements in T and repeats none that s does not.
LEMMA OnlyFacts ==
  ASSUME NEW S, NEW T, NEW r \in Seq(S)
  PROVE  /\ Only(r, T) \in Seq(S)
         /\ ToSet(Only(r, T)) = ToSet(r) \intersect T
         /\ IsInjective(r) => IsInjective(Only(r, T))
<1> DEFINE Good(s) == /\ Only(s, T) \in Seq(S)
                      /\ ToSet(Only(s, T)) = ToSet(s) \intersect T
                      /\ IsInjective(s) => IsInjective(Only(s, T))
           P == {n \in Nat : \A s \in Seq(S) : Len(s) = n => Good(s)}
<1>1. 0 \in P
  <2>1. SUFFICES ASSUME NEW s \in Seq(S), Len(s) = 0 PROVE Good(s)
    OBVIOUS
  <2>2. s = <<>>
    BY <2>1
  <2>3. Only(s, T) = <<>>
    BY <2>2, OnlyEmpty
  <2>4. ToSet(s) = {}
    BY <2>2 DEF ToSet
  <2> QED BY <2>2, <2>3, <2>4
<1>2. ASSUME NEW n \in Nat, n \in P PROVE n + 1 \in P
  <2>1. SUFFICES ASSUME NEW s \in Seq(S), Len(s) = n + 1 PROVE Good(s)
    OBVIOUS
  <2> DEFINE t == SubSeq(s, 1, n)
             x == s[n + 1]
  <2>2. t \in Seq(S) /\ x \in S /\ Len(t) = n /\ s = Append(t, x)
    BY <2>1, SMT
  <2> HIDE DEF t, x
  <2>3. Good(t)
    BY <1>2, <2>2
  <2>4. Only(s, T) = IF x \in T THEN Append(Only(t, T), x) ELSE Only(t, T)
    BY <2>2, OnlyAppend
  <2>5. Only(s, T) \in Seq(S) /\ ToSet(Only(s, T)) = ToSet(s) \intersect T
    <3>1. ToSet(s) = ToSet(t) \union {x}
      BY <2>2, AppendFacts
    <3>2. CASE x \in T
      BY <3>1, <3>2, <2>2, <2>3, <2>4, AppendFacts
    <3>3. CASE x \notin T
      BY <3>1, <3>3, <2>3, <2>4
    <3> QED BY <3>2, <3>3
  <2>6. ASSUME IsInjective(s) PROVE IsInjective(Only(s, T))
    <3>1. IsInjective(t) /\ x \notin ToSet(t)
      BY <2>2, <2>6, AppendFacts
    <3>2. IsInjective(Only(t, T)) /\ x \notin ToSet(Only(t, T))
      BY <2>3, <3>1
    <3>3. CASE x \in T
      BY <3>2, <3>3, <2>2, <2>3, <2>4, AppendFacts
    <3>4. CASE x \notin T
      BY <3>2, <3>4, <2>4
    <3> QED BY <3>3, <3>4
  <2> QED BY <2>5, <2>6
<1> HIDE DEF P
<1>3. Nat \subseteq P
  BY <1>1, <1>2, SetInduction
<1>4. Len(r) \in P
  <2>1. Len(r) \in Nat
    OBVIOUS
  <2> QED BY <2>1, <1>3
<1> QED BY <1>4 DEF P

\* A concatenation: the range, and no repetition between disjoint parts.
LEMMA ConcatFacts ==
  ASSUME NEW S, NEW s \in Seq(S), NEW t \in Seq(S)
  PROVE  /\ s \o t \in Seq(S)
         /\ ToSet(s \o t) = ToSet(s) \union ToSet(t)
         /\ IsInjective(s) /\ IsInjective(t) /\ ToSet(s) \intersect ToSet(t) = {}
                => IsInjective(s \o t)
<1> DEFINE u == s \o t
           n == Len(s)
           k == Len(t)
<1>1. /\ u \in Seq(S) /\ n \in Nat /\ k \in Nat
      /\ DOMAIN s = 1..n /\ DOMAIN t = 1..k /\ DOMAIN u = 1..(n + k)
      /\ \A i \in 1..n : u[i] = s[i]
      /\ \A i \in 1..(n + k) : i > n => u[i] = t[i - n]
  BY SMT
<1>2. \A i \in 1..k : u[i + n] = t[i]
  BY <1>1, SMT
<1> HIDE DEF u, n, k
<1>3. ToSet(u) \subseteq ToSet(s) \union ToSet(t)
  <2>1. SUFFICES ASSUME NEW i \in 1..(n + k) PROVE u[i] \in ToSet(s) \union ToSet(t)
    BY <1>1 DEF ToSet
  <2>2. CASE i \in 1..n
    BY <2>2, <1>1 DEF ToSet
  <2>3. CASE i > n
    <3>1. i - n \in 1..k
      BY <1>1, <2>3, SMT
    <3> QED BY <3>1, <2>3, <1>1 DEF ToSet
  <2> QED BY <1>1, <2>2, <2>3, SMT
<1>4. ToSet(s) \union ToSet(t) \subseteq ToSet(u)
  <2>1. \A i \in 1..n : i \in 1..(n + k)
    BY <1>1, SMT
  <2>2. \A i \in 1..k : i + n \in 1..(n + k)
    BY <1>1, SMT
  <2> QED BY <1>1, <1>2, <2>1, <2>2 DEF ToSet
<1>5. ASSUME IsInjective(s), IsInjective(t), ToSet(s) \intersect ToSet(t) = {}
      PROVE  IsInjective(u)
  <2>1. SUFFICES ASSUME NEW i \in 1..(n + k), NEW j \in 1..(n + k), u[i] = u[j]
                 PROVE  i = j
    BY <1>1 DEF IsInjective
  <2>2. ASSUME NEW a \in 1..(n + k) PROVE a \in 1..n \/ (a > n /\ a - n \in 1..k)
    BY <1>1, SMT
  <2>3. CASE i \in 1..n /\ j \in 1..n
    BY <2>1, <2>3, <1>1, <1>5 DEF IsInjective
  <2>4. CASE i > n /\ j > n /\ i - n \in 1..k /\ j - n \in 1..k
    <3>1. u[i] = t[i - n] /\ u[j] = t[j - n]
      BY <1>1, <2>4
    <3>2. i - n = j - n
      <4>1. DOMAIN t = 1..k
        BY <1>1, SMT
      <4> QED BY <2>1, <2>4, <3>1, <4>1, <1>5, Zenon DEF IsInjective
    <3> QED BY <2>4, <3>2, <1>1, SMT
  <2>5. CASE i \in 1..n /\ j > n /\ j - n \in 1..k
    BY <2>1, <2>5, <1>1, <1>5 DEF ToSet
  <2>6. CASE j \in 1..n /\ i > n /\ i - n \in 1..k
    BY <2>1, <2>6, <1>1, <1>5 DEF ToSet
  <2> QED BY <2>2, <2>3, <2>4, <2>5, <2>6
<1> QED BY <1>1, <1>3, <1>4, <1>5 DEF u

\* The first n elements of a sequence, all of them when n reaches its length.
LEMMA FirstFacts ==
  ASSUME NEW S, NEW s \in Seq(S), NEW n \in Nat
  PROVE  /\ FirstOf(n, s) \in Seq(S)
         /\ ToSet(FirstOf(n, s)) \subseteq ToSet(s)
         /\ IsInjective(s) => IsInjective(FirstOf(n, s))
         /\ Len(s) <= n => FirstOf(n, s) = s
         /\ \A x \in S : n <= Len(s) => FirstOf(n, Append(s, x)) = FirstOf(n, s)
<1> DEFINE t == FirstOf(n, s)
           k == IF n < Len(s) THEN n ELSE Len(s)
<1>1. /\ t \in Seq(S) /\ k \in Nat /\ k <= Len(s) /\ Len(s) \in Nat
      /\ DOMAIN t = 1..k /\ DOMAIN s = 1..Len(s) /\ \A i \in 1..k : t[i] = s[i]
  BY SMT DEF FirstOf
<1>2. Len(s) <= n => t = s
  BY SMT DEF FirstOf
<1>3. \A x \in S : n <= Len(s) => FirstOf(n, Append(s, x)) = t
  BY SMT DEF FirstOf
<1> HIDE DEF t, k
<1>4. \A i \in 1..k : i \in 1..Len(s)
  BY <1>1, SMT
<1>5. ToSet(t) \subseteq ToSet(s)
  BY <1>1, <1>4 DEF ToSet
<1>6. IsInjective(s) => IsInjective(t)
  BY <1>1, <1>4 DEF IsInjective
<1> QED BY <1>1, <1>2, <1>3, <1>5, <1>6 DEF t

\* A sequence without repetition has as many elements as its range.
LEMMA InjectiveLength ==
  ASSUME NEW S, NEW r \in Seq(S), IsInjective(r)
  PROVE  IsFiniteSet(ToSet(r)) /\ Cardinality(ToSet(r)) = Len(r)
<1> DEFINE P == {n \in Nat : \A s \in Seq(S) : Len(s) = n /\ IsInjective(s)
                    => IsFiniteSet(ToSet(s)) /\ Cardinality(ToSet(s)) = n}
<1>1. 0 \in P
  <2>1. SUFFICES ASSUME NEW s \in Seq(S), Len(s) = 0
                 PROVE  IsFiniteSet(ToSet(s)) /\ Cardinality(ToSet(s)) = 0
    OBVIOUS
  <2>2. ToSet(s) = {}
    BY <2>1 DEF ToSet
  <2> QED BY <2>2, FS_EmptySet
<1>2. ASSUME NEW n \in Nat, n \in P PROVE n + 1 \in P
  <2>1. SUFFICES ASSUME NEW s \in Seq(S), Len(s) = n + 1, IsInjective(s)
                 PROVE  IsFiniteSet(ToSet(s)) /\ Cardinality(ToSet(s)) = n + 1
    OBVIOUS
  <2> DEFINE t == SubSeq(s, 1, n)
             x == s[n + 1]
  <2>2. t \in Seq(S) /\ x \in S /\ Len(t) = n /\ s = Append(t, x)
    BY <2>1, SMT
  <2> HIDE DEF t, x
  <2>3. IsInjective(t) /\ x \notin ToSet(t) /\ ToSet(s) = ToSet(t) \union {x}
    BY <2>1, <2>2, AppendFacts
  <2>4. IsFiniteSet(ToSet(t)) /\ Cardinality(ToSet(t)) = n
    BY <1>2, <2>2, <2>3
  <2>5. /\ IsFiniteSet(ToSet(t) \union {x})
        /\ Cardinality(ToSet(t) \union {x}) = Cardinality(ToSet(t)) + 1
    BY <2>3, <2>4, FS_AddElement
  <2> QED BY <2>3, <2>4, <2>5
<1> HIDE DEF P
<1>3. Nat \subseteq P
  BY <1>1, <1>2, SetInduction
<1>4. Len(r) \in P
  <2>1. Len(r) \in Nat
    OBVIOUS
  <2> QED BY <2>1, <1>3
<1> QED BY <1>4 DEF P

\* The range of a sequence is finite.
LEMMA SeqRangeFinite == ASSUME NEW S, NEW s \in Seq(S) PROVE IsFiniteSet(ToSet(s))
<1>1. Len(s) \in Nat /\ s \in [1..Len(s) -> ToSet(s)]
  <2>1. Len(s) \in Nat /\ s = [i \in 1..Len(s) |-> s[i]] /\ DOMAIN s = 1..Len(s)
    BY SMT
  <2> QED BY <2>1 DEF ToSet
<1>2. s \in Surjection(1..Len(s), ToSet(s))
  BY <1>1, Zenon DEF Surjection, ToSet
<1>3. IsFiniteSet(1..Len(s))
  BY <1>1, FS_Interval, SMT
<1> QED BY <1>2, <1>3, FS_Surjection

-----------------------------------------------------------------------------
(* Parts of sequences *)

\* A choice of a longer sequence goes through its parts.
LEMMA OnlyConcat ==
  ASSUME NEW S, NEW T, NEW s \in Seq(S), NEW r \in Seq(S)
  PROVE  Only(s \o r, T) = Only(s, T) \o Only(r, T)
<1> DEFINE Good(t) == Only(s \o t, T) = Only(s, T) \o Only(t, T)
           P == {n \in Nat : \A t \in Seq(S) : Len(t) = n => Good(t)}
<1>1. 0 \in P
  <2>1. SUFFICES ASSUME NEW t \in Seq(S), Len(t) = 0 PROVE Good(t)
    OBVIOUS
  <2>2. t = <<>> /\ s \o t = s
    BY <2>1, SMT
  <2>3. Only(t, T) = <<>> /\ Only(s, T) \in Seq(S)
    BY <2>2, OnlyEmpty, OnlyFacts
  <2>4. Only(s, T) \o <<>> = Only(s, T)
    BY <2>3, SMT
  <2> QED BY <2>2, <2>3, <2>4
<1>2. ASSUME NEW n \in Nat, n \in P PROVE n + 1 \in P
  <2>1. SUFFICES ASSUME NEW t \in Seq(S), Len(t) = n + 1 PROVE Good(t)
    OBVIOUS
  <2> DEFINE u == SubSeq(t, 1, n)
             x == t[n + 1]
  <2>2. u \in Seq(S) /\ x \in S /\ Len(u) = n /\ t = Append(u, x)
    BY <2>1, SMT
  <2> HIDE DEF u, x
  <2>3. Only(s \o u, T) = Only(s, T) \o Only(u, T)
    BY <1>2, <2>2
  <2>4. s \o t = Append(s \o u, x) /\ s \o u \in Seq(S)
    BY <2>2, SMT
  <2>5. Only(s, T) \in Seq(S) /\ Only(u, T) \in Seq(S)
    BY <2>2, OnlyFacts
  <2>6. Only(t, T) = IF x \in T THEN Append(Only(u, T), x) ELSE Only(u, T)
    BY <2>2, OnlyAppend
  <2>7. Only(s \o t, T) = IF x \in T THEN Append(Only(s \o u, T), x) ELSE Only(s \o u, T)
    <3>1. \A w \in Seq(S) : Only(Append(w, x), T) = IF x \in T THEN Append(Only(w, T), x) ELSE Only(w, T)
      BY <2>2, OnlyAppend
    <3> QED BY <2>4, <3>1, Zenon
  <2>8. Only(s, T) \o Append(Only(u, T), x) = Append(Only(s, T) \o Only(u, T), x)
    BY <2>2, <2>5, SMT
  <2> QED BY <2>3, <2>6, <2>7, <2>8
<1> HIDE DEF P
<1>3. Nat \subseteq P
  BY <1>1, <1>2, SetInduction
<1>4. Len(r) \in P
  <2>1. Len(r) \in Nat
    OBVIOUS
  <2> QED BY <2>1, <1>3
<1> QED BY <1>4 DEF P

\* Two sets that agree on the range of a sequence choose the same of it, and so
\* does a second choice that the first one anticipates.
LEMMA OnlyAgrees ==
  ASSUME NEW S, NEW T, NEW U, NEW V, NEW r \in Seq(S),
         ToSet(r) \intersect T \intersect U = ToSet(r) \intersect V
  PROVE  Only(Only(r, T), U) = Only(r, V)
<1> DEFINE Good(s) == ToSet(s) \intersect T \intersect U = ToSet(s) \intersect V
                         => Only(Only(s, T), U) = Only(s, V)
           P == {n \in Nat : \A s \in Seq(S) : Len(s) = n => Good(s)}
<1>1. 0 \in P
  <2>1. SUFFICES ASSUME NEW s \in Seq(S), Len(s) = 0 PROVE Good(s)
    OBVIOUS
  <2>2. s = <<>>
    BY <2>1, SMT
  <2> QED BY <2>2, OnlyEmpty
<1>2. ASSUME NEW n \in Nat, n \in P PROVE n + 1 \in P
  <2>1. SUFFICES ASSUME NEW s \in Seq(S), Len(s) = n + 1,
                        ToSet(s) \intersect T \intersect U = ToSet(s) \intersect V
                 PROVE  Only(Only(s, T), U) = Only(s, V)
    OBVIOUS
  <2> DEFINE t == SubSeq(s, 1, n)
             x == s[n + 1]
  <2>2. t \in Seq(S) /\ x \in S /\ Len(t) = n /\ s = Append(t, x)
    BY <2>1, SMT
  <2> HIDE DEF t, x
  <2>3. ToSet(s) = ToSet(t) \union {x}
    BY <2>2, AppendFacts
  <2>4. /\ ToSet(t) \intersect T \intersect U = ToSet(t) \intersect V
        /\ x \in T /\ x \in U <=> x \in V
    BY <2>1, <2>3
  <2>5. Only(Only(t, T), U) = Only(t, V)
    BY <1>2, <2>2, <2>4
  <2>6. Only(t, T) \in Seq(S)
    BY <2>2, OnlyFacts
  <2>7. /\ Only(s, T) = IF x \in T THEN Append(Only(t, T), x) ELSE Only(t, T)
        /\ Only(s, V) = IF x \in V THEN Append(Only(t, V), x) ELSE Only(t, V)
    BY <2>2, OnlyAppend
  <2>8. Only(Append(Only(t, T), x), U)
          = IF x \in U THEN Append(Only(Only(t, T), U), x) ELSE Only(Only(t, T), U)
    BY <2>2, <2>6, OnlyAppend
  <2> QED BY <2>4, <2>5, <2>7, <2>8
<1> HIDE DEF P
<1>3. Nat \subseteq P
  BY <1>1, <1>2, SetInduction
<1>4. Len(r) \in P
  <2>1. Len(r) \in Nat
    OBVIOUS
  <2> QED BY <2>1, <1>3
<1> QED BY <1>4 DEF P

\* The first elements of a concatenation, and how many there are.
LEMMA FirstOfConcat ==
  ASSUME NEW S, NEW s \in Seq(S), NEW t \in Seq(S), NEW n \in Nat
  PROVE  /\ n <= Len(s) => FirstOf(n, s \o t) = FirstOf(n, s)
         /\ n > Len(s) => FirstOf(n, s \o t) = s \o FirstOf(n - Len(s), t)
<1>1. Len(s) \in Nat /\ Len(t) \in Nat /\ Len(s \o t) = Len(s) + Len(t) /\ s \o t \in Seq(S)
  BY SMT
<1>2. ASSUME n <= Len(s) PROVE FirstOf(n, s \o t) = FirstOf(n, s)
  BY <1>1, <1>2, SMT DEF FirstOf
<1>3. ASSUME n > Len(s) PROVE FirstOf(n, s \o t) = s \o FirstOf(n - Len(s), t)
  BY <1>1, <1>3, SMT DEF FirstOf
<1> QED BY <1>2, <1>3

\* The first elements are as many as they are.
LEMMA FirstLength ==
  ASSUME NEW S, NEW s \in Seq(S), NEW n \in Nat
  PROVE  /\ Len(FirstOf(n, s)) \in Nat /\ Len(FirstOf(n, s)) <= Len(s)
         /\ FirstOf(Len(FirstOf(n, s)), s) = FirstOf(n, s)
  BY SMT DEF FirstOf

=============================================================================

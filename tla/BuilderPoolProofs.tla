-------------------------- MODULE BuilderPoolProofs --------------------------
(***************************************************************************)
(* Proofs about the builder pool, for any number of callers, builders and  *)
(* architectures, any pool size and with or without reuse.                 *)
(*                                                                         *)
(* The first part shows where the builders are: types, homes, and no       *)
(* builder left idle while a caller waits for it.  The second shows what   *)
(* the pool does for its callers and with its VMs: what a caller holds is  *)
(* up and of the right architecture, Destroy is called at most once for a  *)
(* VM, the provisioning goroutines are counted exactly, handoffs keep the  *)
(* order of the queue, only a timeout strands a builder, and the pool      *)
(* implements the lease service.                                           *)
(***************************************************************************)
EXTENDS BuilderPool, SequenceTheorems, FiniteSetTheorems, WellFoundedInduction,
        TLAPS

-----------------------------------------------------------------------------
(* The operations on queues and slices *)

\* A nonempty set of naturals has a least element.
LEMMA LeastNatural ==
  ASSUME NEW T \in SUBSET Nat, T # {}
  PROVE  \E x \in T : \A y \in T : x <= y
<1> DEFINE R == {ss \in Nat \X Nat : ss[1] < ss[2]}
<1>1. OpToRel(<, Nat) = R
  BY Zenon DEF OpToRel
<1>2. IsWellFoundedOn(R, Nat)
  BY <1>1, NatLessThanWellFounded, Zenon
<1> HIDE DEF R
<1>3. \E x \in T : \A y \in T : ~ (<<y, x>> \in R)
  BY <1>2, WFMin
<1>4. \A x, y \in Nat : y < x => <<y, x>> \in R
  BY DEF R
<1>5. PICK x \in T : \A y \in T : ~ (<<y, x>> \in R)
  BY <1>3
<1>6. ASSUME NEW y \in T PROVE x <= y
  <2>1. x \in Nat /\ y \in Nat
    OBVIOUS
  <2>2. ~ (y < x)
    BY <1>4, <1>5, <2>1, Zenon
  <2>3. QED
    BY <2>1, <2>2
<1>7. QED
  BY <1>6

\* Induction over the naturals, with the induction predicate as a set.
LEMMA SetInduction ==
  ASSUME NEW T, 0 \in T, \A n \in Nat : n \in T => n + 1 \in T
  PROVE  \A n \in Nat : n \in T
<1> SUFFICES ASSUME Nat \ T # {} PROVE FALSE
  OBVIOUS
<1>1. PICK x \in Nat \ T : \A y \in Nat \ T : x <= y
  BY LeastNatural
<1>2. x # 0 /\ x - 1 \in Nat /\ x - 1 \in T
  BY <1>1
<1>3. QED
  BY <1>1, <1>2

\* Taking position i out of a slice: append(s[:i], s[i+1:]...).
LEMMA RemoveAtProperties ==
  ASSUME NEW S, NEW s \in Seq(S), NEW i \in 1..Len(s)
  PROVE  /\ RemoveAt(s, i) \in Seq(S)
         /\ Len(RemoveAt(s, i)) = Len(s) - 1
         /\ \A j \in 1..(Len(s) - 1) :
              RemoveAt(s, i)[j] = IF j < i THEN s[j] ELSE s[j + 1]
<1> DEFINE u == SubSeq(s, 1, i - 1)
           v == SubSeq(s, i + 1, Len(s))
<1>1. /\ u \in Seq(S) /\ Len(u) = i - 1
      /\ \A j \in 1..(i - 1) : u[j] = s[j]
  <2>1. \A j \in 1..(i - 1) : s[j] \in S
    OBVIOUS
  <2>2. QED
    BY <2>1, SubSeqProperties
<1>2. /\ v \in Seq(S) /\ Len(v) = Len(s) - i
      /\ \A j \in 1..(Len(s) - i) : v[j] = s[i + j]
  <2>1. \A j \in (i + 1)..Len(s) : s[j] \in S
    OBVIOUS
  <2>2. QED
    BY <2>1, SubSeqProperties
<1> HIDE DEF u, v
<1>3. /\ u \o v \in Seq(S) /\ Len(u \o v) = Len(u) + Len(v)
      /\ \A j \in 1..(Len(u) + Len(v)) :
           (u \o v)[j] = IF j <= Len(u) THEN u[j] ELSE v[j - Len(u)]
  BY <1>1, <1>2, ConcatProperties
<1>4. RemoveAt(s, i) = u \o v
  BY DEF RemoveAt, u, v
<1>5. \A j \in 1..(Len(s) - 1) :
        (u \o v)[j] = IF j < i THEN s[j] ELSE s[j + 1]
  BY <1>1, <1>2, <1>3
<1>6. Len(u \o v) = Len(s) - 1
  BY <1>1, <1>2, <1>3
<1>7. QED
  BY <1>3, <1>4, <1>5, <1>6, Zenon

\* RemoveFirst takes out the first occurrence, or nothing.
LEMMA RemoveFirstProperties ==
  ASSUME NEW S, NEW s \in Seq(S), NEW e
  PROVE  \/ \E i \in 1..Len(s) : s[i] = e /\ RemoveFirst(s, e) = RemoveAt(s, i)
         \/ (\A i \in 1..Len(s) : s[i] # e) /\ RemoveFirst(s, e) = s
<1> DEFINE I == {i \in 1..Len(s) : s[i] = e}
<1>1. CASE I = {}
  BY <1>1 DEF RemoveFirst
<1>2. CASE I # {}
  <2>1. PICK m \in I : \A y \in I : m <= y
    <3>1. I \in SUBSET Nat
      OBVIOUS
    <3>2. QED
      BY <1>2, <3>1, LeastNatural
  <2>2. Min(I) \in I
    BY <2>1 DEF Min
  <2>3. RemoveFirst(s, e) = RemoveAt(s, Min(I))
    BY <1>2 DEF RemoveFirst, SelectInSeq
  <2>4. QED
    BY <2>2, <2>3
<1>3. QED
  BY <1>1, <1>2

\* The recursive function inside Without satisfies its defining equation.
LEMMA WithoutDefined ==
  ASSUME NEW S, NEW s \in Seq(S), NEW D
  PROVE  \E f : /\ f = [i \in 0..Len(s) |->
                          IF i = 0 THEN <<>>
                          ELSE IF s[i] \in D THEN f[i - 1]
                          ELSE Append(f[i - 1], s[i])]
                /\ Without(s, D) = f[Len(s)]
<1> DEFINE Body(g, i) == IF i = 0 THEN <<>>
                         ELSE IF s[i] \in D THEN g[i - 1]
                         ELSE Append(g[i - 1], s[i])
           T == {n \in Nat : \E g : g = [i \in 0..n |-> Body(g, i)]}
<1>1. 0 \in T
  <2>1. [i \in 0..0 |-> <<>>] = [i \in 0..0 |-> Body([j \in 0..0 |-> <<>>], i)]
    OBVIOUS
  <2>2. QED
    BY <2>1
<1>2. ASSUME NEW n \in Nat, n \in T PROVE n + 1 \in T
  <2>1. PICK g : g = [i \in 0..n |-> Body(g, i)]
    BY <1>2
  <2>a. \A i \in 0..n : g[i] = Body(g, i)
    <3> HIDE DEF Body
    <3>1. QED
      BY <2>1
  <2> DEFINE h == [i \in 0..(n + 1) |-> IF i <= n THEN g[i] ELSE Body(g, n + 1)]
  <2>2. \A i \in 0..(n + 1) : h[i] = Body(h, i)
    <3> SUFFICES ASSUME NEW i \in 0..(n + 1) PROVE h[i] = Body(h, i)
      OBVIOUS
    <3>1. i # 0 => h[i - 1] = g[i - 1]
      OBVIOUS
    <3>2. i <= n => g[i] = Body(g, i)
      <4> HIDE DEF Body
      <4>1. QED
        BY <2>a
    <3>3. h[i] = Body(g, i)
      BY <3>2
    <3> HIDE DEF h
    <3>4. QED
      BY <3>1, <3>3
  <2>3. h = [i \in 0..(n + 1) |-> Body(h, i)]
    <3>1. h = [i \in 0..(n + 1) |-> h[i]]
      OBVIOUS
    <3> HIDE DEF h
    <3>2. QED
      BY <2>2, <3>1
  <2> HIDE DEF h
  <2>4. QED
    <3> HIDE DEF Body
    <3>1. n + 1 \in Nat
      OBVIOUS
    <3>2. QED
      BY <2>3, <3>1, Zenon
<1>3. Len(s) \in T
  <2> HIDE DEF T
  <2>1. QED
    BY <1>1, <1>2, SetInduction
<1>4. QED
  BY <1>3 DEF Without

\* The loop of Without, step by step.
LEMMA WithoutUnfolds ==
  ASSUME NEW S, NEW s \in Seq(S), NEW D
  PROVE  \E f : /\ Without(s, D) = f[Len(s)]
                /\ f[0] = <<>>
                /\ \A i \in 1..Len(s) : f[i] = IF s[i] \in D THEN f[i - 1]
                                                ELSE Append(f[i - 1], s[i])
<1>1. PICK f : /\ f = [i \in 0..Len(s) |->
                          IF i = 0 THEN <<>>
                          ELSE IF s[i] \in D THEN f[i - 1]
                          ELSE Append(f[i - 1], s[i])]
               /\ Without(s, D) = f[Len(s)]
  BY WithoutDefined
<1>2. /\ f[0] = <<>>
      /\ \A i \in 1..Len(s) : f[i] = IF s[i] \in D THEN f[i - 1]
                                      ELSE Append(f[i - 1], s[i])
  <2> DEFINE Body(g, i) == IF i = 0 THEN <<>>
                           ELSE IF s[i] \in D THEN g[i - 1]
                           ELSE Append(g[i - 1], s[i])
  <2>1. \A i \in 0..Len(s) : f[i] = Body(f, i)
    <3>1. f = [i \in 0..Len(s) |-> Body(f, i)]
      BY <1>1, Zenon
    <3> HIDE DEF Body
    <3>2. QED
      BY <3>1
  <2>2. ASSUME NEW i \in 1..Len(s)
        PROVE  f[i] = IF s[i] \in D THEN f[i - 1] ELSE Append(f[i - 1], s[i])
    <3>1. i \in 0..Len(s) /\ i # 0
      OBVIOUS
    <3>2. f[i] = Body(f, i)
      BY <2>1, <3>1
    <3>3. QED
      BY <3>1, <3>2, Zenon
  <2>3. f[0] = <<>>
    BY <2>1
  <2>4. QED
    BY <2>2, <2>3
<1>3. QED
  BY <1>1, <1>2, Zenon

\* Without keeps elements of s only, drops those of D, keeps the others, and
\* introduces no duplicate.
LEMMA WithoutProperties ==
  ASSUME NEW S, NEW s \in Seq(S), NEW D
  PROVE  /\ Without(s, D) \in Seq(S)
         /\ \A j \in 1..Len(Without(s, D)) :
              /\ Without(s, D)[j] \notin D
              /\ \E m \in 1..Len(s) : s[m] = Without(s, D)[j]
         /\ (\A m, n \in 1..Len(s) : s[m] = s[n] => m = n)
            => \A j, k \in 1..Len(Without(s, D)) :
                 Without(s, D)[j] = Without(s, D)[k] => j = k
<1>2. PICK f : /\ Without(s, D) = f[Len(s)]
               /\ f[0] = <<>>
               /\ \A i \in 1..Len(s) : f[i] = IF s[i] \in D THEN f[i - 1]
                                               ELSE Append(f[i - 1], s[i])
  BY WithoutUnfolds
<1> DEFINE Inj == \A m, n \in 1..Len(s) : s[m] = s[n] => m = n
           Good(i) == /\ f[i] \in Seq(S)
                      /\ \A j \in 1..Len(f[i]) :
                           /\ f[i][j] \notin D
                           /\ \E m \in 1..i : s[m] = f[i][j]
                      /\ Inj => \A j, k \in 1..Len(f[i]) :
                                  f[i][j] = f[i][k] => j = k
           T == {i \in Nat : i <= Len(s) => Good(i)}
<1>3. 0 \in T
  <2>1. Good(0)
    <3>1. f[0] = <<>> /\ f[0] \in Seq(S) /\ Len(f[0]) = 0
      BY <1>2
    <3>2. QED
      BY <3>1
  <2> HIDE DEF Good
  <2>2. QED
    BY <2>1
<1>4. ASSUME NEW n \in Nat, n \in T PROVE n + 1 \in T
  <2> SUFFICES ASSUME n + 1 <= Len(s) PROVE Good(n + 1)
    <3> HIDE DEF Good
    <3>1. QED
      OBVIOUS
  <2>1. Good(n) /\ n + 1 \in 1..Len(s) /\ s[n + 1] \in S /\ (n + 1) - 1 = n
    <3> HIDE DEF Good
    <3>1. QED
      BY <1>4
  <2>2. CASE s[n + 1] \in D
    <3>1. f[n + 1] = f[n]
      BY <1>2, <2>1, <2>2
    <3>2. QED
      BY <2>1, <3>1
  <2>3. CASE s[n + 1] \notin D
    <3>1. f[n + 1] = Append(f[n], s[n + 1])
      <4> HIDE DEF Good
      <4>1. f[n + 1] = IF s[n + 1] \in D THEN f[(n + 1) - 1]
                       ELSE Append(f[(n + 1) - 1], s[n + 1])
        BY <1>2, <2>1, Zenon
      <4>2. QED
        BY <2>1, <2>3, <4>1, Zenon
    <3>2. /\ f[n + 1] \in Seq(S)
          /\ Len(f[n + 1]) = Len(f[n]) + 1
          /\ \A j \in 1..Len(f[n]) : f[n + 1][j] = f[n][j]
          /\ f[n + 1][Len(f[n]) + 1] = s[n + 1]
      BY <2>1, <3>1, AppendProperties
    <3>3. ASSUME NEW j \in 1..Len(f[n + 1])
          PROVE  /\ f[n + 1][j] \notin D
                 /\ \E m \in 1..(n + 1) : s[m] = f[n + 1][j]
      <4>1. CASE j \in 1..Len(f[n])
        <5>1. f[n + 1][j] = f[n][j]
          BY <3>2, <4>1
        <5>2. f[n][j] \notin D /\ \E m \in 1..n : s[m] = f[n][j]
          BY <2>1, <4>1
        <5>3. PICK m \in 1..n : s[m] = f[n][j]
          BY <5>2
        <5>4. m \in 1..(n + 1)
          OBVIOUS
        <5>5. QED
          BY <5>1, <5>2, <5>3, <5>4
      <4>2. CASE j = Len(f[n]) + 1
        <5>1. f[n + 1][j] = s[n + 1] /\ n + 1 \in 1..(n + 1)
          BY <3>2, <4>2
        <5>2. QED
          BY <2>3, <5>1
      <4>3. QED
        BY <2>1, <3>2, <4>1, <4>2
    <3>4. ASSUME Inj, NEW j \in 1..Len(f[n + 1]), NEW k \in 1..Len(f[n + 1]),
                 f[n + 1][j] = f[n + 1][k], j < k
          PROVE  FALSE
      <4>1. j \in 1..Len(f[n])
        BY <2>1, <3>2, <3>4
      <4>2. PICK m \in 1..n : s[m] = f[n][j]
        BY <2>1, <4>1
      <4>3. CASE k \in 1..Len(f[n])
        BY <2>1, <3>2, <3>4, <4>1, <4>3
      <4>4. CASE k = Len(f[n]) + 1
        <5>1. s[m] = s[n + 1] /\ m \in 1..Len(s) /\ m # n + 1
          BY <2>1, <3>2, <3>4, <4>1, <4>2, <4>4
        <5>2. QED
          BY <2>1, <3>4, <5>1
      <4>5. QED
        BY <2>1, <3>2, <4>3, <4>4
    <3>5. Inj => \A j, k \in 1..Len(f[n + 1]) :
                   f[n + 1][j] = f[n + 1][k] => j = k
      <4> HIDE DEF Inj
      <4>1. Len(f[n + 1]) \in Nat
        BY <3>2
      <4> SUFFICES ASSUME Inj, NEW j \in 1..Len(f[n + 1]),
                          NEW k \in 1..Len(f[n + 1]),
                          f[n + 1][j] = f[n + 1][k]
                   PROVE  j = k
        OBVIOUS
      <4>2. ~ (j < k) /\ ~ (k < j)
        BY <3>4
      <4>3. QED
        BY <4>1, <4>2
    <3>6. QED
      BY <3>2, <3>3, <3>5
  <2>4. QED
    BY <2>2, <2>3
<1>5. Len(s) \in T
  <2> HIDE DEF T
  <2>1. QED
    BY <1>3, <1>4, SetInduction
<1>6. Good(Len(s))
  BY <1>5
<1>7. QED
  BY <1>2, <1>6

\* As sets: Without takes away D and nothing else.
LEMMA ToSetWithout ==
  ASSUME NEW S, NEW s \in Seq(S), NEW D
  PROVE  ToSet(Without(s, D)) = ToSet(s) \ D
<1>1. PICK f : /\ Without(s, D) = f[Len(s)]
               /\ f[0] = <<>>
               /\ \A i \in 1..Len(s) : f[i] = IF s[i] \in D THEN f[i - 1]
                                               ELSE Append(f[i - 1], s[i])
  BY WithoutUnfolds
<1> DEFINE Kept(i) == /\ f[i] \in Seq(S)
                      /\ \A m \in 1..i : s[m] \notin D =>
                           \E j \in 1..Len(f[i]) : f[i][j] = s[m]
           T == {i \in Nat : i <= Len(s) => Kept(i)}
<1>2. 0 \in T
  <2>1. Kept(0)
    BY <1>1
  <2> HIDE DEF Kept
  <2>2. QED
    BY <2>1
<1>3. ASSUME NEW n \in Nat, n \in T PROVE n + 1 \in T
  <2> SUFFICES ASSUME n + 1 <= Len(s) PROVE Kept(n + 1)
    <3> HIDE DEF Kept
    <3>1. QED
      OBVIOUS
  <2>1. Kept(n) /\ n + 1 \in 1..Len(s) /\ s[n + 1] \in S /\ (n + 1) - 1 = n
    <3> HIDE DEF Kept
    <3>1. QED
      BY <1>3
  <2>2. f[n + 1] = IF s[n + 1] \in D THEN f[n] ELSE Append(f[n], s[n + 1])
    <3> HIDE DEF Kept
    <3>1. QED
      BY <1>1, <2>1
  <2>3. CASE s[n + 1] \in D
    <3>1. f[n + 1] = f[n]
      BY <2>2, <2>3, Zenon
    <3>2. ASSUME NEW m \in 1..(n + 1), s[m] \notin D PROVE m \in 1..n
      BY <2>3, <3>2
    <3>3. QED
      BY <2>1, <3>1, <3>2
  <2>4. CASE s[n + 1] \notin D
    <3>1. f[n + 1] = Append(f[n], s[n + 1])
      BY <2>2, <2>4, Zenon
    <3>2. /\ f[n + 1] \in Seq(S)
          /\ Len(f[n + 1]) = Len(f[n]) + 1 /\ Len(f[n]) \in Nat
          /\ \A j \in 1..Len(f[n]) : f[n + 1][j] = f[n][j]
          /\ f[n + 1][Len(f[n]) + 1] = s[n + 1]
      BY <2>1, <3>1, AppendProperties
    <3>3. ASSUME NEW m \in 1..(n + 1), s[m] \notin D
          PROVE  \E j \in 1..Len(f[n + 1]) : f[n + 1][j] = s[m]
      <4>1. CASE m \in 1..n
        <5>1. PICK j \in 1..Len(f[n]) : f[n][j] = s[m]
          BY <2>1, <3>3, <4>1
        <5>2. j \in 1..Len(f[n + 1]) /\ f[n + 1][j] = s[m]
          BY <3>2, <5>1
        <5>3. QED
          BY <5>2
      <4>2. CASE m = n + 1
        BY <3>2, <4>2
      <4>3. QED
        BY <4>1, <4>2
    <3>4. QED
      BY <3>2, <3>3
  <2>5. QED
    BY <2>3, <2>4
<1>4. Len(s) \in T
  <2> HIDE DEF T
  <2>1. QED
    BY <1>2, <1>3, SetInduction
<1>5. Kept(Len(s))
  BY <1>4
<1>6. /\ Without(s, D) \in Seq(S)
      /\ \A j \in 1..Len(Without(s, D)) :
           /\ Without(s, D)[j] \notin D
           /\ \E m \in 1..Len(s) : s[m] = Without(s, D)[j]
  BY WithoutProperties
<1>7. DOMAIN s = 1..Len(s) /\ DOMAIN Without(s, D) = 1..Len(Without(s, D))
  BY <1>6
<1>8. ASSUME NEW x \in ToSet(Without(s, D)) PROVE x \in ToSet(s) \ D
  BY <1>6, <1>7 DEF ToSet
<1>9. ASSUME NEW x \in ToSet(s) \ D PROVE x \in ToSet(Without(s, D))
  <2>1. PICK m \in 1..Len(s) : s[m] = x
    BY <1>7 DEF ToSet
  <2>2. \E j \in 1..Len(Without(s, D)) : Without(s, D)[j] = x
    BY <1>1, <1>5, <2>1
  <2>3. QED
    BY <1>7, <2>2 DEF ToSet
<1>10. QED
  BY <1>8, <1>9

\* As sets: Append adds one element.
LEMMA ToSetAppend ==
  ASSUME NEW S, NEW s \in Seq(S), NEW e \in S
  PROVE  ToSet(Append(s, e)) = ToSet(s) \union {e}
<1>1. /\ Len(s) \in Nat /\ DOMAIN s = 1..Len(s)
      /\ DOMAIN Append(s, e) = 1..(Len(s) + 1)
      /\ \A i \in 1..Len(s) : Append(s, e)[i] = s[i]
      /\ Append(s, e)[Len(s) + 1] = e
  BY AppendProperties
<1>2. ASSUME NEW x \in ToSet(Append(s, e)) PROVE x \in ToSet(s) \union {e}
  <2>1. PICK i \in 1..(Len(s) + 1) : x = Append(s, e)[i]
    BY <1>1 DEF ToSet
  <2>2. CASE i \in 1..Len(s)
    BY <1>1, <2>1, <2>2 DEF ToSet
  <2>3. CASE i = Len(s) + 1
    BY <1>1, <2>1, <2>3
  <2>4. QED
    BY <1>1, <2>2, <2>3
<1>3. ASSUME NEW x \in ToSet(s) PROVE x \in ToSet(Append(s, e))
  <2>1. PICK i \in 1..Len(s) : x = s[i]
    BY <1>1 DEF ToSet
  <2>2. i \in 1..(Len(s) + 1) /\ Append(s, e)[i] = x
    BY <1>1, <2>1
  <2>3. QED
    BY <1>1, <2>2 DEF ToSet
<1>4. e \in ToSet(Append(s, e))
  BY <1>1 DEF ToSet
<1>5. QED
  BY <1>2, <1>3, <1>4

\* As sets: Tail adds nothing.
LEMMA ToSetTail ==
  ASSUME NEW S, NEW s \in Seq(S), s # <<>>
  PROVE  ToSet(Tail(s)) \subseteq ToSet(s)
<1>1. /\ DOMAIN s = 1..Len(s) /\ DOMAIN Tail(s) = 1..(Len(s) - 1)
      /\ \A i \in 1..(Len(s) - 1) : Tail(s)[i] = s[i + 1]
      /\ Len(s) \in Nat
  BY HeadTailProperties
<1>2. ASSUME NEW x \in ToSet(Tail(s)) PROVE x \in ToSet(s)
  <2>1. PICK i \in 1..(Len(s) - 1) : x = Tail(s)[i]
    BY <1>1 DEF ToSet
  <2>2. i + 1 \in 1..Len(s) /\ x = s[i + 1]
    BY <1>1, <2>1
  <2>3. QED
    BY <1>1, <2>2 DEF ToSet
<1>3. QED
  BY <1>2

\* Dropping elements does not make a sequence longer.
LEMMA WithoutShorter ==
  ASSUME NEW S, NEW s \in Seq(S), NEW D
  PROVE  Len(Without(s, D)) <= Len(s)
<1>1. PICK f : /\ Without(s, D) = f[Len(s)]
               /\ f[0] = <<>>
               /\ \A i \in 1..Len(s) : f[i] = IF s[i] \in D THEN f[i - 1]
                                               ELSE Append(f[i - 1], s[i])
  BY WithoutUnfolds
<1> DEFINE T == {i \in Nat : i <= Len(s) => f[i] \in Seq(S) /\ Len(f[i]) <= i}
<1>2. 0 \in T
  <2>1. <<>> \in Seq(S) /\ Len(<<>>) = 0
    OBVIOUS
  <2>2. f[0] \in Seq(S) /\ Len(f[0]) = 0
    BY <1>1, <2>1, Zenon
  <2>3. QED
    BY <2>2
<1>3. ASSUME NEW n \in Nat, n \in T PROVE n + 1 \in T
  <2>1. SUFFICES ASSUME n + 1 <= Len(s)
                 PROVE  f[n + 1] \in Seq(S) /\ Len(f[n + 1]) <= n + 1
    OBVIOUS
  <2>2. f[n] \in Seq(S) /\ Len(f[n]) <= n
    BY <1>3, <2>1
  <2>3. /\ n + 1 \in 1..Len(s) /\ s[n + 1] \in S
        /\ f[n + 1] = IF s[n + 1] \in D THEN f[n] ELSE Append(f[n], s[n + 1])
    BY <1>1, <2>1
  <2>4. QED
    BY <2>2, <2>3
<1> HIDE DEF T
<1>4. \A n \in Nat : n \in T
  BY <1>2, <1>3, SetInduction
<1>5. QED
  BY <1>1, <1>4 DEF T

-----------------------------------------------------------------------------
(* Types *)

\* Putting one waiter aside leaves a queue of callers.
LEMMA HandToWaiterType ==
  ASSUME TypeOK, NEW b \in Builder, NEW calls \in [Client -> Call],
         HandToWaiter(b, calls)
  PROVE  waiters' \in Seq(Client) /\ call' \in [Client -> Call]
<1>1. PICK i \in DOMAIN waiters :
        /\ waiters' = RemoveAt(waiters, i)
        /\ call' = [calls EXCEPT ![waiters[i]].resp = b]
  BY DEF HandToWaiter
<1>2. waiters \in Seq(Client) /\ i \in 1..Len(waiters) /\ waiters[i] \in Client
  BY DEF TypeOK
<1>3. RemoveAt(waiters, i) \in Seq(Client)
  BY <1>2, RemoveAtProperties
<1>4. QED
  BY <1>1, <1>2, <1>3 DEF Call

\* Appending a builder to a pool keeps the pools' type.
LEMMA PoolAppendType ==
  ASSUME TypeOK, NEW a, NEW b \in Builder
  PROVE  [availablePool EXCEPT ![a] = Append(@, b)] \in [Arch -> Seq(Builder)]
<1>1. \A x \in Arch : Append(availablePool[x], b) \in Seq(Builder)
  BY AppendProperties DEF TypeOK
<1>2. \A x \in Arch : availablePool[x] \in Seq(Builder)
  BY DEF TypeOK
<1>3. availablePool = [x \in Arch |-> availablePool[x]]
  BY DEF TypeOK
<1>4. QED
  BY <1>1, <1>2, <1>3, Zenon

\* Marking a builder for its user keeps the records' type.
LEMMA InUseType ==
  ASSUME TypeOK, NEW b \in Builder
  PROVE  InUse(b) \in [Builder -> BuilderRec]
BY DEF TypeOK, InUse, BuilderRec, BuilderStatus, Time

\* The number of live waiters is a natural number.
LEMMA NeededType ==
  ASSUME TypeOK, NEW a \in Arch
  PROVE  Needed(a) \in Nat
<1>1. LiveWaiters(a) \in SUBSET Client
  BY DEF TypeOK, LiveWaiters, ToSet
<1>2. IsFiniteSet(LiveWaiters(a))
  BY <1>1, PoolAssumption, FS_Subset
<1>3. Cardinality(LiveWaiters(a)) \in Nat
  BY <1>2, FS_CardinalityType
<1>4. QED
  BY <1>3 DEF Needed, TypeOK

\* releaseBuilder keeps the types of what it changes.
LEMMA ReleaseType ==
  ASSUME TypeOK, NEW c \in Client, releaseBuilder(c)
  PROVE  /\ availablePool' \in [Arch -> Seq(Builder)]
         /\ activeBuilders' \in SUBSET Builder
         /\ waiters' \in Seq(Client)
         /\ rec' \in [Builder -> BuilderRec]
         /\ call' \in [Client -> Call]
         /\ sleeping' \in SUBSET Builder
<1> DEFINE b    == call[c].held
           a    == rec[b].arch
           done == [call EXCEPT ![c] = Idle]
<1>1. done \in [Client -> Call]
  BY DEF TypeOK, Idle, Call, CallPC
<1>2. b \in activeBuilders => b \in Builder
  BY DEF TypeOK
<1>3. ASSUME b \in Builder, NEW st \in BuilderStatus
      PROVE  ReleasedRec(b, st) \in [Builder -> BuilderRec]
  BY <1>3 DEF TypeOK, ReleasedRec, BuilderRec, Time
<1>4. b \in Builder => rec[b].status \in BuilderStatus
  BY DEF TypeOK, BuilderRec
<1>5. b \in Builder =>
        [availablePool EXCEPT ![a] = Append(@, b)] \in [Arch -> Seq(Builder)]
  BY PoolAppendType
<1> HIDE DEF b, a, done
<1>6. \/ /\ call' = done
         /\ UNCHANGED <<availablePool, activeBuilders, waiters, rec, sleeping>>
      \/ /\ b \in activeBuilders
         /\ activeBuilders' = activeBuilders \ {b}
         /\ \/ /\ HandToWaiter(b, done)
               /\ rec' = ReleasedRec(b, rec[b].status)
               /\ UNCHANGED <<availablePool, sleeping>>
            \/ /\ rec' = ReleasedRec(b, "Pooled")
               /\ availablePool' = [availablePool EXCEPT ![a] = Append(@, b)]
               /\ call' = done
               /\ UNCHANGED <<waiters, sleeping>>
            \/ /\ rec' = ReleasedRec(b, "Destroying")
               /\ sleeping' = sleeping \union {b}
               /\ call' = done
               /\ UNCHANGED <<availablePool, waiters>>
  BY DEF releaseBuilder, b, a, done
<1>7. {"Pooled", "Destroying"} \subseteq BuilderStatus
  BY DEF BuilderStatus
<1>8. CASE call' = done
           /\ UNCHANGED <<availablePool, activeBuilders, waiters, rec, sleeping>>
  BY <1>1, <1>8 DEF TypeOK
<1>9. CASE /\ b \in activeBuilders
           /\ activeBuilders' = activeBuilders \ {b}
           /\ HandToWaiter(b, done)
           /\ rec' = ReleasedRec(b, rec[b].status)
           /\ UNCHANGED <<availablePool, sleeping>>
  <2>1. waiters' \in Seq(Client) /\ call' \in [Client -> Call]
    BY <1>1, <1>2, <1>9, HandToWaiterType
  <2>2. QED
    BY <1>2, <1>3, <1>4, <1>9, <2>1 DEF TypeOK
<1>10. QED
  BY <1>1, <1>2, <1>3, <1>5, <1>6, <1>7, <1>8, <1>9 DEF TypeOK

\* Every step keeps the types.
LEMMA TypeStep == TypeOK /\ [Next]_vars => TypeOK'
<1> SUFFICES ASSUME TypeOK, [Next]_vars PROVE TypeOK'
  OBVIOUS
<1> USE DEF poolVars, goVars
<1>1. ASSUME NEW c \in Client, NEW a \in Arch, AcquirePooled(c, a) PROVE TypeOK'
  <2>1. Head(availablePool[a]) \in Builder /\ Tail(availablePool[a]) \in Seq(Builder)
    BY <1>1, HeadTailProperties DEF AcquirePooled, TypeOK
  <2> DEFINE b == Head(availablePool[a])
  <2>2. [Idle EXCEPT !.pc = "dial", !.arch = a, !.held = b] \in Call
    BY <2>1 DEF Idle, Call, CallPC
  <2>3. InUse(b) \in [Builder -> BuilderRec]
    BY <2>1, InUseType
  <2> HIDE DEF b
  <2>4. QED
    BY <1>1, <2>1, <2>2, <2>3 DEF AcquirePooled, TypeOK, TakeOldest, b
<1>2. ASSUME NEW c \in Client, NEW a \in Arch, AcquireEnqueue(c, a) PROVE TypeOK'
  <2>1. [Idle EXCEPT !.pc = "signal", !.arch = a] \in Call
    BY DEF Idle, Call, CallPC
  <2>2. Append(waiters, c) \in Seq(Client)
    BY AppendProperties DEF TypeOK
  <2>3. QED
    BY <1>2, <2>1, <2>2 DEF AcquireEnqueue, TypeOK
<1>3. ASSUME NEW c \in Client, SendSignal(c) PROVE TypeOK'
  <2>1. [call[c] EXCEPT !.pc = "select"] \in Call
    BY DEF TypeOK, Call, CallPC
  <2>2. AfterSend \in 0..SignalCap
    BY PoolAssumption DEF AfterSend, TypeOK
  <2>3. QED
    BY <1>3, <2>1, <2>2 DEF SendSignal, TypeOK
<1>4. ASSUME NEW c \in Client, Expire(c) PROVE TypeOK'
  BY <1>4 DEF Expire, TypeOK, Call, CallPC
<1>5. ASSUME NEW c \in Client, Receive(c) PROVE TypeOK'
  <2> DEFINE b == call[c].resp
  <2>1. b \in Builder
    BY <1>5 DEF Receive, TypeOK, Call
  <2>2. [Idle EXCEPT !.pc = "dial", !.arch = call[c].arch, !.held = b] \in Call
    BY <2>1 DEF TypeOK, Idle, Call, CallPC
  <2>3. InUse(b) \in [Builder -> BuilderRec]
    BY <2>1, InUseType
  <2> HIDE DEF b
  <2>4. QED
    BY <1>5, <2>1, <2>2, <2>3 DEF Receive, TypeOK, b
<1>6. ASSUME NEW c \in Client, TimeOut(c) PROVE TypeOK'
  <2>1. RemoveFirst(waiters, c) \in Seq(Client)
    <3>1. waiters \in Seq(Client)
      BY DEF TypeOK
    <3>2. \A i \in 1..Len(waiters) : RemoveAt(waiters, i) \in Seq(Client)
      BY <3>1, RemoveAtProperties
    <3>3. QED
      BY <3>1, <3>2, RemoveFirstProperties
  <2>2. QED
    BY <1>6, <2>1 DEF TimeOut, TypeOK, Idle, Call, CallPC
<1>7. ASSUME NEW c \in Client, DialOK(c) PROVE TypeOK'
  BY <1>7 DEF DialOK, TypeOK, Call, CallPC
<1>8. ASSUME NEW c \in Client, DialFail(c) PROVE TypeOK'
  BY <1>8, ReleaseType DEF DialFail, TypeOK
<1>9. ASSUME NEW c \in Client, ReleaseBuilder(c) PROVE TypeOK'
  BY <1>9, ReleaseType DEF ReleaseBuilder, TypeOK
<1>10. CASE TakeSignal
  BY <1>10, PoolAssumption DEF TakeSignal, TypeOK
<1>11. CASE ScaleOnSignal
  BY <1>11, NeededType DEF ScaleOnSignal, checkAndScale, TypeOK
<1>12. CASE ScaleOnTick
  BY <1>12, NeededType DEF ScaleOnTick, checkAndScale, TypeOK
<1>13. CASE cleanupOldBuilders
  <2> DEFINE old == UNION {Stale(a) : a \in Arch}
  <2>1. old \in SUBSET Builder
    BY DEF TypeOK, Stale, ToSet
  <2> HIDE DEF old
  <2>2. \A a \in Arch : Without(availablePool[a], old) \in Seq(Builder)
    BY WithoutProperties DEF TypeOK
  <2>3. {"idle"} \X old \in SUBSET (Destroyer \X Builder)
    BY <2>1 DEF Destroyer
  <2>4. \A b \in Builder : [rec[b] EXCEPT !.status = "Destroying"] \in BuilderRec
    BY DEF TypeOK, BuilderRec, BuilderStatus
  <2>5. QED
    BY <1>13, <2>1, <2>2, <2>3, <2>4 DEF cleanupOldBuilders, TypeOK, old
<1>14. ASSUME NEW b \in Builder, GrowIdle(b) PROVE TypeOK'
  BY <1>14 DEF GrowIdle, TypeOK, BuilderRec, Time
<1>15. ASSUME NEW b \in Builder, NEW a \in Arch, StartProvision(a, b) PROVE TypeOK'
  BY <1>15 DEF StartProvision, TypeOK, BuilderRec, BuilderStatus, Time
<1>16. ASSUME NEW b \in Builder, CreateOK(b) PROVE TypeOK'
  BY <1>16 DEF CreateOK, TypeOK, VMState
<1>17. ASSUME NEW b \in Builder, CreateFail(b) PROVE TypeOK'
  BY <1>17 DEF CreateFail, TypeOK, VMState
<1>18. ASSUME NEW b \in Builder, RegisterHandOff(b) PROVE TypeOK'
  <2>1. waiters' \in Seq(Client) /\ call' \in [Client -> Call]
    BY <1>18, HandToWaiterType DEF RegisterHandOff, TypeOK
  <2>2. QED
    BY <1>18, <2>1 DEF RegisterHandOff, TypeOK, BuilderRec, BuilderStatus
<1>19. ASSUME NEW b \in Builder, RegisterPooled(b) PROVE TypeOK'
  <2>1. [rec EXCEPT ![b].status = "Pooled"] \in [Builder -> BuilderRec]
    BY DEF TypeOK, BuilderRec, BuilderStatus
  <2>2. QED
    BY <1>19, <2>1, PoolAppendType DEF RegisterPooled, TypeOK
<1>20. ASSUME NEW b \in Builder, EndProvision(b) PROVE TypeOK'
  <2>1. \A a \in Arch : provisioningCount[a] - 1 \in Int
    BY DEF TypeOK
  <2>2. [provisioningCount EXCEPT ![rec[b].arch] = @ - 1] \in [Arch -> Int]
    BY <2>1, Zenon DEF TypeOK
  <2>3. QED
    BY <1>20, <2>2 DEF EndProvision, TypeOK
<1>21. ASSUME NEW b \in Builder, scheduleDestruction(b) PROVE TypeOK'
  BY <1>21 DEF scheduleDestruction, TypeOK, Destroyer
<1>22. ASSUME NEW k \in Destroyer, NEW b \in Builder, DestroyReturns(k, b)
       PROVE  TypeOK'
  BY <1>22 DEF DestroyReturns, TypeOK, VMState
<1>23. CASE DestroyAll
  BY <1>23 DEF DestroyAll, TypeOK, Destroyer
<1>24. CASE Exit
  BY <1>24 DEF Exit, TypeOK
<1>25. CASE UNCHANGED vars
  BY <1>25 DEF vars, TypeOK
<1>26. QED
  BY <1>1, <1>2, <1>3, <1>4, <1>5, <1>6, <1>7, <1>8, <1>9, <1>10, <1>11, <1>12,
     <1>13, <1>14, <1>15, <1>16, <1>17, <1>18, <1>19, <1>20, <1>21, <1>22,
     <1>23, <1>24, <1>25
     DEF Next, Caller, maintenanceWorker, provisionBackground, Destruction,
         Exited

\* The fields of the pool, the requests and the goroutines keep their types.
THEOREM PoolTypeCorrect == Spec => []TypeOK
<1>1. Init => TypeOK
  BY PoolAssumption DEF Init, NewPool, TypeOK, Idle, Call, CallPC, BuilderRec,
     BuilderStatus, Time, VMState
<1>2. QED
  BY <1>1, TypeStep, PTL DEF Spec

-----------------------------------------------------------------------------
(* The inductive invariant *)

\* A queued request belongs to a caller that waits and has got nothing yet;
\* no caller is queued twice.
WaitersOK ==
  /\ \A i \in DOMAIN waiters :
       /\ call[waiters[i]].pc \in {"signal", "select"}
       /\ call[waiters[i]].resp = NoBuilder
  /\ \A i, j \in DOMAIN waiters : waiters[i] = waiters[j] => i = j

\* Where a caller stands says what it can have.
CallsOK ==
  \A c \in Client :
    /\ call[c].pc = "idle" => call[c].resp = NoBuilder /\ call[c].held = NoBuilder
    /\ call[c].pc \in {"signal", "select"} => call[c].held = NoBuilder
    /\ call[c].pc \in {"dial", "build"}
         => call[c].resp = NoBuilder /\ call[c].held \in Builder

Newborn(b) == prov[b] \in {"create", "created"}

\* A VM under creation is known to its own goroutine only.
NewbornHomeless ==
  \A b \in Builder : Newborn(b) =>
    /\ \A c \in Client : ~Has(c, b)
    /\ ~InPool(b)
    /\ b \notin builders
    /\ b \notin activeBuilders
    /\ b \notin sleeping
    /\ ~BeingDestroyed(b)

HomeInv == WaitersOK /\ CallsOK /\ OneHome /\ NewbornHomeless

\* A tracked VM runs and nobody is destroying it.
TrackedUp ==
  \A b \in builders : vm[b] = "up" /\ ~BeingDestroyed(b)

\* While serving, every builder with a home is tracked, and one that a caller
\* holds is active.
ServingTracked ==
  mode = "serving" => \A b \in Builder :
    /\ InPool(b) => b \in builders
    /\ \A c \in Client : Has(c, b) => b \in builders
    /\ \A c \in Client : call[c].held = b => b \in activeBuilders

\* A builder in its destruction delay has no home.
SleepingHomeless ==
  \A b \in sleeping : ~InPool(b) /\ \A c \in Client : ~Has(c, b)

\* What the idle cleanup may pick is tracked, also during the shutdown.
StaleTracked ==
  \A b \in Builder : InPool(b) /\ IsStale(b) => b \in builders

DestroyInv == TrackedUp /\ ServingTracked /\ SleepingHomeless /\ StaleTracked
              /\ DestroyOnce

-----------------------------------------------------------------------------
(* Facts about the queue and the pools *)

\* Taking a waiter out of a queue without duplicates: the others stay.
LEMMA DropWaiter ==
  ASSUME TypeOK, WaitersOK, NEW i \in DOMAIN waiters,
         waiters' = RemoveAt(waiters, i)
  PROVE  /\ \A j \in DOMAIN waiters' : /\ waiters'[j] # waiters[i]
                                       /\ \E m \in DOMAIN waiters :
                                            waiters'[j] = waiters[m]
         /\ \A j, k \in DOMAIN waiters' : waiters'[j] = waiters'[k] => j = k
<1>1. waiters \in Seq(Client) /\ i \in 1..Len(waiters)
      /\ DOMAIN waiters = 1..Len(waiters)
  BY DEF TypeOK
<1>2. /\ waiters' \in Seq(Client)
      /\ Len(waiters') = Len(waiters) - 1
      /\ \A j \in 1..(Len(waiters) - 1) :
           waiters'[j] = IF j < i THEN waiters[j] ELSE waiters[j + 1]
  BY <1>1, RemoveAtProperties
<1>3. DOMAIN waiters' = 1..(Len(waiters) - 1)
  BY <1>1, <1>2
<1>4. \A j, k \in 1..Len(waiters) : waiters[j] = waiters[k] => j = k
  BY <1>1 DEF WaitersOK
<1>5. QED
  BY <1>1, <1>2, <1>3, <1>4

\* The caller whose request times out is no longer queued.
LEMMA DropTimedOut ==
  ASSUME TypeOK, WaitersOK, NEW c \in Client,
         waiters' = RemoveFirst(waiters, c)
  PROVE  /\ \A j \in DOMAIN waiters' : /\ waiters'[j] # c
                                       /\ \E m \in DOMAIN waiters :
                                            waiters'[j] = waiters[m]
         /\ \A j, k \in DOMAIN waiters' : waiters'[j] = waiters'[k] => j = k
<1>1. waiters \in Seq(Client) /\ DOMAIN waiters = 1..Len(waiters)
  BY DEF TypeOK
<1>2. \/ \E i \in 1..Len(waiters) :
           waiters[i] = c /\ RemoveFirst(waiters, c) = RemoveAt(waiters, i)
      \/ /\ \A i \in 1..Len(waiters) : waiters[i] # c
         /\ RemoveFirst(waiters, c) = waiters
  BY <1>1, RemoveFirstProperties
<1>3. ASSUME NEW i \in DOMAIN waiters, waiters[i] = c,
             waiters' = RemoveAt(waiters, i)
      PROVE  /\ \A j \in DOMAIN waiters' : /\ waiters'[j] # c
                                           /\ \E m \in DOMAIN waiters :
                                                waiters'[j] = waiters[m]
             /\ \A j, k \in DOMAIN waiters' : waiters'[j] = waiters'[k] => j = k
  BY <1>3, DropWaiter
<1>4. QED
  BY <1>1, <1>2, <1>3 DEF WaitersOK

\* A new request at the end of the queue.
LEMMA AddWaiter ==
  ASSUME TypeOK, NEW c \in Client, waiters' = Append(waiters, c)
  PROVE  /\ DOMAIN waiters' = 1..(Len(waiters) + 1)
         /\ DOMAIN waiters = 1..Len(waiters)
         /\ \A j \in 1..Len(waiters) : waiters'[j] = waiters[j]
         /\ waiters'[Len(waiters) + 1] = c
         /\ Len(waiters) \in Nat
<1>1. waiters \in Seq(Client)
  BY DEF TypeOK
<1>2. QED
  BY <1>1, AppendProperties

\* Taking the oldest builder out of a pool without duplicates.
LEMMA TakeOldestHomes ==
  ASSUME TypeOK, PoolsDistinct, NEW a \in Arch, availablePool[a] # <<>>,
         availablePool' = TakeOldest(a)
  PROVE  LET b == Head(availablePool[a]) IN
         /\ b \in Builder
         /\ InPool(b)
         /\ \A x \in Builder : InPool(x)' <=> InPool(x) /\ x # b
         /\ PoolsDistinct'
<1> DEFINE b == Head(availablePool[a])
<1>1. /\ availablePool[a] \in Seq(Builder)
      /\ Len(availablePool[a]) \in Nat \ {0}
      /\ b = availablePool[a][1]
      /\ b \in Builder
  BY DEF TypeOK
<1>2. /\ Tail(availablePool[a]) \in Seq(Builder)
      /\ Len(Tail(availablePool[a])) = Len(availablePool[a]) - 1
      /\ \A i \in 1..(Len(availablePool[a]) - 1) :
           Tail(availablePool[a])[i] = availablePool[a][i + 1]
  BY <1>1, HeadTailProperties
<1>3. /\ availablePool'[a] = Tail(availablePool[a])
      /\ \A x \in Arch \ {a} : availablePool'[x] = availablePool[x]
  BY DEF TakeOldest, TypeOK
<1>4. DOMAIN availablePool[a] = 1..Len(availablePool[a])
      /\ DOMAIN availablePool'[a] = 1..(Len(availablePool[a]) - 1)
  BY <1>1, <1>2, <1>3
<1> HIDE DEF b
<1>5. \A x \in Arch : \A i \in DOMAIN availablePool'[x] :
        \E j \in DOMAIN availablePool[x] :
          /\ availablePool'[x][i] = availablePool[x][j]
          /\ j = IF x = a THEN i + 1 ELSE i
  <2> SUFFICES ASSUME NEW x \in Arch, NEW i \in DOMAIN availablePool'[x]
               PROVE  \E j \in DOMAIN availablePool[x] :
                        /\ availablePool'[x][i] = availablePool[x][j]
                        /\ j = IF x = a THEN i + 1 ELSE i
    OBVIOUS
  <2>1. CASE x # a
    BY <1>3, <2>1
  <2>2. CASE x = a
    <3>1. i \in 1..(Len(availablePool[a]) - 1)
      BY <1>4, <2>2
    <3>2. i + 1 \in DOMAIN availablePool[a]
      BY <1>1, <1>4, <3>1
    <3>3. availablePool'[a][i] = availablePool[a][i + 1]
      BY <1>2, <1>3, <3>1
    <3>4. QED
      BY <2>2, <3>2, <3>3
  <2>3. QED
    BY <2>1, <2>2
<1>6. \A x \in Arch : \A j \in DOMAIN availablePool[x] :
        (x # a \/ j # 1) => \E i \in DOMAIN availablePool'[x] :
                              availablePool'[x][i] = availablePool[x][j]
  <2> SUFFICES ASSUME NEW x \in Arch, NEW j \in DOMAIN availablePool[x],
                      x # a \/ j # 1
               PROVE  \E i \in DOMAIN availablePool'[x] :
                        availablePool'[x][i] = availablePool[x][j]
    OBVIOUS
  <2>1. CASE x # a
    BY <1>3, <2>1
  <2>2. CASE x = a
    <3>1. /\ j - 1 \in 1..(Len(availablePool[a]) - 1)
          /\ (j - 1) + 1 = j
      BY <1>1, <1>4, <2>2
    <3>2. availablePool'[a][j - 1] = availablePool[a][j]
      BY <1>2, <1>3, <3>1
    <3>3. QED
      BY <1>4, <2>2, <3>1, <3>2
  <2>3. QED
    BY <2>1, <2>2
<1>7. \A a1, a2 \in Arch :
        \A i \in DOMAIN availablePool[a1], j \in DOMAIN availablePool[a2] :
          availablePool[a1][i] = availablePool[a2][j] => a1 = a2 /\ i = j
  BY DEF PoolsDistinct
<1>8. InPool(b)
  BY <1>1, <1>4 DEF InPool, ToSet
<1>9. \A x \in Builder : InPool(x)' <=> InPool(x) /\ x # b
  <2>1. ASSUME NEW x \in Builder, InPool(x)' PROVE InPool(x) /\ x # b
    <3>1. PICK y \in Arch : \E i \in DOMAIN availablePool'[y] :
            x = availablePool'[y][i]
      BY <2>1 DEF InPool, ToSet
    <3>a. PICK i \in DOMAIN availablePool'[y] : x = availablePool'[y][i]
      BY <3>1
    <3>2. PICK j \in DOMAIN availablePool[y] :
            /\ availablePool'[y][i] = availablePool[y][j]
            /\ j = IF y = a THEN i + 1 ELSE i
      BY <1>5
    <3>3. x # b
      BY <1>1, <1>4, <1>7, <3>a, <3>2
    <3>4. QED
      BY <3>a, <3>2, <3>3 DEF InPool, ToSet
  <2>2. ASSUME NEW x \in Builder, InPool(x), x # b PROVE InPool(x)'
    <3>1. PICK y \in Arch : \E j \in DOMAIN availablePool[y] :
            x = availablePool[y][j]
      BY <2>2 DEF InPool, ToSet
    <3>a. PICK j \in DOMAIN availablePool[y] : x = availablePool[y][j]
      BY <3>1
    <3>2. y # a \/ j # 1
      BY <1>1, <2>2, <3>a
    <3>3. QED
      BY <1>6, <3>a, <3>2 DEF InPool, ToSet
  <2>3. QED
    BY <2>1, <2>2
<1>10. PoolsDistinct'
  BY <1>5, <1>7, <1>4 DEF PoolsDistinct
<1>11. QED
  BY <1>1, <1>8, <1>9, <1>10 DEF b

\* Adding a builder that is in no pool to one of them.
LEMMA AppendHomes ==
  ASSUME TypeOK, PoolsDistinct, NEW a, NEW b \in Builder, ~InPool(b),
         availablePool' = [availablePool EXCEPT ![a] = Append(@, b)]
  PROVE  /\ \A x \in Builder : InPool(x)' => InPool(x) \/ x = b
         /\ PoolsDistinct'
<1>1. ASSUME NEW x \in Arch
      PROVE  /\ availablePool[x] \in Seq(Builder)
             /\ Len(availablePool[x]) \in Nat
             /\ DOMAIN availablePool[x] = 1..Len(availablePool[x])
             /\ Len(Append(availablePool[x], b)) = Len(availablePool[x]) + 1
             /\ DOMAIN Append(availablePool[x], b) = 1..(Len(availablePool[x]) + 1)
             /\ \A i \in 1..Len(availablePool[x]) :
                  Append(availablePool[x], b)[i] = availablePool[x][i]
             /\ Append(availablePool[x], b)[Len(availablePool[x]) + 1] = b
  <2>1. availablePool[x] \in Seq(Builder)
    BY DEF TypeOK
  <2>2. QED
    BY <2>1, AppendProperties
<1>2. \A x \in Arch : availablePool'[x] =
        IF x = a THEN Append(availablePool[x], b) ELSE availablePool[x]
  BY DEF TypeOK
<1>3. ASSUME NEW x \in Arch, NEW i \in DOMAIN availablePool'[x]
      PROVE  \/ i \in DOMAIN availablePool[x]
                /\ availablePool'[x][i] = availablePool[x][i]
             \/ x = a /\ i = Len(availablePool[x]) + 1 /\ availablePool'[x][i] = b
  <2>1. CASE x = a
    BY <1>1, <1>2, <2>1
  <2>2. CASE x # a
    BY <1>2, <2>2
  <2>3. QED
    BY <2>1, <2>2
<1>4. \A x \in Arch : \A i \in DOMAIN availablePool[x] : availablePool[x][i] # b
  BY DEF InPool, ToSet
<1>5. \A x \in Builder : InPool(x)' => InPool(x) \/ x = b
  <2> SUFFICES ASSUME NEW x \in Builder, InPool(x)', x # b PROVE InPool(x)
    OBVIOUS
  <2>1. PICK y \in Arch : \E i \in DOMAIN availablePool'[y] :
          x = availablePool'[y][i]
    BY DEF InPool, ToSet
  <2>2. QED
    BY <1>3, <2>1 DEF InPool, ToSet
<1>6. PoolsDistinct'
  BY <1>3, <1>4 DEF PoolsDistinct
<1>7. QED
  BY <1>5, <1>6

\* The idle cleanup only takes builders out.
LEMMA CleanupHomes ==
  ASSUME TypeOK, PoolsDistinct, NEW old,
         availablePool' = [a \in Arch |-> Without(availablePool[a], old)]
  PROVE  /\ \A x \in Builder : InPool(x)' => InPool(x) /\ x \notin old
         /\ PoolsDistinct'
<1>1. ASSUME NEW x \in Arch
      PROVE  /\ availablePool[x] \in Seq(Builder)
             /\ availablePool'[x] \in Seq(Builder)
             /\ DOMAIN availablePool[x] = 1..Len(availablePool[x])
             /\ DOMAIN availablePool'[x] = 1..Len(availablePool'[x])
             /\ \A i \in DOMAIN availablePool'[x] :
                  /\ availablePool'[x][i] \notin old
                  /\ \E m \in DOMAIN availablePool[x] :
                       availablePool[x][m] = availablePool'[x][i]
             /\ \A i, j \in DOMAIN availablePool'[x] :
                  availablePool'[x][i] = availablePool'[x][j] => i = j
  <2>1. availablePool[x] \in Seq(Builder)
    BY DEF TypeOK
  <2>2. availablePool'[x] = Without(availablePool[x], old)
    OBVIOUS
  <2>3. DOMAIN availablePool[x] = 1..Len(availablePool[x])
    BY <2>1
  <2>4. \A m, n \in 1..Len(availablePool[x]) :
          availablePool[x][m] = availablePool[x][n] => m = n
    BY <2>3 DEF PoolsDistinct
  <2>5. /\ availablePool'[x] \in Seq(Builder)
        /\ \A i \in 1..Len(availablePool'[x]) :
             /\ availablePool'[x][i] \notin old
             /\ \E m \in 1..Len(availablePool[x]) :
                  availablePool[x][m] = availablePool'[x][i]
        /\ \A i, j \in 1..Len(availablePool'[x]) :
             availablePool'[x][i] = availablePool'[x][j] => i = j
    BY <2>1, <2>2, <2>4, WithoutProperties
  <2>6. DOMAIN availablePool'[x] = 1..Len(availablePool'[x])
    BY <2>5
  <2>7. QED
    BY <2>1, <2>3, <2>5, <2>6
<1>2. ASSUME NEW x \in Builder, InPool(x)' PROVE InPool(x) /\ x \notin old
  <2>1. PICK y \in Arch : \E i \in DOMAIN availablePool'[y] :
          x = availablePool'[y][i]
    BY <1>2 DEF InPool, ToSet
  <2>2. PICK i \in DOMAIN availablePool'[y] : x = availablePool'[y][i]
    BY <2>1
  <2>3. /\ availablePool'[y][i] \notin old
        /\ \E m \in DOMAIN availablePool[y] :
             availablePool[y][m] = availablePool'[y][i]
    BY <1>1
  <2>4. x \notin old /\ \E m \in DOMAIN availablePool[y] : availablePool[y][m] = x
    BY <2>2, <2>3, Zenon
  <2>5. QED
    BY <2>4 DEF InPool, ToSet
<1>3. PoolsDistinct'
  <2> SUFFICES ASSUME NEW a1 \in Arch, NEW a2 \in Arch,
                      NEW i \in DOMAIN availablePool'[a1],
                      NEW j \in DOMAIN availablePool'[a2],
                      availablePool'[a1][i] = availablePool'[a2][j]
               PROVE  a1 = a2 /\ i = j
    BY DEF PoolsDistinct
  <2>1. a1 = a2
    <3>1. PICK m \in DOMAIN availablePool[a1] :
            availablePool[a1][m] = availablePool'[a1][i]
      BY <1>1
    <3>2. PICK n \in DOMAIN availablePool[a2] :
            availablePool[a2][n] = availablePool'[a2][j]
      BY <1>1
    <3>3. QED
      BY <3>1, <3>2 DEF PoolsDistinct
  <2>2. QED
    BY <1>1, <2>1
<1>4. QED
  BY <1>2, <1>3

-----------------------------------------------------------------------------
(* Every step keeps the homes in order *)

\* A handoff gives b, which nobody else has, to a caller that had nothing.
LEMMA HandOffHomes ==
  ASSUME TypeOK, WaitersOK, CallsOK, NEW b \in Builder,
         NEW calls \in [Client -> Call],
         \A i \in DOMAIN waiters : calls[waiters[i]] = call[waiters[i]],
         HandToWaiter(b, calls)
  PROVE  \E d \in Client :
           /\ calls[d] = call[d]
           /\ call[d].pc \in {"signal", "select"}
           /\ call[d].resp = NoBuilder /\ call[d].held = NoBuilder
           /\ call' = [calls EXCEPT ![d].resp = b]
           /\ \A j \in DOMAIN waiters' : /\ waiters'[j] # d
                                         /\ \E m \in DOMAIN waiters :
                                              waiters'[j] = waiters[m]
           /\ \A j, k \in DOMAIN waiters' : waiters'[j] = waiters'[k] => j = k
<1>1. PICK i \in DOMAIN waiters :
        /\ waiters' = RemoveAt(waiters, i)
        /\ call' = [calls EXCEPT ![waiters[i]].resp = b]
  BY DEF HandToWaiter
<1>2. waiters[i] \in Client
  BY DEF TypeOK
<1>3. /\ call[waiters[i]].pc \in {"signal", "select"}
      /\ call[waiters[i]].resp = NoBuilder /\ call[waiters[i]].held = NoBuilder
  BY <1>2 DEF WaitersOK, CallsOK
<1>4. /\ \A j \in DOMAIN waiters' : /\ waiters'[j] # waiters[i]
                                    /\ \E m \in DOMAIN waiters :
                                         waiters'[j] = waiters[m]
      /\ \A j, k \in DOMAIN waiters' : waiters'[j] = waiters'[k] => j = k
  BY <1>1, DropWaiter
<1>5. QED
  BY <1>1, <1>2, <1>3, <1>4

\* A caller that does not wait for a response is not queued.
LEMMA NotQueued ==
  ASSUME TypeOK, WaitersOK, NEW c \in Client,
         call[c].pc \notin {"signal", "select"} \/ call[c].resp # NoBuilder
  PROVE  \A i \in DOMAIN waiters : waiters[i] \in Client /\ waiters[i] # c
<1> SUFFICES ASSUME NEW i \in DOMAIN waiters
             PROVE  waiters[i] \in Client /\ waiters[i] # c
  OBVIOUS
<1>1. waiters[i] \in Client
  BY DEF TypeOK
<1>2. /\ call[waiters[i]].pc \in {"signal", "select"}
      /\ call[waiters[i]].resp = NoBuilder
  BY DEF WaitersOK
<1>3. QED
  BY <1>1, <1>2

\* A step that changes nothing but a waiting caller's progress, or nothing
\* that the invariant speaks of.
LEMMA QuietHomes ==
  ASSUME TypeOK, HomeInv, UNCHANGED <<waiters, availablePool>>,
         \A d \in Client :
           /\ call'[d].resp = call[d].resp /\ call'[d].held = call[d].held
           /\ \/ call'[d].pc = call[d].pc
              \/ {call[d].pc, call'[d].pc} \subseteq {"signal", "select"}
              \/ {call[d].pc, call'[d].pc} \subseteq {"dial", "build"},
         NewbornHomeless'
  PROVE  HomeInv'
<1>1. \A i \in DOMAIN waiters : waiters[i] \in Client
  BY DEF TypeOK
<1>2. WaitersOK'
  BY <1>1 DEF HomeInv, WaitersOK
<1>3. CallsOK'
  BY DEF HomeInv, CallsOK
<1>4. /\ \A x \in Builder, d \in Client : Has(d, x)' <=> Has(d, x)
      /\ \A x \in Builder : InPool(x)' <=> InPool(x)
      /\ PoolsDistinct' <=> PoolsDistinct
  BY DEF Has, InPool, PoolsDistinct
<1>5. OneHome'
  BY <1>4 DEF HomeInv, OneHome, OneHolder
<1>6. QED
  BY <1>2, <1>3, <1>5 DEF HomeInv

\* A caller that finds a builder in the pool takes the oldest one from it into
\* its hand (pool.go, acquireBuilder).
LEMMA AcquirePooledHomes ==
  ASSUME TypeOK, HomeInv, NEW c \in Client, NEW a \in Arch, AcquirePooled(c, a)
  PROVE  HomeInv'
<1> DEFINE b == Head(availablePool[a])
<1>1. /\ b \in Builder
      /\ InPool(b)
      /\ \A x \in Builder : InPool(x)' <=> InPool(x) /\ x # b
      /\ PoolsDistinct'
  BY TakeOldestHomes DEF AcquirePooled, HomeInv, OneHome
<1> HIDE DEF b
<1>2. /\ call[c].pc = "idle"
      /\ call' = [call EXCEPT ![c] = [Idle EXCEPT !.pc = "dial", !.arch = a,
                                                  !.held = b]]
      /\ UNCHANGED <<waiters, prov, builders, sleeping, destroyGo>>
      /\ activeBuilders' = activeBuilders \union {b}
  BY DEF AcquirePooled, b
<1>3. /\ call'[c].pc = "dial" /\ call'[c].resp = NoBuilder /\ call'[c].held = b
      /\ \A d \in Client \ {c} : call'[d] = call[d]
  BY <1>2 DEF TypeOK, Idle
<1>4. \A i \in DOMAIN waiters : waiters[i] \in Client /\ waiters[i] # c
  BY <1>2, NotQueued DEF HomeInv
<1>5. WaitersOK'
  BY <1>2, <1>3, <1>4 DEF HomeInv, WaitersOK
<1>6. CallsOK'
  BY <1>1, <1>3 DEF HomeInv, CallsOK
<1>7. \A x \in Builder, d \in Client :
        Has(d, x)' <=> (d # c /\ Has(d, x)) \/ (d = c /\ x = b)
  BY <1>3, PoolAssumption DEF Has
<1>8. OneHome'
  BY <1>1, <1>7 DEF HomeInv, OneHome, OneHolder
<1>9. NewbornHomeless'
  BY <1>1, <1>2, <1>7 DEF HomeInv, NewbornHomeless, Newborn, BeingDestroyed
<1>10. QED
  BY <1>5, <1>6, <1>8, <1>9 DEF HomeInv

\* A caller that finds the pool of its arch empty joins the queue with an empty
\* channel; no builder moves (pool.go, acquireBuilder).
LEMMA AcquireEnqueueHomes ==
  ASSUME TypeOK, HomeInv, NEW c \in Client, NEW a \in Arch, AcquireEnqueue(c, a)
  PROVE  HomeInv'
<1>1. /\ call[c].pc = "idle"
      /\ waiters' = Append(waiters, c)
      /\ call' = [call EXCEPT ![c] = [Idle EXCEPT !.pc = "signal", !.arch = a]]
      /\ UNCHANGED <<availablePool, prov, builders, activeBuilders, sleeping,
                     destroyGo>>
  BY DEF AcquireEnqueue
<1>2. /\ call'[c].pc = "signal" /\ call'[c].resp = NoBuilder
      /\ call'[c].held = NoBuilder
      /\ \A d \in Client \ {c} : call'[d] = call[d]
  BY <1>1 DEF TypeOK, Idle
<1>3. \A i \in DOMAIN waiters : waiters[i] \in Client /\ waiters[i] # c
  BY <1>1, NotQueued DEF HomeInv
<1>4. /\ DOMAIN waiters' = 1..(Len(waiters) + 1)
      /\ DOMAIN waiters = 1..Len(waiters)
      /\ \A j \in 1..Len(waiters) : waiters'[j] = waiters[j]
      /\ waiters'[Len(waiters) + 1] = c
      /\ Len(waiters) \in Nat
  BY <1>1, AddWaiter
<1>5. \A j \in DOMAIN waiters' :
        \/ j \in DOMAIN waiters /\ waiters'[j] = waiters[j]
        \/ j = Len(waiters) + 1 /\ waiters'[j] = c
  BY <1>4
<1>6. WaitersOK'
  <2>1. \A j \in DOMAIN waiters' : /\ call'[waiters'[j]].pc \in {"signal", "select"}
                                   /\ call'[waiters'[j]].resp = NoBuilder
    BY <1>2, <1>3, <1>5 DEF HomeInv, WaitersOK
  <2>2. \A j, k \in DOMAIN waiters' : waiters'[j] = waiters'[k] => j = k
    BY <1>3, <1>5 DEF HomeInv, WaitersOK
  <2>3. QED
    BY <2>1, <2>2 DEF WaitersOK
<1>7. CallsOK'
  BY <1>2 DEF HomeInv, CallsOK
<1>8. /\ \A x \in Builder, d \in Client : Has(d, x)' <=> Has(d, x)
      /\ \A x \in Builder : InPool(x)' <=> InPool(x)
      /\ PoolsDistinct' <=> PoolsDistinct
  BY <1>1, <1>2, PoolAssumption DEF Has, InPool, PoolsDistinct, HomeInv, CallsOK
<1>9. OneHome'
  BY <1>8 DEF HomeInv, OneHome, OneHolder
<1>10. NewbornHomeless'
  BY <1>1, <1>8 DEF HomeInv, NewbornHomeless, Newborn, BeingDestroyed
<1>11. QED
  BY <1>6, <1>7, <1>9, <1>10 DEF HomeInv

\* The builder moves from the response channel into the caller's hands.
LEMMA ReceiveHomes ==
  ASSUME TypeOK, HomeInv, NEW c \in Client, Receive(c)
  PROVE  HomeInv'
<1> DEFINE b == call[c].resp
<1>1. b \in Builder /\ b # NoBuilder
  BY DEF Receive, TypeOK, Call
<1>2. /\ call' = [call EXCEPT ![c] = [Idle EXCEPT !.pc = "dial",
                                          !.arch = call[c].arch, !.held = b]]
      /\ UNCHANGED <<waiters, availablePool, prov, builders, sleeping, destroyGo>>
      /\ activeBuilders' = activeBuilders \union {b}
  BY DEF Receive
<1>3. /\ call'[c].pc = "dial" /\ call'[c].resp = NoBuilder /\ call'[c].held = b
      /\ \A d \in Client \ {c} : call'[d] = call[d]
  BY <1>2 DEF TypeOK, Idle
<1>4. \A i \in DOMAIN waiters : waiters[i] \in Client /\ waiters[i] # c
  BY <1>1, NotQueued DEF HomeInv
<1>5. WaitersOK'
  BY <1>2, <1>3, <1>4 DEF HomeInv, WaitersOK
<1>6. CallsOK'
  BY <1>1, <1>3 DEF HomeInv, CallsOK
<1>7. call[c].held = NoBuilder
  BY DEF Receive, HomeInv, CallsOK
<1>8. /\ \A x \in Builder, d \in Client : Has(d, x)' <=> Has(d, x)
      /\ \A x \in Builder : InPool(x)' <=> InPool(x)
      /\ PoolsDistinct' <=> PoolsDistinct
  BY <1>2, <1>3, <1>7, PoolAssumption DEF Has, InPool, PoolsDistinct
<1>9. OneHome'
  BY <1>8 DEF HomeInv, OneHome, OneHolder
<1>10. Has(c, b)
  BY DEF Has
<1>11. NewbornHomeless'
  BY <1>1, <1>2, <1>8, <1>10 DEF HomeInv, NewbornHomeless, Newborn, BeingDestroyed
<1>12. QED
  BY <1>5, <1>6, <1>9, <1>11 DEF HomeInv

\* The caller leaves; what was in its response channel loses its home.
LEMMA TimeOutHomes ==
  ASSUME TypeOK, HomeInv, NEW c \in Client, TimeOut(c)
  PROVE  HomeInv'
<1>1. /\ waiters' = RemoveFirst(waiters, c)
      /\ call' = [call EXCEPT ![c] = Idle]
      /\ UNCHANGED <<availablePool, prov, builders, activeBuilders, sleeping,
                     destroyGo>>
  BY DEF TimeOut
<1>2. /\ call'[c] = Idle
      /\ \A d \in Client \ {c} : call'[d] = call[d]
  BY <1>1 DEF TypeOK
<1>3. /\ \A j \in DOMAIN waiters' : /\ waiters'[j] # c
                                    /\ \E m \in DOMAIN waiters :
                                         waiters'[j] = waiters[m]
      /\ \A j, k \in DOMAIN waiters' : waiters'[j] = waiters'[k] => j = k
  BY <1>1, DropTimedOut DEF HomeInv
<1>4. \A i \in DOMAIN waiters : waiters[i] \in Client
  BY DEF TypeOK
<1>5. WaitersOK'
  BY <1>2, <1>3, <1>4 DEF HomeInv, WaitersOK
<1>6. CallsOK'
  BY <1>2 DEF HomeInv, CallsOK, Idle
<1>7. /\ \A x \in Builder, d \in Client : Has(d, x)' => Has(d, x)
      /\ \A x \in Builder : InPool(x)' <=> InPool(x)
      /\ PoolsDistinct' <=> PoolsDistinct
  BY <1>1, <1>2, PoolAssumption DEF Has, InPool, PoolsDistinct, Idle
<1>8. OneHome'
  BY <1>7 DEF HomeInv, OneHome, OneHolder
<1>9. NewbornHomeless'
  BY <1>1, <1>7 DEF HomeInv, NewbornHomeless, Newborn, BeingDestroyed
<1>10. QED
  BY <1>5, <1>6, <1>8, <1>9 DEF HomeInv
\* A caller that leaves the pool and takes nothing along.
LEMMA LeaveHomes ==
  ASSUME TypeOK, HomeInv, NEW c \in Client, call[c].pc \in {"dial", "build"},
         call' = [call EXCEPT ![c] = Idle]
  PROVE  /\ waiters' = waiters => WaitersOK'
         /\ CallsOK'
         /\ \A x \in Builder, d \in Client : Has(d, x)' => Has(d, x) /\ d # c
<1>1. /\ call'[c] = Idle
      /\ \A d \in Client \ {c} : call'[d] = call[d]
  BY DEF TypeOK
<1>2. \A i \in DOMAIN waiters : waiters[i] \in Client /\ waiters[i] # c
  BY NotQueued DEF HomeInv
<1>3. waiters' = waiters => WaitersOK'
  BY <1>1, <1>2 DEF HomeInv, WaitersOK
<1>4. CallsOK'
  BY <1>1 DEF HomeInv, CallsOK, Idle
<1>5. \A x \in Builder, d \in Client : Has(d, x)' => Has(d, x) /\ d # c
  BY <1>1, PoolAssumption DEF Has, Idle
<1>6. QED
  BY <1>3, <1>4, <1>5

\* releaseBuilder: b, which only c had, goes to nobody, to one waiter, to one
\* pool or into its destruction delay.
LEMMA ReleaseHomes ==
  ASSUME TypeOK, HomeInv, NEW c \in Client, call[c].pc \in {"dial", "build"},
         releaseBuilder(c), UNCHANGED <<builders, prov, destroyGo>>
  PROVE  HomeInv'
<1> DEFINE b    == call[c].held
           a    == rec[b].arch
           done == [call EXCEPT ![c] = Idle]
<1>1. b \in Builder /\ Has(c, b)
  BY DEF HomeInv, CallsOK, Has
<1>2. /\ ~InPool(b)
      /\ \A d \in Client : Has(d, b) => d = c
      /\ ~Newborn(b)
  BY <1>1 DEF HomeInv, OneHome, OneHolder, NewbornHomeless
<1>3. /\ done \in [Client -> Call]
      /\ done[c] = Idle
      /\ \A d \in Client \ {c} : done[d] = call[d]
  BY DEF TypeOK, Idle, Call, CallPC
<1>4. \A i \in DOMAIN waiters : waiters[i] \in Client /\ waiters[i] # c
  BY NotQueued DEF HomeInv
<1> HIDE DEF b, a, done
<1>5. CASE /\ call' = done
           /\ UNCHANGED <<availablePool, activeBuilders, waiters, rec, sleeping>>
  <2>1. /\ WaitersOK' /\ CallsOK'
        /\ \A x \in Builder, d \in Client : Has(d, x)' => Has(d, x) /\ d # c
    BY <1>5, LeaveHomes DEF done
  <2>2. /\ \A x \in Builder : InPool(x)' <=> InPool(x)
        /\ PoolsDistinct' <=> PoolsDistinct
    BY <1>5 DEF InPool, PoolsDistinct
  <2>3. OneHome'
    BY <2>1, <2>2 DEF HomeInv, OneHome, OneHolder
  <2>4. NewbornHomeless'
    BY <1>5, <2>1, <2>2 DEF HomeInv, NewbornHomeless, Newborn, BeingDestroyed
  <2>5. QED
    BY <2>1, <2>3, <2>4 DEF HomeInv
<1>6. CASE /\ activeBuilders' = activeBuilders \ {b}
           /\ HandToWaiter(b, done)
           /\ UNCHANGED <<availablePool, sleeping>>
  <2>1. PICK d \in Client :
           /\ done[d] = call[d]
           /\ call[d].pc \in {"signal", "select"}
           /\ call[d].resp = NoBuilder /\ call[d].held = NoBuilder
           /\ call' = [done EXCEPT ![d].resp = b]
           /\ \A j \in DOMAIN waiters' : /\ waiters'[j] # d
                                         /\ \E m \in DOMAIN waiters :
                                              waiters'[j] = waiters[m]
           /\ \A j, k \in DOMAIN waiters' : waiters'[j] = waiters'[k] => j = k
    <3>1. \A i \in DOMAIN waiters : done[waiters[i]] = call[waiters[i]]
      BY <1>3, <1>4
    <3>2. QED
      BY <1>1, <1>3, <1>6, <3>1, HandOffHomes DEF HomeInv
  <2>2. d # c
    BY <2>1
  <2>3. /\ call'[c] = Idle
        /\ call'[d] = [call[d] EXCEPT !.resp = b]
        /\ \A e \in Client \ {c, d} : call'[e] = call[e]
    BY <1>3, <2>1, <2>2
  <2>4. /\ call'[d].pc = call[d].pc /\ call'[d].resp = b
        /\ call'[d].held = NoBuilder
    BY <2>1, <2>3 DEF TypeOK, Call
  <2>5. WaitersOK'
    BY <1>4, <2>1, <2>3 DEF HomeInv, WaitersOK
  <2>6. CallsOK'
    BY <2>1, <2>3, <2>4 DEF HomeInv, CallsOK, Idle
  <2>7. \A x \in Builder, e \in Client :
          Has(e, x)' => (Has(e, x) /\ e # c) \/ (e = d /\ x = b)
    BY <2>1, <2>3, <2>4, PoolAssumption DEF Has, Idle
  <2>8. /\ \A x \in Builder : InPool(x)' <=> InPool(x)
        /\ PoolsDistinct' <=> PoolsDistinct
    BY <1>6 DEF InPool, PoolsDistinct
  <2>9. OneHome'
    BY <1>2, <2>7, <2>8 DEF HomeInv, OneHome, OneHolder
  <2>10. NewbornHomeless'
    BY <1>2, <1>6, <2>7, <2>8 DEF HomeInv, NewbornHomeless, Newborn, BeingDestroyed
  <2>11. QED
    BY <2>5, <2>6, <2>9, <2>10 DEF HomeInv
<1>7. CASE /\ activeBuilders' = activeBuilders \ {b}
           /\ availablePool' = [availablePool EXCEPT ![a] = Append(@, b)]
           /\ call' = done
           /\ UNCHANGED <<waiters, sleeping>>
  <2>1. /\ WaitersOK' /\ CallsOK'
        /\ \A x \in Builder, d \in Client : Has(d, x)' => Has(d, x) /\ d # c
    BY <1>7, LeaveHomes DEF done
  <2>2. /\ \A x \in Builder : InPool(x)' => InPool(x) \/ x = b
        /\ PoolsDistinct'
    BY <1>1, <1>2, <1>7, AppendHomes DEF HomeInv, OneHome
  <2>3. OneHome'
    BY <1>2, <2>1, <2>2 DEF HomeInv, OneHome, OneHolder
  <2>4. NewbornHomeless'
    BY <1>2, <1>7, <2>1, <2>2 DEF HomeInv, NewbornHomeless, Newborn, BeingDestroyed
  <2>5. QED
    BY <2>1, <2>3, <2>4 DEF HomeInv
<1>8. CASE /\ activeBuilders' = activeBuilders \ {b}
           /\ sleeping' = sleeping \union {b}
           /\ call' = done
           /\ UNCHANGED <<availablePool, waiters>>
  <2>1. /\ WaitersOK' /\ CallsOK'
        /\ \A x \in Builder, d \in Client : Has(d, x)' => Has(d, x) /\ d # c
    BY <1>8, LeaveHomes DEF done
  <2>2. /\ \A x \in Builder : InPool(x)' <=> InPool(x)
        /\ PoolsDistinct' <=> PoolsDistinct
    BY <1>8 DEF InPool, PoolsDistinct
  <2>3. OneHome'
    BY <2>1, <2>2 DEF HomeInv, OneHome, OneHolder
  <2>4. NewbornHomeless'
    BY <1>2, <1>8, <2>1, <2>2 DEF HomeInv, NewbornHomeless, Newborn, BeingDestroyed
  <2>5. QED
    BY <2>1, <2>3, <2>4 DEF HomeInv
<1>9. QED
  BY <1>5, <1>6, <1>7, <1>8 DEF releaseBuilder, b, a, done

\* The idle cleanup moves stale builders out of the pools, each to a goroutine
\* that destroys it (pool.go, cleanupOldBuilders).
LEMMA CleanupStepHomes ==
  ASSUME TypeOK, HomeInv, cleanupOldBuilders
  PROVE  HomeInv'
<1> DEFINE old == UNION {Stale(a) : a \in Arch}
<1>1. /\ availablePool' = [a \in Arch |-> Without(availablePool[a], old)]
      /\ builders' = builders \ old
      /\ destroyGo' = destroyGo \union ({"idle"} \X old)
      /\ UNCHANGED <<activeBuilders, waiters, call, prov, sleeping>>
  BY DEF cleanupOldBuilders
<1>2. \A x \in Builder : x \in old => InPool(x)
  BY DEF Stale, InPool
<1> HIDE DEF old
<1>3. /\ \A x \in Builder : InPool(x)' => InPool(x) /\ x \notin old
      /\ PoolsDistinct'
  BY <1>1, CleanupHomes DEF HomeInv, OneHome
<1>4. WaitersOK' /\ CallsOK'
  BY <1>1 DEF HomeInv, WaitersOK, CallsOK
<1>5. \A x \in Builder, d \in Client : Has(d, x)' <=> Has(d, x)
  BY <1>1 DEF Has
<1>6. OneHome'
  BY <1>3, <1>5 DEF HomeInv, OneHome, OneHolder
<1>7. \A x \in Builder : BeingDestroyed(x)' => BeingDestroyed(x) \/ InPool(x)
  BY <1>1, <1>2 DEF BeingDestroyed
<1>8. NewbornHomeless'
  BY <1>1, <1>3, <1>5, <1>7 DEF HomeInv, NewbornHomeless, Newborn
<1>9. QED
  BY <1>4, <1>6, <1>8 DEF HomeInv

\* A new ID is one that nothing refers to.
LEMMA StartProvisionHomes ==
  ASSUME TypeOK, HomeInv, NEW a \in Arch, NEW b \in Builder, StartProvision(a, b)
  PROVE  HomeInv'
<1>1. /\ Unused(b)
      /\ prov' = [prov EXCEPT ![b] = "create"]
      /\ UNCHANGED <<builders, availablePool, activeBuilders, waiters, call,
                     sleeping, destroyGo>>
  BY DEF StartProvision
<1>2. /\ ~InPool(b) /\ ~BeingDestroyed(b)
      /\ \A d \in Client : ~Has(d, b)
      /\ b \notin builders /\ b \notin activeBuilders /\ b \notin sleeping
  BY <1>1 DEF Unused, InPool, BeingDestroyed, Has
<1>3. \A x \in Builder \ {b} : prov'[x] = prov[x]
  BY <1>1 DEF TypeOK
<1>4. NewbornHomeless'
  <2>1. /\ \A x \in Builder, d \in Client : Has(d, x)' <=> Has(d, x)
        /\ \A x \in Builder : InPool(x)' <=> InPool(x)
        /\ \A x \in Builder : BeingDestroyed(x)' <=> BeingDestroyed(x)
    BY <1>1 DEF Has, InPool, BeingDestroyed
  <2>2. QED
    BY <1>1, <1>2, <1>3, <2>1 DEF HomeInv, NewbornHomeless, Newborn
<1>5. QED
  BY <1>1, <1>4, QuietHomes

\* A fresh VM that is wanted goes straight into the channel of the first live
\* waiter of its arch (pool.go, provisionBackground).
LEMMA RegisterHandOffHomes ==
  ASSUME TypeOK, HomeInv, NEW b \in Builder, RegisterHandOff(b)
  PROVE  HomeInv'
<1>1. /\ prov[b] = "created"
      /\ builders' = builders \union {b}
      /\ HandToWaiter(b, call)
      /\ prov' = [prov EXCEPT ![b] = "exit"]
      /\ UNCHANGED <<availablePool, activeBuilders, sleeping, destroyGo>>
  BY DEF RegisterHandOff
<1>2. ~InPool(b) /\ \A d \in Client : ~Has(d, b)
  BY <1>1 DEF HomeInv, NewbornHomeless, Newborn
<1>3. /\ prov'[b] = "exit"
      /\ \A x \in Builder \ {b} : prov'[x] = prov[x]
  BY <1>1 DEF TypeOK
<1>4. PICK d \in Client :
         /\ call[d].pc \in {"signal", "select"}
         /\ call[d].resp = NoBuilder /\ call[d].held = NoBuilder
         /\ call' = [call EXCEPT ![d].resp = b]
         /\ \A j \in DOMAIN waiters' : /\ waiters'[j] # d
                                       /\ \E m \in DOMAIN waiters :
                                            waiters'[j] = waiters[m]
         /\ \A j, k \in DOMAIN waiters' : waiters'[j] = waiters'[k] => j = k
  <2>1. call \in [Client -> Call]
    BY DEF TypeOK
  <2>2. QED
    BY <1>1, <2>1, HandOffHomes DEF HomeInv
<1>5. /\ call'[d].pc = call[d].pc /\ call'[d].resp = b
      /\ call'[d].held = NoBuilder
      /\ \A e \in Client \ {d} : call'[e] = call[e]
  BY <1>4 DEF TypeOK, Call
<1>6. \A i \in DOMAIN waiters : waiters[i] \in Client
  BY DEF TypeOK
<1>7. WaitersOK'
  BY <1>4, <1>5, <1>6 DEF HomeInv, WaitersOK
<1>8. CallsOK'
  BY <1>4, <1>5 DEF HomeInv, CallsOK
<1>9. \A x \in Builder, e \in Client :
        Has(e, x)' => Has(e, x) \/ (e = d /\ x = b)
  BY <1>4, <1>5, PoolAssumption DEF Has
<1>10. /\ \A x \in Builder : InPool(x)' <=> InPool(x)
       /\ PoolsDistinct' <=> PoolsDistinct
  BY <1>1 DEF InPool, PoolsDistinct
<1>11. OneHome'
  BY <1>2, <1>9, <1>10 DEF HomeInv, OneHome, OneHolder
<1>12. NewbornHomeless'
  BY <1>1, <1>3, <1>9, <1>10 DEF HomeInv, NewbornHomeless, Newborn, BeingDestroyed
<1>13. QED
  BY <1>7, <1>8, <1>11, <1>12 DEF HomeInv

\* A fresh VM that nobody waits for goes to the pool of its arch (pool.go,
\* provisionBackground).
LEMMA RegisterPooledHomes ==
  ASSUME TypeOK, HomeInv, NEW b \in Builder, RegisterPooled(b)
  PROVE  HomeInv'
<1>1. /\ prov[b] = "created"
      /\ builders' = builders \union {b}
      /\ availablePool' = [availablePool EXCEPT ![rec[b].arch] = Append(@, b)]
      /\ prov' = [prov EXCEPT ![b] = "exit"]
      /\ UNCHANGED <<activeBuilders, waiters, call, sleeping, destroyGo>>
  BY DEF RegisterPooled
<1>2. ~InPool(b) /\ \A d \in Client : ~Has(d, b)
  BY <1>1 DEF HomeInv, NewbornHomeless, Newborn
<1>3. /\ prov'[b] = "exit"
      /\ \A x \in Builder \ {b} : prov'[x] = prov[x]
  BY <1>1 DEF TypeOK
<1>4. /\ \A x \in Builder : InPool(x)' => InPool(x) \/ x = b
      /\ PoolsDistinct'
  BY <1>1, <1>2, AppendHomes DEF HomeInv, OneHome
<1>5. WaitersOK' /\ CallsOK'
  BY <1>1 DEF HomeInv, WaitersOK, CallsOK
<1>6. \A x \in Builder, d \in Client : Has(d, x)' <=> Has(d, x)
  BY <1>1 DEF Has
<1>7. OneHome'
  BY <1>2, <1>4, <1>6 DEF HomeInv, OneHome, OneHolder
<1>8. NewbornHomeless'
  BY <1>1, <1>3, <1>4, <1>6 DEF HomeInv, NewbornHomeless, Newborn, BeingDestroyed
<1>9. QED
  BY <1>5, <1>7, <1>8 DEF HomeInv

\* DestroyAll empties the pools; the callers keep what they hold.
LEMMA DestroyAllHomes ==
  ASSUME TypeOK, HomeInv, DestroyAll
  PROVE  HomeInv'
<1>1. /\ destroyGo' = destroyGo \union ({"shutdown"} \X builders)
      /\ builders' = {} /\ activeBuilders' = {}
      /\ availablePool' = [a \in Arch |-> <<>>]
      /\ UNCHANGED <<waiters, call, prov, sleeping>>
  BY DEF DestroyAll
<1>2. \A x \in Arch : DOMAIN availablePool'[x] = {}
  BY <1>1
<1>3. (\A x \in Builder : ~InPool(x)') /\ PoolsDistinct'
  BY <1>2 DEF InPool, ToSet, PoolsDistinct
<1>4. WaitersOK' /\ CallsOK'
  BY <1>1 DEF HomeInv, WaitersOK, CallsOK
<1>5. \A x \in Builder, d \in Client : Has(d, x)' <=> Has(d, x)
  BY <1>1 DEF Has
<1>6. \A x \in Builder : BeingDestroyed(x)' => BeingDestroyed(x) \/ x \in builders
  BY <1>1 DEF BeingDestroyed
<1>7. OneHome'
  BY <1>3, <1>5 DEF HomeInv, OneHome, OneHolder
<1>8. NewbornHomeless'
  BY <1>1, <1>3, <1>5, <1>6 DEF HomeInv, NewbornHomeless, Newborn
<1>9. QED
  BY <1>4, <1>7, <1>8 DEF HomeInv
\* Every step keeps the homes in order.
LEMMA HomeStep == TypeOK /\ HomeInv /\ [Next]_vars => HomeInv'
<1> SUFFICES ASSUME TypeOK, HomeInv, [Next]_vars PROVE HomeInv'
  OBVIOUS
<1> USE DEF poolVars, goVars
<1>0. ASSUME UNCHANGED <<waiters, availablePool, call>>, NewbornHomeless'
      PROVE  HomeInv'
  BY <1>0, QuietHomes
<1>a. ASSUME UNCHANGED <<waiters, availablePool, call, builders,
                         activeBuilders, sleeping, prov>>,
             destroyGo' \subseteq destroyGo
      PROVE  HomeInv'
  <2>1. NewbornHomeless'
    BY <1>a DEF HomeInv, NewbornHomeless, Newborn, Has, InPool, BeingDestroyed
  <2>2. QED
    BY <1>0, <1>a, <2>1
<1>b. ASSUME UNCHANGED <<waiters, availablePool, call, builders,
                         activeBuilders, sleeping, destroyGo>>,
             \A b \in Builder : Newborn(b)' => Newborn(b)
      PROVE  HomeInv'
  <2>1. NewbornHomeless'
    BY <1>b DEF HomeInv, NewbornHomeless, Has, InPool, BeingDestroyed
  <2>2. QED
    BY <1>0, <1>b, <2>1
<1>c. ASSUME NEW c \in Client, SendSignal(c) \/ Expire(c) \/ DialOK(c)
      PROVE  HomeInv'
  <2>1. /\ UNCHANGED <<waiters, availablePool, builders, activeBuilders,
                       sleeping, prov, destroyGo>>
        /\ \A d \in Client :
           /\ call'[d].resp = call[d].resp /\ call'[d].held = call[d].held
           /\ \/ call'[d].pc = call[d].pc
              \/ {call[d].pc, call'[d].pc} \subseteq {"signal", "select"}
              \/ {call[d].pc, call'[d].pc} \subseteq {"dial", "build"}
    <3>1. CASE SendSignal(c)
      BY <3>1 DEF SendSignal, TypeOK, Call
    <3>2. CASE Expire(c)
      BY <3>2 DEF Expire, TypeOK, Call
    <3>3. CASE DialOK(c)
      BY <3>3 DEF DialOK, TypeOK, Call
    <3>4. QED
      BY <1>c, <3>1, <3>2, <3>3
  <2>2. NewbornHomeless'
    BY <2>1 DEF HomeInv, NewbornHomeless, Newborn, Has, InPool, BeingDestroyed
  <2>3. QED
    BY <2>1, <2>2, QuietHomes
<1>1. ASSUME NEW c \in Client, NEW a \in Arch, AcquirePooled(c, a) PROVE HomeInv'
  BY <1>1, AcquirePooledHomes
<1>2. ASSUME NEW c \in Client, NEW a \in Arch, AcquireEnqueue(c, a) PROVE HomeInv'
  BY <1>2, AcquireEnqueueHomes
<1>3. ASSUME NEW c \in Client, Receive(c) PROVE HomeInv'
  BY <1>3, ReceiveHomes
<1>4. ASSUME NEW c \in Client, TimeOut(c) PROVE HomeInv'
  BY <1>4, TimeOutHomes
<1>5. ASSUME NEW c \in Client, DialFail(c) \/ ReleaseBuilder(c) PROVE HomeInv'
  BY <1>5, ReleaseHomes DEF DialFail, ReleaseBuilder
<1>6. CASE TakeSignal \/ ScaleOnSignal \/ ScaleOnTick
  BY <1>6, <1>a DEF TakeSignal, ScaleOnSignal, ScaleOnTick
<1>7. CASE cleanupOldBuilders
  BY <1>7, CleanupStepHomes
<1>8. ASSUME NEW b \in Builder, GrowIdle(b) PROVE HomeInv'
  BY <1>8, <1>a DEF GrowIdle
<1>9. ASSUME NEW b \in Builder, NEW a \in Arch, StartProvision(a, b) PROVE HomeInv'
  BY <1>9, StartProvisionHomes
<1>10. ASSUME NEW b \in Builder, CreateOK(b) \/ CreateFail(b) \/ EndProvision(b)
       PROVE  HomeInv'
  <2>1. \A x \in Builder : Newborn(x)' => Newborn(x)
    BY <1>10 DEF CreateOK, CreateFail, EndProvision, Newborn, TypeOK
  <2>2. QED
    BY <1>10, <1>b, <2>1 DEF CreateOK, CreateFail, EndProvision
<1>11. ASSUME NEW b \in Builder, RegisterHandOff(b) PROVE HomeInv'
  BY <1>11, RegisterHandOffHomes
<1>12. ASSUME NEW b \in Builder, RegisterPooled(b) PROVE HomeInv'
  BY <1>12, RegisterPooledHomes
<1>13. ASSUME NEW b \in Builder, scheduleDestruction(b) PROVE HomeInv'
  <2>1. /\ UNCHANGED <<waiters, availablePool, call, activeBuilders, prov>>
        /\ sleeping' \subseteq sleeping /\ b \in sleeping
        /\ builders' \subseteq builders
        /\ destroyGo' \subseteq destroyGo \union {<<"schedule", b>>}
    BY <1>13 DEF scheduleDestruction
  <2>2. \A x \in Builder : BeingDestroyed(x)' => BeingDestroyed(x) \/ x \in sleeping
    BY <2>1 DEF BeingDestroyed
  <2>3. NewbornHomeless'
    BY <2>1, <2>2 DEF HomeInv, NewbornHomeless, Newborn, Has, InPool
  <2>4. QED
    BY <1>0, <2>1, <2>3
<1>14. ASSUME NEW k \in Destroyer, NEW b \in Builder, DestroyReturns(k, b)
       PROVE  HomeInv'
  BY <1>14, <1>a DEF DestroyReturns
<1>15. CASE DestroyAll
  BY <1>15, DestroyAllHomes
<1>16. CASE Exit
  BY <1>16, <1>a DEF Exit
<1>17. CASE UNCHANGED vars
  BY <1>17, <1>a DEF vars
<1>18. QED
  BY <1>c, <1>1, <1>2, <1>3, <1>4, <1>5, <1>6, <1>7, <1>8, <1>9, <1>10, <1>11,
     <1>12, <1>13, <1>14, <1>15, <1>16, <1>17
     DEF Next, Caller, maintenanceWorker, provisionBackground, Destruction,
         Exited

\* In the initial state nobody has anything.
LEMMA HomeInit == Init => HomeInv
<1> SUFFICES ASSUME Init PROVE HomeInv
  OBVIOUS
<1>1. /\ waiters = <<>> /\ DOMAIN waiters = {}
      /\ \A a \in Arch : availablePool[a] = <<>> /\ DOMAIN availablePool[a] = {}
      /\ \A c \in Client : call[c] = Idle
      /\ \A b \in Builder : prov[b] = "none"
  BY DEF Init, NewPool
<1>2. \A b \in Builder : ~InPool(b) /\ \A c \in Client : ~Has(c, b)
  BY <1>1, PoolAssumption DEF InPool, ToSet, Has, Idle
<1>3. WaitersOK /\ CallsOK
  BY <1>1 DEF WaitersOK, CallsOK, Idle
<1>4. OneHome
  BY <1>1, <1>2 DEF OneHome, OneHolder, PoolsDistinct
<1>5. NewbornHomeless
  BY <1>1 DEF NewbornHomeless, Newborn
<1>6. QED
  BY <1>3, <1>4, <1>5 DEF HomeInv

\* No two callers ever have the same builder, and no builder is in a pool
\* while a caller has it, for every number of callers, VMs and archs and
\* across timeouts, handoffs, idle cleanup and shutdown.
THEOREM ExclusiveBuilders == Spec => []OneHome
<1>1. Init => TypeOK /\ HomeInv
  BY HomeInit, PoolAssumption DEF Init, NewPool, TypeOK, Idle, Call, CallPC,
     BuilderRec, BuilderStatus, Time, VMState
<1>2. TypeOK /\ HomeInv /\ [Next]_vars => (TypeOK /\ HomeInv)'
  BY TypeStep, HomeStep
<1>3. HomeInv => OneHome
  BY DEF HomeInv
<1>4. QED
  BY <1>1, <1>2, <1>3, PTL DEF Spec

-----------------------------------------------------------------------------
(* Builders do not idle while requests wait *)

\* It is enough that no queued request becomes live or changes its arch, and
\* that a pool only becomes non-empty when no live request wants it.
LEMMA IdleFrame ==
  ASSUME NoIdleWhileWaiting,
         \A a \in Arch : availablePool'[a] # <<>> =>
           availablePool[a] # <<>> \/ NoWaiterFor(a),
         \A j \in DOMAIN waiters' : \E m \in DOMAIN waiters :
           /\ waiters'[j] = waiters[m]
           /\ call'[waiters[m]].arch = call[waiters[m]].arch
           /\ call[waiters[m]].expired => call'[waiters[m]].expired
  PROVE  NoIdleWhileWaiting'
<1>1. \A a \in Arch : LiveWaiters(a) = {} => NoWaiterFor(a)
  BY DEF LiveWaiters, NoWaiterFor, ToSet
<1>2. \A a \in Arch : NoWaiterFor(a) => LiveWaiters(a)' = {}
  BY DEF LiveWaiters, NoWaiterFor, ToSet, Wants
<1>3. QED
  BY <1>1, <1>2 DEF NoIdleWhileWaiting

\* The requests that stay queued are not touched by a handoff.
LEMMA HandOffIdle ==
  ASSUME TypeOK, HomeInv, NEW b \in Builder, NEW calls \in [Client -> Call],
         \A i \in DOMAIN waiters : calls[waiters[i]] = call[waiters[i]],
         HandToWaiter(b, calls)
  PROVE  \A j \in DOMAIN waiters' : \E m \in DOMAIN waiters :
           /\ waiters'[j] = waiters[m]
           /\ call'[waiters[m]] = call[waiters[m]]
<1>1. PICK d \in Client :
           /\ call' = [calls EXCEPT ![d].resp = b]
           /\ \A j \in DOMAIN waiters' : /\ waiters'[j] # d
                                         /\ \E m \in DOMAIN waiters :
                                              waiters'[j] = waiters[m]
  BY HandOffHomes DEF HomeInv
<1>2. \A i \in DOMAIN waiters : waiters[i] \in Client
  BY DEF TypeOK
<1>3. \A i \in DOMAIN waiters : waiters[i] # d => call'[waiters[i]] = call[waiters[i]]
  BY <1>1, <1>2
<1>4. QED
  BY <1>1, <1>3

\* releaseBuilder pools a builder only when no live request wants it.
LEMMA ReleaseIdle ==
  ASSUME TypeOK, HomeInv, NoIdleWhileWaiting, NEW c \in Client,
         call[c].pc \in {"dial", "build"}, releaseBuilder(c)
  PROVE  NoIdleWhileWaiting'
<1> DEFINE b    == call[c].held
           a    == rec[b].arch
           done == [call EXCEPT ![c] = Idle]
<1>1. b \in Builder
  BY DEF HomeInv, CallsOK
<1>2. /\ done \in [Client -> Call]
      /\ \A d \in Client \ {c} : done[d] = call[d]
  BY DEF TypeOK, Idle, Call, CallPC
<1>3. \A i \in DOMAIN waiters : waiters[i] \in Client /\ waiters[i] # c
  BY NotQueued DEF HomeInv
<1>4. \A i \in DOMAIN waiters : done[waiters[i]] = call[waiters[i]]
  BY <1>2, <1>3
<1> HIDE DEF b, a, done
<1>5. CASE call' = done /\ UNCHANGED <<availablePool, waiters>>
  BY <1>4, <1>5, IdleFrame
<1>6. CASE HandToWaiter(b, done) /\ UNCHANGED availablePool
  <2>1. \A j \in DOMAIN waiters' : \E m \in DOMAIN waiters :
          waiters'[j] = waiters[m] /\ call'[waiters[m]] = call[waiters[m]]
    BY <1>1, <1>2, <1>4, <1>6, HandOffIdle
  <2>2. QED
    BY <1>6, <2>1, IdleFrame
<1>7. CASE /\ NoWaiterFor(a)
           /\ availablePool' = [availablePool EXCEPT ![a] = Append(@, b)]
           /\ call' = done
           /\ UNCHANGED waiters
  <2>1. \A x \in Arch : availablePool'[x] # <<>> =>
          availablePool[x] # <<>> \/ NoWaiterFor(x)
    BY <1>7 DEF TypeOK
  <2>2. QED
    BY <1>4, <1>7, <2>1, IdleFrame
<1>8. QED
  BY <1>5, <1>6, <1>7 DEF releaseBuilder, b, a, done

\* The idle cleanup fills no pool.
LEMMA CleanupIdle ==
  ASSUME TypeOK, NoIdleWhileWaiting, cleanupOldBuilders
  PROVE  NoIdleWhileWaiting'
<1> DEFINE old == UNION {Stale(a) : a \in Arch}
<1>1. /\ availablePool' = [a \in Arch |-> Without(availablePool[a], old)]
      /\ UNCHANGED <<waiters, call>>
  BY DEF cleanupOldBuilders
<1> HIDE DEF old
<1>2. ASSUME NEW a \in Arch, availablePool[a] = <<>>
      PROVE  availablePool'[a] = <<>>
  <2>1. availablePool[a] \in Seq(Builder) /\ Len(availablePool[a]) = 0
    BY <1>2 DEF TypeOK
  <2>2. availablePool'[a] = Without(availablePool[a], old)
    BY <1>1
  <2>3. /\ availablePool'[a] \in Seq(Builder)
        /\ \A i \in 1..Len(availablePool'[a]) :
             \E m \in 1..Len(availablePool[a]) :
               availablePool[a][m] = availablePool'[a][i]
    BY <2>1, <2>2, WithoutProperties
  <2>4. Len(availablePool'[a]) = 0
    <3>1. Len(availablePool'[a]) \in Nat
      BY <2>3
    <3>2. 1 \notin 1..Len(availablePool'[a])
      BY <2>1, <2>3
    <3>3. QED
      BY <3>1, <3>2
  <2>5. QED
    BY <2>3, <2>4, EmptySeq
<1>3. QED
  BY <1>1, <1>2, IdleFrame

\* No step leaves a builder idle next to a live request for it.
LEMMA IdleStep ==
  TypeOK /\ HomeInv /\ NoIdleWhileWaiting /\ [Next]_vars => NoIdleWhileWaiting'
<1> SUFFICES ASSUME TypeOK, HomeInv, NoIdleWhileWaiting, [Next]_vars
             PROVE  NoIdleWhileWaiting'
  OBVIOUS
<1> USE DEF poolVars, goVars
<1>0. ASSUME UNCHANGED <<waiters, availablePool, call>>
      PROVE  NoIdleWhileWaiting'
  BY <1>0, IdleFrame
<1>a. \A i \in DOMAIN waiters : waiters[i] \in Client
  BY DEF TypeOK
<1>1. ASSUME NEW c \in Client, NEW a \in Arch, AcquirePooled(c, a)
      PROVE  NoIdleWhileWaiting'
  <2>1. \A i \in DOMAIN waiters : waiters[i] \in Client /\ waiters[i] # c
    BY <1>1, NotQueued DEF HomeInv, AcquirePooled
  <2>2. \A d \in Client \ {c} : call'[d] = call[d]
    BY <1>1 DEF AcquirePooled, TypeOK
  <2>3. \A x \in Arch : availablePool'[x] # <<>> => availablePool[x] # <<>>
    BY <1>1 DEF AcquirePooled, TakeOldest, TypeOK
  <2>4. UNCHANGED waiters
    BY <1>1 DEF AcquirePooled
  <2>5. QED
    BY <2>1, <2>2, <2>3, <2>4, IdleFrame
<1>2. ASSUME NEW c \in Client, NEW a \in Arch, AcquireEnqueue(c, a)
      PROVE  NoIdleWhileWaiting'
  <2>1. /\ call[c].pc = "idle" /\ availablePool[a] = <<>>
        /\ waiters' = Append(waiters, c) /\ UNCHANGED availablePool
    BY <1>2 DEF AcquireEnqueue
  <2>2. \A i \in DOMAIN waiters : waiters[i] \in Client /\ waiters[i] # c
    BY <2>1, NotQueued DEF HomeInv
  <2>3. call'[c].arch = a /\ \A d \in Client \ {c} : call'[d] = call[d]
    BY <1>2 DEF AcquireEnqueue, TypeOK, Idle
  <2>4. \A j \in DOMAIN waiters' :
          \/ j \in DOMAIN waiters /\ waiters'[j] = waiters[j]
          \/ waiters'[j] = c
    BY <2>1, AddWaiter
  <2>5. SUFFICES ASSUME NEW x \in Arch, availablePool'[x] # <<>>
                 PROVE  LiveWaiters(x)' = {}
    BY DEF NoIdleWhileWaiting
  <2>6. x # a /\ LiveWaiters(x) = {}
    BY <2>1, <2>5 DEF NoIdleWhileWaiting
  <2>7. \A j \in DOMAIN waiters : ~Wants(waiters[j], x)
    BY <2>6 DEF LiveWaiters, ToSet
  <2>8. \A j \in DOMAIN waiters' : ~Wants(waiters[j], x)'
    BY <2>2, <2>3, <2>4, <2>6, <2>7 DEF Wants
  <2>9. QED
    BY <2>8 DEF LiveWaiters, ToSet, Wants
<1>3. ASSUME NEW c \in Client, SendSignal(c) \/ Expire(c) \/ DialOK(c)
      PROVE  NoIdleWhileWaiting'
  <2>1. /\ UNCHANGED <<waiters, availablePool>>
        /\ \A d \in Client : /\ call'[d].arch = call[d].arch
                             /\ call[d].expired => call'[d].expired
    <3>1. CASE SendSignal(c)
      BY <3>1 DEF SendSignal, TypeOK, Call
    <3>2. CASE Expire(c)
      <4>1. /\ UNCHANGED <<waiters, availablePool>>
            /\ call' = [call EXCEPT ![c].expired = TRUE]
            /\ call[c] \in Call
        BY <3>2 DEF Expire, TypeOK
      <4>2. /\ call'[c] = [call[c] EXCEPT !.expired = TRUE]
            /\ \A d \in Client \ {c} : call'[d] = call[d]
        BY <4>1 DEF TypeOK
      <4>3. call'[c].arch = call[c].arch /\ call'[c].expired = TRUE
        BY <4>1, <4>2 DEF Call
      <4>4. QED
        BY <4>1, <4>2, <4>3
    <3>3. CASE DialOK(c)
      BY <3>3 DEF DialOK, TypeOK, Call
    <3>4. QED
      BY <1>3, <3>1, <3>2, <3>3
  <2>2. QED
    BY <1>a, <2>1, IdleFrame
<1>4. ASSUME NEW c \in Client, Receive(c) PROVE NoIdleWhileWaiting'
  <2>1. \A i \in DOMAIN waiters : waiters[i] \in Client /\ waiters[i] # c
    BY <1>4, NotQueued DEF HomeInv, Receive
  <2>2. /\ \A d \in Client \ {c} : call'[d] = call[d]
        /\ UNCHANGED <<waiters, availablePool>>
    BY <1>4 DEF Receive, TypeOK
  <2>3. QED
    BY <2>1, <2>2, IdleFrame
<1>5. ASSUME NEW c \in Client, TimeOut(c) PROVE NoIdleWhileWaiting'
  <2>1. \A j \in DOMAIN waiters' : /\ waiters'[j] # c
                                   /\ \E m \in DOMAIN waiters :
                                        waiters'[j] = waiters[m]
    BY <1>5, DropTimedOut DEF TimeOut, HomeInv
  <2>2. /\ \A d \in Client \ {c} : call'[d] = call[d]
        /\ UNCHANGED availablePool
    BY <1>5 DEF TimeOut, TypeOK
  <2>3. QED
    BY <1>a, <2>1, <2>2, IdleFrame
<1>6. ASSUME NEW c \in Client, DialFail(c) \/ ReleaseBuilder(c)
      PROVE  NoIdleWhileWaiting'
  BY <1>6, ReleaseIdle DEF DialFail, ReleaseBuilder
<1>7. CASE TakeSignal \/ ScaleOnSignal \/ ScaleOnTick
  BY <1>7, <1>0 DEF TakeSignal, ScaleOnSignal, ScaleOnTick
<1>8. CASE cleanupOldBuilders
  BY <1>8, CleanupIdle
<1>9. ASSUME NEW b \in Builder,
             \/ GrowIdle(b) \/ CreateOK(b) \/ CreateFail(b) \/ EndProvision(b)
             \/ \E a \in Arch : StartProvision(a, b)
             \/ scheduleDestruction(b)
             \/ \E k \in Destroyer : DestroyReturns(k, b)
      PROVE  NoIdleWhileWaiting'
  BY <1>9, <1>0 DEF GrowIdle, CreateOK, CreateFail, EndProvision,
     StartProvision, scheduleDestruction, DestroyReturns
<1>10. ASSUME NEW b \in Builder, RegisterHandOff(b) PROVE NoIdleWhileWaiting'
  <2>1. HandToWaiter(b, call) /\ UNCHANGED availablePool
    BY <1>10 DEF RegisterHandOff
  <2>2. call \in [Client -> Call]
    BY DEF TypeOK
  <2>3. \A j \in DOMAIN waiters' : \E m \in DOMAIN waiters :
          waiters'[j] = waiters[m] /\ call'[waiters[m]] = call[waiters[m]]
    BY <2>1, <2>2, HandOffIdle
  <2>4. QED
    BY <2>1, <2>3, IdleFrame
<1>11. ASSUME NEW b \in Builder, RegisterPooled(b) PROVE NoIdleWhileWaiting'
  <2>1. \A x \in Arch : availablePool'[x] # <<>> =>
          availablePool[x] # <<>> \/ NoWaiterFor(x)
    BY <1>11 DEF RegisterPooled, TypeOK
  <2>2. UNCHANGED <<waiters, call>>
    BY <1>11 DEF RegisterPooled
  <2>3. QED
    BY <2>1, <2>2, IdleFrame
<1>12. CASE DestroyAll
  BY <1>12 DEF DestroyAll, NoIdleWhileWaiting
<1>13. CASE Exit \/ UNCHANGED vars
  BY <1>13, <1>0 DEF Exit, vars
<1>14. QED
  BY <1>1, <1>2, <1>3, <1>4, <1>5, <1>6, <1>7, <1>8, <1>9, <1>10, <1>11, <1>12,
     <1>13
     DEF Next, Caller, maintenanceWorker, provisionBackground, Destruction,
         Exited

\* A builder never sits in the pool while a live request for its arch is
\* queued, whatever the number of callers, VMs and archs.
THEOREM NoIdleBuilder == Spec => []NoIdleWhileWaiting
<1>1. Init => TypeOK /\ HomeInv
  BY HomeInit, PoolAssumption DEF Init, NewPool, TypeOK, Idle, Call, CallPC,
     BuilderRec, BuilderStatus, Time, VMState
<1>2. Init => NoIdleWhileWaiting
  BY DEF Init, NewPool, NoIdleWhileWaiting
<1>3. TypeOK /\ HomeInv /\ NoIdleWhileWaiting /\ [Next]_vars
        => (TypeOK /\ HomeInv /\ NoIdleWhileWaiting)'
  BY TypeStep, HomeStep, IdleStep
<1>4. QED
  BY <1>1, <1>2, <1>3, PTL DEF Spec

-----------------------------------------------------------------------------
(* What the steps move: who has which builder, and what is in a pool *)

SameHas == \A x \in Builder, d \in Client : Has(d, x)' <=> Has(d, x)

\* The records keep their architectures, and so do the requests of the
\* callers that still have one.
SameArch ==
  /\ \A x \in Builder : rec'[x].arch = rec[x].arch
  /\ \A d \in Client : call'[d] = Idle \/ call'[d].arch = call[d].arch

\* c no longer has anything; nobody else is concerned.
Leaves(c) ==
  \A x \in Builder, d \in Client : Has(d, x)' <=> Has(d, x) /\ d # c

\* d is the first of the queue that wants a builder of architecture a.
FirstFor(d, a) ==
  \E i \in DOMAIN waiters :
    waiters[i] = d /\ \A j \in 1..(i - 1) : ~Wants(waiters[j], a)

\* An acquire of a pooled builder takes it from its pool to the caller.
LEMMA AcquireMoves ==
  ASSUME TypeOK, HomeInv, NEW c \in Client, NEW a \in Arch, AcquirePooled(c, a)
  PROVE  \E b \in Builder :
           /\ b \in ToSet(availablePool[a]) /\ InPool(b)
           /\ \A x \in Builder : InPool(x)' <=> InPool(x) /\ x # b
           /\ \A y \in Arch : ToSet(availablePool'[y]) \subseteq ToSet(availablePool[y])
           /\ \A x \in Builder, d \in Client :
                Has(d, x)' <=> Has(d, x) \/ (d = c /\ x = b)
           /\ call'[c].held = b /\ call'[c].arch = a
           /\ \A d \in Client \ {c} : call'[d] = call[d]
           /\ \A x \in Builder : rec'[x].arch = rec[x].arch
           /\ \A x \in Builder \ {b} : rec'[x] = rec[x]
           /\ activeBuilders' = activeBuilders \union {b}
<1> DEFINE b == Head(availablePool[a])
<1>1. /\ b \in Builder /\ InPool(b)
      /\ \A x \in Builder : InPool(x)' <=> InPool(x) /\ x # b
  BY TakeOldestHomes DEF AcquirePooled, HomeInv, OneHome
<1>2. availablePool[a] \in Seq(Builder) /\ availablePool[a] # <<>>
  BY DEF AcquirePooled, TypeOK
<1>3. b \in ToSet(availablePool[a])
  <2>1. 1 \in DOMAIN availablePool[a] /\ b = availablePool[a][1]
    BY <1>2
  <2>2. QED
    BY <2>1 DEF ToSet
<1>4. \A y \in Arch : ToSet(availablePool'[y]) \subseteq ToSet(availablePool[y])
  <2>1. ToSet(Tail(availablePool[a])) \subseteq ToSet(availablePool[a])
    BY <1>2, ToSetTail
  <2>2. \A y \in Arch : availablePool'[y] =
          IF y = a THEN Tail(availablePool[a]) ELSE availablePool[y]
    BY DEF AcquirePooled, TakeOldest, TypeOK
  <2>3. QED
    BY <2>1, <2>2
<1> HIDE DEF b
<1>5. /\ call[c].pc = "idle"
      /\ call' = [call EXCEPT ![c] = [Idle EXCEPT !.pc = "dial", !.arch = a,
                                                  !.held = b]]
      /\ rec' = InUse(b) /\ activeBuilders' = activeBuilders \union {b}
  BY DEF AcquirePooled, b
<1>6. /\ call'[c].held = b /\ call'[c].arch = a /\ call'[c].resp = NoBuilder
      /\ \A d \in Client \ {c} : call'[d] = call[d]
  BY <1>5 DEF TypeOK, Idle
<1>7. call[c].resp = NoBuilder /\ call[c].held = NoBuilder
  BY <1>5 DEF HomeInv, CallsOK
<1>8. \A x \in Builder, d \in Client : Has(d, x)' <=> Has(d, x) \/ (d = c /\ x = b)
  BY <1>1, <1>6, <1>7, PoolAssumption DEF Has
<1>9. /\ \A x \in Builder : rec'[x].arch = rec[x].arch
      /\ \A x \in Builder \ {b} : rec'[x] = rec[x]
  BY <1>1, <1>5 DEF InUse, TypeOK, BuilderRec
<1>10. QED
  BY <1>1, <1>3, <1>4, <1>5, <1>6, <1>8, <1>9

\* A request that is queued, signalled, received or given up.
LEMMA CallerMoves ==
  ASSUME TypeOK, HomeInv, NEW c \in Client
  PROVE  /\ \A a \in Arch : AcquireEnqueue(c, a) =>
              SameHas /\ call'[c].arch = a /\ \A d \in Client \ {c} : call'[d] = call[d]
         /\ SendSignal(c) \/ Expire(c) \/ DialOK(c) =>
              SameHas /\ SameArch /\ \A d \in Client : call'[d].held = call[d].held
         /\ Receive(c) =>
              /\ SameHas /\ SameArch
              /\ call[c].resp \in Builder /\ call'[c].held = call[c].resp
              /\ \A d \in Client \ {c} : call'[d] = call[d]
              /\ \A x \in Builder \ {call[c].resp} : rec'[x] = rec[x]
              /\ activeBuilders' = activeBuilders \union {call[c].resp}
         /\ TimeOut(c) =>
              /\ Leaves(c) /\ SameArch
              /\ call'[c] = Idle /\ \A d \in Client \ {c} : call'[d] = call[d]
<1>1. ASSUME NEW a \in Arch, AcquireEnqueue(c, a)
      PROVE  SameHas /\ call'[c].arch = a /\ \A d \in Client \ {c} : call'[d] = call[d]
  <2>1. /\ call[c].resp = NoBuilder /\ call[c].held = NoBuilder
        /\ call'[c].resp = NoBuilder /\ call'[c].held = NoBuilder /\ call'[c].arch = a
        /\ \A d \in Client \ {c} : call'[d] = call[d]
    BY <1>1 DEF AcquireEnqueue, HomeInv, CallsOK, TypeOK, Idle
  <2>2. QED
    BY <2>1 DEF SameHas, Has
<1>2. ASSUME SendSignal(c) \/ Expire(c) \/ DialOK(c)
      PROVE  SameHas /\ SameArch /\ \A d \in Client : call'[d].held = call[d].held
  <2>1. \A d \in Client : /\ call'[d].resp = call[d].resp
                          /\ call'[d].held = call[d].held
                          /\ call'[d].arch = call[d].arch
    <3>1. CASE SendSignal(c)
      BY <3>1 DEF SendSignal, TypeOK, Call
    <3>2. CASE Expire(c)
      <4>1. /\ call'[c] = [call[c] EXCEPT !.expired = TRUE] /\ call[c] \in Call
            /\ \A d \in Client \ {c} : call'[d] = call[d]
        BY <3>2 DEF Expire, TypeOK
      <4>2. /\ call'[c].resp = call[c].resp /\ call'[c].held = call[c].held
            /\ call'[c].arch = call[c].arch
        BY <4>1 DEF Call
      <4>3. QED
        BY <4>1, <4>2
    <3>3. CASE DialOK(c)
      BY <3>3 DEF DialOK, TypeOK, Call
    <3>4. QED
      BY <1>2, <3>1, <3>2, <3>3
  <2>2. UNCHANGED rec
    BY <1>2 DEF SendSignal, Expire, DialOK, poolVars
  <2>3. QED
    BY <2>1, <2>2 DEF SameHas, SameArch, Has
<1>3. ASSUME Receive(c)
      PROVE  /\ SameHas /\ SameArch
             /\ call[c].resp \in Builder /\ call'[c].held = call[c].resp
             /\ \A d \in Client \ {c} : call'[d] = call[d]
             /\ \A x \in Builder \ {call[c].resp} : rec'[x] = rec[x]
             /\ activeBuilders' = activeBuilders \union {call[c].resp}
  <2> DEFINE b == call[c].resp
  <2>1. /\ b \in Builder /\ call[c].held = NoBuilder
        /\ call' = [call EXCEPT ![c] = [Idle EXCEPT !.pc = "dial",
                                          !.arch = call[c].arch, !.held = b]]
        /\ rec' = InUse(b) /\ activeBuilders' = activeBuilders \union {b}
    BY <1>3 DEF Receive, HomeInv, CallsOK, TypeOK, Call
  <2>2. /\ call'[c].held = b /\ call'[c].resp = NoBuilder
        /\ call'[c].arch = call[c].arch
        /\ \A d \in Client \ {c} : call'[d] = call[d]
    BY <2>1 DEF TypeOK, Idle
  <2>3. SameHas
    BY <2>1, <2>2, PoolAssumption DEF SameHas, Has
  <2> HIDE DEF b
  <2>4. /\ \A x \in Builder : rec'[x].arch = rec[x].arch
        /\ \A x \in Builder \ {b} : rec'[x] = rec[x]
    BY <2>1 DEF InUse, TypeOK, BuilderRec
  <2>5. SameArch
    BY <2>2, <2>4 DEF SameArch
  <2>6. QED
    BY <2>1, <2>2, <2>3, <2>4, <2>5 DEF b
<1>4. ASSUME TimeOut(c)
      PROVE  /\ Leaves(c) /\ SameArch
             /\ call'[c] = Idle /\ \A d \in Client \ {c} : call'[d] = call[d]
  <2>1. /\ call'[c] = Idle /\ \A d \in Client \ {c} : call'[d] = call[d]
        /\ UNCHANGED rec
    BY <1>4 DEF TimeOut, TypeOK
  <2>2. QED
    BY <2>1, PoolAssumption DEF Leaves, SameArch, Has, Idle
<1>5. QED
  BY <1>1, <1>2, <1>3, <1>4

\* A handoff of b, which nobody has once the step's other effect on the
\* callers is done, gives it to one caller that waits for its architecture.
LEMMA HandOffMoves ==
  ASSUME TypeOK, HomeInv, NEW b \in Builder, NEW calls \in [Client -> Call],
         \A i \in DOMAIN waiters : calls[waiters[i]] = call[waiters[i]],
         HandToWaiter(b, calls)
  PROVE  \E d \in Client :
           /\ calls[d] = call[d]
           /\ call[d].arch = rec[b].arch /\ call[d].pc \in {"signal", "select"}
           /\ call[d].resp = NoBuilder /\ call[d].held = NoBuilder
           /\ call'[d].arch = call[d].arch /\ call'[d].held = NoBuilder
           /\ call'[d].resp = b /\ call'[d].pc = call[d].pc
           /\ call'[d] # Idle
           /\ \A e \in Client \ {d} : call'[e] = calls[e]
           /\ FirstFor(d, rec[b].arch)
<1>1. PICK i \in DOMAIN waiters :
        /\ IsFirstWaiter(i, rec[b].arch)
        /\ call' = [calls EXCEPT ![waiters[i]].resp = b]
  BY DEF HandToWaiter
<1> DEFINE d == waiters[i]
<1>2. /\ d \in Client /\ calls[d] = call[d]
      /\ call[d].pc \in {"signal", "select"} /\ call[d].resp = NoBuilder
  BY DEF TypeOK, HomeInv, WaitersOK
<1>3. call[d].arch = rec[b].arch
      /\ \A j \in 1..(i - 1) : ~Wants(waiters[j], rec[b].arch)
  BY <1>1 DEF IsFirstWaiter, Wants
<1>4. call[d].held = NoBuilder
  BY <1>2 DEF HomeInv, CallsOK
<1> HIDE DEF d
<1>5. call'[d] = [calls[d] EXCEPT !.resp = b]
      /\ \A e \in Client \ {d} : call'[e] = calls[e]
  BY <1>1, <1>2 DEF d
<1>6. call[d] \in Call
  BY <1>2 DEF TypeOK
<1>7. /\ call'[d].arch = call[d].arch /\ call'[d].held = NoBuilder
      /\ call'[d].resp = b /\ call'[d].pc = call[d].pc
  BY <1>2, <1>4, <1>5, <1>6 DEF Call
<1>8. call'[d] # Idle
  BY <1>2, <1>7 DEF Idle
<1>9. QED
  BY <1>2, <1>3, <1>4, <1>5, <1>7, <1>8 DEF d, FirstFor

\* A builder that enters a pool is in that pool and in no other.
LEMMA PoolMoves ==
  ASSUME TypeOK, NEW a \in Arch, NEW b \in Builder,
         availablePool' = [availablePool EXCEPT ![a] = Append(@, b)]
  PROVE  /\ \A x \in Builder : InPool(x)' <=> InPool(x) \/ x = b
         /\ \A y \in Arch : ToSet(availablePool'[y]) =
              ToSet(availablePool[y]) \union (IF y = a THEN {b} ELSE {})
<1>1. availablePool[a] \in Seq(Builder)
  BY DEF TypeOK
<1>2. ToSet(Append(availablePool[a], b)) = ToSet(availablePool[a]) \union {b}
  BY <1>1, ToSetAppend
<1>3. \A y \in Arch : availablePool'[y] =
        IF y = a THEN Append(availablePool[a], b) ELSE availablePool[y]
  BY DEF TypeOK
<1>4. \A y \in Arch : ToSet(availablePool'[y]) =
        ToSet(availablePool[y]) \union (IF y = a THEN {b} ELSE {})
  BY <1>2, <1>3
<1>5. QED
  BY <1>4 DEF InPool

\* The idle cleanup takes the stale builders out of the pools, and only them.
LEMMA CleanupMoves ==
  ASSUME TypeOK, cleanupOldBuilders
  PROVE  /\ SameHas /\ SameArch
         /\ \E old \in SUBSET Builder :
              /\ old = {x \in Builder : InPool(x) /\ IsStale(x)}
              /\ \A x \in Builder : InPool(x)' <=> InPool(x) /\ x \notin old
              /\ \A y \in Arch :
                   ToSet(availablePool'[y]) \subseteq ToSet(availablePool[y])
              /\ builders' = builders \ old
              /\ destroyGo' = destroyGo \union ({"idle"} \X old)
              /\ \A x \in Builder : IsStale(x)' <=> IsStale(x)
<1> DEFINE old == UNION {Stale(a) : a \in Arch}
<1>1. /\ availablePool' = [a \in Arch |-> Without(availablePool[a], old)]
      /\ builders' = builders \ old
      /\ rec' = [b \in Builder |->
           IF b \in old THEN [rec[b] EXCEPT !.status = "Destroying"] ELSE rec[b]]
      /\ destroyGo' = destroyGo \union ({"idle"} \X old)
      /\ UNCHANGED call
  BY DEF cleanupOldBuilders
<1>2. \A a \in Arch : availablePool[a] \in Seq(Builder)
                      /\ ToSet(availablePool[a]) \subseteq Builder
  BY DEF TypeOK, ToSet
<1>3. old = {x \in Builder : InPool(x) /\ IsStale(x)}
  BY <1>2 DEF Stale, InPool
<1> HIDE DEF old
<1>4. \A a \in Arch : ToSet(availablePool'[a]) = ToSet(availablePool[a]) \ old
  BY <1>1, <1>2, ToSetWithout
<1>5. \A x \in Builder : InPool(x)' <=> InPool(x) /\ x \notin old
  BY <1>4 DEF InPool
<1>6. \A x \in Builder : rec'[x].arch = rec[x].arch
                         /\ rec'[x].lastUsed = rec[x].lastUsed
  BY <1>1 DEF TypeOK, BuilderRec
<1>7. SameHas /\ SameArch /\ \A x \in Builder : IsStale(x)' <=> IsStale(x)
  BY <1>1, <1>6 DEF SameHas, SameArch, Has, IsStale
<1>8. QED
  BY <1>1, <1>3, <1>4, <1>5, <1>7

\* c is rid of its builder b, which was tracked as active.
Gone(c, b) ==
  /\ b \in activeBuilders /\ activeBuilders' = activeBuilders \ {b}
  /\ call'[c] = Idle
  /\ \A x \in Builder \ {b} : rec'[x] = rec[x]
  /\ rec'[b].arch = rec[b].arch /\ rec'[b].lastUsed = "recent"

\* The builder of c goes to d.
PassedOn(c, b, d) ==
  /\ d # c /\ FirstFor(d, rec[b].arch)
  /\ call[d].arch = rec[b].arch /\ call[d].pc \in {"signal", "select"}
  /\ call[d].resp = NoBuilder /\ call[d].held = NoBuilder
  /\ call'[d].arch = call[d].arch /\ call'[d].held = NoBuilder
  /\ call'[d].resp = b /\ call'[d].pc = call[d].pc
  /\ \A e \in Client \ {c, d} : call'[e] = call[e]
  /\ \A x \in Builder, e \in Client :
       Has(e, x)' <=> (Has(e, x) /\ e # c) \/ (e = d /\ x = b)

\* What releaseBuilder does with the builder, in the order of its branches.
LEMMA ReleaseMoves ==
  ASSUME TypeOK, HomeInv, NEW c \in Client, call[c].pc \in {"dial", "build"},
         releaseBuilder(c)
  PROVE  \E b \in Builder :
    /\ call[c].held = b /\ Has(c, b) /\ ~InPool(b) /\ call[c].resp = NoBuilder
    /\ SameArch
    /\ \/ /\ b \notin activeBuilders /\ Leaves(c) /\ call'[c] = Idle
          /\ \A e \in Client \ {c} : call'[e] = call[e]
          /\ UNCHANGED <<availablePool, activeBuilders, rec, sleeping>>
       \/ /\ Gone(c, b) /\ \E d \in Client : PassedOn(c, b, d)
          /\ UNCHANGED <<availablePool, sleeping>>
       \/ /\ Gone(c, b) /\ Leaves(c)
          /\ \A e \in Client \ {c} : call'[e] = call[e]
          /\ availablePool' = [availablePool EXCEPT ![rec[b].arch] = Append(@, b)]
          /\ NoWaiterFor(rec[b].arch) /\ KeepForReuse(rec[b].arch)
          /\ UNCHANGED sleeping
       \/ /\ Gone(c, b) /\ Leaves(c)
          /\ \A e \in Client \ {c} : call'[e] = call[e]
          /\ sleeping' = sleeping \union {b} /\ rec'[b].status = "Destroying"
          /\ UNCHANGED availablePool
<1> DEFINE b    == call[c].held
           a    == rec[b].arch
           done == [call EXCEPT ![c] = Idle]
<1>1. b \in Builder /\ Has(c, b) /\ call[c].resp = NoBuilder
  BY DEF HomeInv, CallsOK, Has
<1>2. ~InPool(b)
  BY <1>1 DEF HomeInv, OneHome
<1>3. /\ done \in [Client -> Call] /\ done[c] = Idle
      /\ \A d \in Client \ {c} : done[d] = call[d]
  BY DEF TypeOK, Idle, Call, CallPC
<1>4. \A i \in DOMAIN waiters : waiters[i] \in Client /\ waiters[i] # c
  BY NotQueued DEF HomeInv
<1>5. \A i \in DOMAIN waiters : done[waiters[i]] = call[waiters[i]]
  BY <1>3, <1>4
<1>6. ASSUME NEW st, rec' = ReleasedRec(b, st)
      PROVE  /\ \A x \in Builder \ {b} : rec'[x] = rec[x]
             /\ rec'[b].arch = rec[b].arch /\ rec'[b].lastUsed = "recent"
             /\ rec'[b].status = st
  BY <1>1, <1>6 DEF ReleasedRec, TypeOK, BuilderRec
<1>7. ASSUME call' = done PROVE Leaves(c)
  BY <1>3, <1>7, PoolAssumption DEF Leaves, Has, Idle
<1> HIDE DEF b, a, done
<1>8. CASE /\ b \notin activeBuilders /\ call' = done
           /\ UNCHANGED <<availablePool, activeBuilders, waiters, rec, sleeping>>
  <2>1. SameArch
    BY <1>3, <1>8 DEF SameArch
  <2>2. QED
    BY <1>1, <1>2, <1>3, <1>7, <1>8, <2>1 DEF b
<1>9. CASE /\ b \in activeBuilders /\ activeBuilders' = activeBuilders \ {b}
           /\ HandToWaiter(b, done) /\ rec' = ReleasedRec(b, rec[b].status)
           /\ UNCHANGED <<availablePool, sleeping>>
  <2>1. PICK d \in Client :
           /\ done[d] = call[d]
           /\ call[d].arch = rec[b].arch /\ call[d].pc \in {"signal", "select"}
           /\ call[d].resp = NoBuilder /\ call[d].held = NoBuilder
           /\ call'[d].arch = call[d].arch /\ call'[d].held = NoBuilder
           /\ call'[d].resp = b /\ call'[d].pc = call[d].pc
           /\ call'[d] # Idle /\ FirstFor(d, rec[b].arch)
           /\ \A e \in Client \ {d} : call'[e] = done[e]
    BY <1>1, <1>3, <1>5, <1>9, HandOffMoves
  <2>2. d # c
    BY <1>1, <1>3, <2>1
  <2>3. call'[c] = Idle /\ \A e \in Client \ {c, d} : call'[e] = call[e]
    BY <1>3, <2>1, <2>2
  <2>4. \A x \in Builder, e \in Client :
          Has(e, x)' <=> (Has(e, x) /\ e # c) \/ (e = d /\ x = b)
    BY <1>1, <2>1, <2>2, <2>3, PoolAssumption DEF Has, Idle
  <2>5. PassedOn(c, b, d)
    BY <2>1, <2>2, <2>3, <2>4 DEF PassedOn
  <2>6. Gone(c, b)
    BY <1>6, <1>9, <2>3 DEF Gone
  <2>7. SameArch
    BY <2>1, <2>3, <2>6 DEF SameArch, Gone
  <2>8. QED
    BY <1>1, <1>2, <1>9, <2>5, <2>6, <2>7 DEF b
<1>10. CASE /\ b \in activeBuilders /\ activeBuilders' = activeBuilders \ {b}
            /\ call' = done /\ \E st : rec' = ReleasedRec(b, st)
            /\ \/ /\ availablePool' = [availablePool EXCEPT ![a] = Append(@, b)]
                  /\ NoWaiterFor(a) /\ KeepForReuse(a) /\ UNCHANGED sleeping
               \/ /\ sleeping' = sleeping \union {b} /\ UNCHANGED availablePool
                  /\ rec' = ReleasedRec(b, "Destroying")
  <2>1. Gone(c, b)
    BY <1>3, <1>6, <1>10 DEF Gone
  <2>2. SameArch
    BY <1>3, <1>10, <2>1 DEF SameArch, Gone
  <2>3. QED
    BY <1>1, <1>2, <1>3, <1>6, <1>7, <1>10, <2>1, <2>2 DEF a, b
<1>11. QED
  BY <1>8, <1>9, <1>10 DEF releaseBuilder, a, b, done

\* A new builder goes to a waiter or to the pool of its architecture.
LEMMA RegisterMoves ==
  ASSUME TypeOK, HomeInv, NEW b \in Builder
  PROVE  /\ RegisterHandOff(b) =>
              /\ SameArch
              /\ \E d \in Client :
                   /\ call[d].arch = rec[b].arch /\ call[d].pc \in {"signal", "select"}
                   /\ call[d].resp = NoBuilder /\ call[d].held = NoBuilder
                   /\ call'[d].arch = call[d].arch /\ call'[d].held = NoBuilder
                   /\ call'[d].resp = b /\ call'[d].pc = call[d].pc
                   /\ FirstFor(d, rec[b].arch)
                   /\ \A e \in Client \ {d} : call'[e] = call[e]
                   /\ \A x \in Builder, e \in Client :
                        Has(e, x)' <=> Has(e, x) \/ (e = d /\ x = b)
         /\ RegisterPooled(b) => SameHas /\ SameArch
         /\ RegisterHandOff(b) \/ RegisterPooled(b) =>
              \A x \in Builder : rec'[x].lastUsed = rec[x].lastUsed
<1>1. ASSUME RegisterHandOff(b) \/ RegisterPooled(b)
      PROVE  \A x \in Builder : /\ rec'[x].arch = rec[x].arch
                                /\ rec'[x].lastUsed = rec[x].lastUsed
  <2>1. PICK st : rec' = [rec EXCEPT ![b].status = st]
    BY <1>1 DEF RegisterHandOff, RegisterPooled
  <2>2. QED
    BY <2>1 DEF TypeOK, BuilderRec
<1>2. ASSUME RegisterPooled(b) PROVE SameHas /\ SameArch
  BY <1>1, <1>2 DEF RegisterPooled, SameHas, SameArch, Has
<1>3. ASSUME RegisterHandOff(b)
      PROVE  /\ SameArch
             /\ \E d \in Client :
                  /\ call[d].arch = rec[b].arch /\ call[d].pc \in {"signal", "select"}
                  /\ call[d].resp = NoBuilder /\ call[d].held = NoBuilder
                  /\ call'[d].arch = call[d].arch /\ call'[d].held = NoBuilder
                  /\ call'[d].resp = b /\ call'[d].pc = call[d].pc
                  /\ FirstFor(d, rec[b].arch)
                  /\ \A e \in Client \ {d} : call'[e] = call[e]
                  /\ \A x \in Builder, e \in Client :
                       Has(e, x)' <=> Has(e, x) \/ (e = d /\ x = b)
  <2>1. HandToWaiter(b, call) /\ call \in [Client -> Call]
    BY <1>3 DEF RegisterHandOff, TypeOK
  <2>2. PICK d \in Client :
           /\ call[d].arch = rec[b].arch /\ call[d].pc \in {"signal", "select"}
           /\ call[d].resp = NoBuilder /\ call[d].held = NoBuilder
           /\ call'[d].arch = call[d].arch /\ call'[d].held = NoBuilder
           /\ call'[d].resp = b /\ call'[d].pc = call[d].pc
           /\ FirstFor(d, rec[b].arch)
           /\ \A e \in Client \ {d} : call'[e] = call[e]
    BY <2>1, HandOffMoves
  <2>3. \A x \in Builder, e \in Client : Has(e, x)' <=> Has(e, x) \/ (e = d /\ x = b)
    BY <2>2, PoolAssumption DEF Has
  <2>4. SameArch
    BY <1>1, <1>3, <2>2 DEF SameArch
  <2>5. QED
    BY <2>2, <2>3, <2>4
<1>4. QED
  BY <1>1, <1>2, <1>3

-----------------------------------------------------------------------------
(* Architectures *)

\* A builder that somebody has, or that is in a pool, is of the architecture
\* that was asked for or that the pool is for.
ArchInv ==
  /\ \A b \in Builder : prov[b] # "none" => rec[b].arch \in Arch
  /\ \A c \in Client : call[c] # Idle => call[c].arch \in Arch
  /\ \A c \in Client, b \in Builder : Has(c, b) => rec[b].arch = call[c].arch
  /\ \A a \in Arch : \A b \in ToSet(availablePool[a]) : rec[b].arch = a

\* Who has a builder is not idle.
LEMMA HasArch ==
  ASSUME HomeInv, ArchInv, NEW c \in Client, NEW b \in Builder, Has(c, b)
  PROVE  rec[b].arch \in Arch /\ rec[b].arch = call[c].arch
<1>1. call[c] # Idle
  BY PoolAssumption DEF Has, Idle
<1>2. QED
  BY <1>1 DEF ArchInv

\* The steps that move no builder and touch no architecture.
LEMMA ArchFrame ==
  ASSUME ArchInv, SameArch,
         \A b \in Builder : prov'[b] # "none" => prov[b] # "none",
         \A c \in Client : call'[c] # Idle => call[c] # Idle,
         \A c \in Client, b \in Builder : Has(c, b)' => Has(c, b),
         \A a \in Arch : ToSet(availablePool'[a]) \subseteq ToSet(availablePool[a]),
         \A a \in Arch : ToSet(availablePool[a]) \subseteq Builder
  PROVE  ArchInv'
<1>1. \A b \in Builder : prov'[b] # "none" => rec'[b].arch \in Arch
  BY DEF ArchInv, SameArch
<1>2. \A c \in Client : call'[c] # Idle => call'[c].arch \in Arch
  BY DEF ArchInv, SameArch
<1>3. ASSUME NEW c \in Client, NEW b \in Builder, Has(c, b)'
      PROVE  rec'[b].arch = call'[c].arch
  <2>1. call'[c] # Idle
    BY <1>3, PoolAssumption DEF Has, Idle
  <2>2. QED
    BY <1>3, <2>1 DEF ArchInv, SameArch
<1>4. \A a \in Arch : \A b \in ToSet(availablePool'[a]) : rec'[b].arch = a
  BY DEF ArchInv, SameArch
<1>5. QED
  BY <1>1, <1>2, <1>3, <1>4 DEF ArchInv, Has

\* Every step keeps the architectures right.
LEMMA ArchStep == TypeOK /\ HomeInv /\ ArchInv /\ [Next]_vars => ArchInv'
<1> SUFFICES ASSUME TypeOK, HomeInv, ArchInv, [Next]_vars PROVE ArchInv'
  OBVIOUS
<1> USE DEF poolVars, goVars
<1>0. \A a \in Arch : ToSet(availablePool[a]) \subseteq Builder
  BY DEF TypeOK, ToSet
<1>1. ASSUME NEW c \in Client, NEW a \in Arch, AcquirePooled(c, a) PROVE ArchInv'
  <2>1. PICK b \in Builder :
          /\ b \in ToSet(availablePool[a])
          /\ \A y \in Arch : ToSet(availablePool'[y]) \subseteq ToSet(availablePool[y])
          /\ \A x \in Builder, d \in Client :
               Has(d, x)' <=> Has(d, x) \/ (d = c /\ x = b)
          /\ call'[c].arch = a
          /\ \A d \in Client \ {c} : call'[d] = call[d]
          /\ \A x \in Builder : rec'[x].arch = rec[x].arch
    BY <1>1, AcquireMoves
  <2>2. /\ UNCHANGED prov /\ call[c].pc = "idle"
        /\ call[c].resp = NoBuilder /\ call[c].held = NoBuilder
    BY <1>1 DEF AcquirePooled, HomeInv, CallsOK
  <2>3. \A x \in Builder : ~Has(c, x)
    BY <2>2, PoolAssumption DEF Has
  <2>4. ASSUME NEW d \in Client, NEW x \in Builder, Has(d, x)'
        PROVE  rec'[x].arch = call'[d].arch
    BY <2>1, <2>3, <2>4 DEF ArchInv
  <2>5. \A y \in Arch : \A x \in ToSet(availablePool'[y]) : rec'[x].arch = y
    BY <1>0, <2>1 DEF ArchInv
  <2>6. \A d \in Client : call'[d] # Idle => call'[d].arch \in Arch
    BY <2>1 DEF ArchInv
  <2>7. QED
    BY <2>1, <2>2, <2>4, <2>5, <2>6 DEF ArchInv, Has
<1>2. ASSUME NEW c \in Client, NEW a \in Arch, AcquireEnqueue(c, a) PROVE ArchInv'
  <2>1. SameHas /\ call'[c].arch = a /\ \A d \in Client \ {c} : call'[d] = call[d]
    BY <1>2, CallerMoves
  <2>2. /\ UNCHANGED <<prov, rec, availablePool>>
        /\ call[c].resp = NoBuilder /\ call[c].held = NoBuilder
    BY <1>2 DEF AcquireEnqueue, HomeInv, CallsOK
  <2>3. \A x \in Builder : ~Has(c, x)
    BY <2>2, PoolAssumption DEF Has
  <2>4. ASSUME NEW d \in Client, NEW x \in Builder, Has(d, x)'
        PROVE  rec'[x].arch = call'[d].arch
    BY <2>1, <2>2, <2>3, <2>4 DEF ArchInv, SameHas
  <2>5. QED
    BY <2>1, <2>2, <2>4 DEF ArchInv, Has
<1>3. ASSUME NEW c \in Client, SendSignal(c) \/ Expire(c) \/ DialOK(c)
      PROVE  ArchInv'
  <2>1. SameHas /\ SameArch
    BY <1>3, CallerMoves
  <2>2. UNCHANGED <<prov, availablePool>>
    BY <1>3 DEF SendSignal, Expire, DialOK
  <2>3. call[c].pc # "idle" /\ \A d \in Client \ {c} : call'[d] = call[d]
    BY <1>3 DEF SendSignal, Expire, DialOK, TypeOK
  <2>4. \A d \in Client : call'[d] # Idle => call[d] # Idle
    BY <2>3 DEF Idle
  <2>5. QED
    BY <1>0, <2>1, <2>2, <2>4, ArchFrame DEF SameHas
<1>4. ASSUME NEW c \in Client, Receive(c) PROVE ArchInv'
  <2>1. SameHas /\ SameArch /\ \A d \in Client \ {c} : call'[d] = call[d]
    BY <1>4, CallerMoves
  <2>2. UNCHANGED <<prov, availablePool>> /\ call[c].pc # "idle"
    BY <1>4 DEF Receive
  <2>3. \A d \in Client : call'[d] # Idle => call[d] # Idle
    BY <2>1, <2>2 DEF Idle
  <2>4. QED
    BY <1>0, <2>1, <2>2, <2>3, ArchFrame DEF SameHas
<1>5. ASSUME NEW c \in Client, TimeOut(c) PROVE ArchInv'
  <2>1. /\ Leaves(c) /\ SameArch
        /\ call'[c] = Idle /\ \A d \in Client \ {c} : call'[d] = call[d]
    BY <1>5, CallerMoves
  <2>2. UNCHANGED <<prov, availablePool>>
    BY <1>5 DEF TimeOut
  <2>3. QED
    BY <1>0, <2>1, <2>2, ArchFrame DEF Leaves
<1>6. ASSUME NEW c \in Client, call[c].pc \in {"dial", "build"}, releaseBuilder(c),
             UNCHANGED prov
      PROVE  ArchInv'
  <2>1. PICK b \in Builder :
    /\ Has(c, b) /\ SameArch
    /\ \/ /\ Leaves(c) /\ call'[c] = Idle
          /\ \A e \in Client \ {c} : call'[e] = call[e]
          /\ UNCHANGED availablePool
       \/ /\ call'[c] = Idle /\ \E d \in Client : PassedOn(c, b, d)
          /\ UNCHANGED availablePool
       \/ /\ Leaves(c) /\ call'[c] = Idle
          /\ \A e \in Client \ {c} : call'[e] = call[e]
          /\ availablePool' = [availablePool EXCEPT ![rec[b].arch] = Append(@, b)]
    BY <1>6, ReleaseMoves DEF Gone
  <2>2. CASE /\ Leaves(c) /\ call'[c] = Idle
             /\ \A e \in Client \ {c} : call'[e] = call[e]
             /\ UNCHANGED availablePool
    BY <1>0, <1>6, <2>1, <2>2, ArchFrame DEF Leaves
  <2>3. CASE /\ call'[c] = Idle /\ \E d \in Client : PassedOn(c, b, d)
             /\ UNCHANGED availablePool
    <3>1. PICK d \in Client : PassedOn(c, b, d)
      BY <2>3
    <3>2. call[d] # Idle
      BY <3>1 DEF PassedOn, Idle
    <3>3. \A e \in Client : call'[e] # Idle => call'[e].arch \in Arch
      BY <2>3, <3>1, <3>2 DEF PassedOn, ArchInv
    <3>4. ASSUME NEW e \in Client, NEW x \in Builder, Has(e, x)'
          PROVE  rec'[x].arch = call'[e].arch
      <4>1. CASE e = d /\ x = b
        BY <2>1, <3>1, <4>1 DEF PassedOn, SameArch
      <4>2. CASE Has(e, x) /\ e # c
        BY <2>1, <3>1, <4>2 DEF PassedOn, SameArch, ArchInv
      <4>3. QED
        BY <3>1, <3>4, <4>1, <4>2 DEF PassedOn
    <3>5. QED
      BY <1>0, <1>6, <2>1, <2>3, <3>3, <3>4 DEF ArchInv, SameArch, Has
  <2>4. CASE /\ Leaves(c) /\ call'[c] = Idle
             /\ \A e \in Client \ {c} : call'[e] = call[e]
             /\ availablePool' = [availablePool EXCEPT ![rec[b].arch] = Append(@, b)]
    <3>1. rec[b].arch \in Arch
      BY <2>1, HasArch
    <3>2. \A y \in Arch : ToSet(availablePool'[y]) =
            ToSet(availablePool[y]) \union (IF y = rec[b].arch THEN {b} ELSE {})
      BY <2>4, <3>1, PoolMoves
    <3>3. \A y \in Arch : \A x \in ToSet(availablePool'[y]) : rec'[x].arch = y
      BY <1>0, <2>1, <3>2 DEF SameArch, ArchInv
    <3>4. \A e \in Client : call'[e] # Idle => call'[e].arch \in Arch
      BY <2>4 DEF ArchInv
    <3>5. ASSUME NEW e \in Client, NEW x \in Builder, Has(e, x)'
          PROVE  rec'[x].arch = call'[e].arch
      BY <2>1, <2>4, <3>5 DEF Leaves, SameArch, ArchInv
    <3>6. QED
      BY <1>6, <2>1, <3>3, <3>4, <3>5 DEF ArchInv, SameArch, Has
  <2>5. QED
    BY <2>1, <2>2, <2>3, <2>4
<1>7. CASE TakeSignal \/ ScaleOnSignal \/ ScaleOnTick \/ Exit \/ UNCHANGED vars
  BY <1>0, <1>7, ArchFrame DEF TakeSignal, ScaleOnSignal, ScaleOnTick, Exit, vars,
     SameArch, Has
<1>8. CASE cleanupOldBuilders
  <2>1. UNCHANGED <<prov, call>>
    BY <1>8 DEF cleanupOldBuilders
  <2>2. QED
    BY <1>0, <1>8, <2>1, CleanupMoves, ArchFrame DEF SameHas
<1>9. ASSUME NEW b \in Builder, GrowIdle(b) PROVE ArchInv'
  <2>1. \A x \in Builder : rec'[x].arch = rec[x].arch
    BY <1>9 DEF GrowIdle, TypeOK, BuilderRec
  <2>2. QED
    BY <1>0, <1>9, <2>1, ArchFrame DEF GrowIdle, SameArch, Has
<1>10. ASSUME NEW a \in Arch, NEW b \in Builder, StartProvision(a, b) PROVE ArchInv'
  <2>1. /\ Unused(b) /\ UNCHANGED <<call, availablePool>>
        /\ rec'[b].arch = a /\ \A x \in Builder \ {b} : rec'[x] = rec[x]
        /\ \A x \in Builder \ {b} : prov'[x] = prov[x]
    BY <1>10 DEF StartProvision, TypeOK
  <2>2. (\A c \in Client : ~Has(c, b)) /\ \A y \in Arch : b \notin ToSet(availablePool[y])
    BY <2>1 DEF Unused, Has
  <2>3. QED
    BY <1>0, <2>1, <2>2 DEF ArchInv, Has
<1>11. ASSUME NEW b \in Builder, CreateOK(b) \/ CreateFail(b) \/ EndProvision(b)
       PROVE  ArchInv'
  <2>1. /\ UNCHANGED <<call, rec, availablePool>>
        /\ prov[b] # "none" /\ \A x \in Builder \ {b} : prov'[x] = prov[x]
    BY <1>11 DEF CreateOK, CreateFail, EndProvision, TypeOK
  <2>2. QED
    BY <2>1 DEF ArchInv, Has
<1>12. ASSUME NEW b \in Builder, RegisterHandOff(b) PROVE ArchInv'
  <2>1. SameArch
    BY <1>12, RegisterMoves
  <2>2. PICK d \in Client :
          /\ call[d].arch = rec[b].arch /\ call[d].pc \in {"signal", "select"}
          /\ call'[d].arch = call[d].arch
          /\ \A e \in Client \ {d} : call'[e] = call[e]
          /\ \A x \in Builder, e \in Client :
               Has(e, x)' <=> Has(e, x) \/ (e = d /\ x = b)
    BY <1>12, RegisterMoves
  <2>3. /\ UNCHANGED availablePool /\ prov[b] # "none"
        /\ \A x \in Builder \ {b} : prov'[x] = prov[x]
    BY <1>12 DEF RegisterHandOff, TypeOK
  <2>4. call[d] # Idle
    BY <2>2 DEF Idle
  <2>5. \A e \in Client : call'[e] # Idle => call'[e].arch \in Arch
    BY <2>2, <2>4 DEF ArchInv
  <2>6. ASSUME NEW e \in Client, NEW x \in Builder, Has(e, x)'
        PROVE  rec'[x].arch = call'[e].arch
    <3>1. CASE e = d /\ x = b
      BY <2>1, <2>2, <3>1 DEF SameArch
    <3>2. CASE Has(e, x)
      BY <2>1, <2>2, <3>2 DEF SameArch, ArchInv
    <3>3. QED
      BY <2>2, <2>6, <3>1, <3>2
  <2>7. QED
    BY <1>0, <2>1, <2>3, <2>5, <2>6 DEF ArchInv, SameArch, Has
<1>13. ASSUME NEW b \in Builder, RegisterPooled(b) PROVE ArchInv'
  <2>1. SameHas /\ SameArch
    BY <1>13, RegisterMoves
  <2>2. /\ prov[b] # "none" /\ UNCHANGED call
        /\ \A x \in Builder \ {b} : prov'[x] = prov[x]
        /\ availablePool' = [availablePool EXCEPT ![rec[b].arch] = Append(@, b)]
    BY <1>13 DEF RegisterPooled, TypeOK
  <2>3. rec[b].arch \in Arch
    BY <2>2 DEF ArchInv
  <2>4. \A y \in Arch : ToSet(availablePool'[y]) =
          ToSet(availablePool[y]) \union (IF y = rec[b].arch THEN {b} ELSE {})
    BY <2>2, <2>3, PoolMoves
  <2>5. \A y \in Arch : \A x \in ToSet(availablePool'[y]) : rec'[x].arch = y
    BY <1>0, <2>1, <2>4 DEF SameArch, ArchInv
  <2>6. QED
    BY <2>1, <2>2, <2>5 DEF SameArch, ArchInv, Has
<1>14. ASSUME NEW b \in Builder,
              scheduleDestruction(b) \/ \E k \in Destroyer : DestroyReturns(k, b)
       PROVE  ArchInv'
  BY <1>14 DEF scheduleDestruction, DestroyReturns, ArchInv, Has
<1>15. CASE DestroyAll
  <2>1. \A a \in Arch : ToSet(availablePool'[a]) = {}
    BY <1>15 DEF DestroyAll, ToSet
  <2>2. QED
    BY <1>15, <2>1 DEF DestroyAll, ArchInv, Has
<1>16. QED
  BY <1>1, <1>2, <1>3, <1>4, <1>5, <1>6, <1>7, <1>8, <1>9, <1>10, <1>11, <1>12,
     <1>13, <1>14, <1>15
     DEF Next, Caller, maintenanceWorker, provisionBackground, Destruction,
         Exited, DialFail, ReleaseBuilder

-----------------------------------------------------------------------------
(* VMs and their destruction *)

\* A VM whose Create has returned runs until it is registered.
CreatedUp == \A b \in Builder : prov[b] = "created" => vm[b] = "up"

VMInv == DestroyInv /\ CreatedUp

\* A builder in a home is tracked while the pool serves, and is not about to
\* be destroyed.
Homed(x) == (mode = "serving" => x \in builders) /\ x \notin sleeping

\* The two invariants about homes, read as one.
LEMMA HomesTracked ==
  ASSUME VMInv
  PROVE  /\ \A x \in Builder : InPool(x) => Homed(x)
         /\ \A x \in Builder, d \in Client : Has(d, x) => Homed(x)
  BY DEF VMInv, DestroyInv, ServingTracked, SleepingHomeless, Homed

\* For a step that neither tracks nor destroys a VM it is enough to look at
\* the homes of the builders.
LEMMA VMFrame ==
  ASSUME TypeOK, VMInv, UNCHANGED <<builders, destroyGo, vm, mode, prov>>,
         sleeping' \subseteq Builder,
         \A x \in Builder : InPool(x)' => Homed(x)',
         \A x \in Builder, d \in Client : Has(d, x)' => Homed(x)',
         \A x \in Builder : InPool(x)' /\ IsStale(x)' => InPool(x) /\ IsStale(x),
         mode = "serving" => \A x \in Builder, d \in Client :
                               call'[d].held = x => x \in activeBuilders'
  PROVE  VMInv'
<1>1. TrackedUp' /\ DestroyOnce' /\ CreatedUp'
  BY DEF VMInv, DestroyInv, TrackedUp, DestroyOnce, BeingDestroyed, CreatedUp
<1>2. SleepingHomeless'
  BY DEF SleepingHomeless, Homed
<1>3. StaleTracked'
  BY DEF VMInv, DestroyInv, StaleTracked
<1>4. ServingTracked'
  BY DEF ServingTracked, Homed
<1>5. QED
  BY <1>1, <1>2, <1>3, <1>4 DEF VMInv, DestroyInv

\* The pooled builder that an acquire takes was tracked.
LEMMA AcquireVM ==
  ASSUME TypeOK, HomeInv, VMInv, NEW c \in Client, NEW a \in Arch, AcquirePooled(c, a)
  PROVE  VMInv'
<1>1. PICK b \in Builder :
        /\ InPool(b)
        /\ \A x \in Builder : InPool(x)' <=> InPool(x) /\ x # b
        /\ \A x \in Builder, d \in Client :
             Has(d, x)' <=> Has(d, x) \/ (d = c /\ x = b)
        /\ call'[c].held = b
        /\ \A d \in Client \ {c} : call'[d] = call[d]
        /\ \A x \in Builder \ {b} : rec'[x] = rec[x]
        /\ activeBuilders' = activeBuilders \union {b}
  BY AcquireMoves
<1>2. UNCHANGED <<builders, destroyGo, vm, mode, prov, sleeping>>
  BY DEF AcquirePooled
<1>3. \A x \in Builder : Homed(x)' <=> Homed(x)
  BY <1>2 DEF Homed
<1>4. /\ \A x \in Builder : InPool(x)' => Homed(x)'
      /\ \A x \in Builder, d \in Client : Has(d, x)' => Homed(x)'
  BY <1>1, <1>3, HomesTracked
<1>5. \A x \in Builder : InPool(x)' /\ IsStale(x)' => InPool(x) /\ IsStale(x)
  BY <1>1 DEF IsStale
<1>6. mode = "serving" => \A x \in Builder, d \in Client :
        call'[d].held = x => x \in activeBuilders'
  BY <1>1 DEF VMInv, DestroyInv, ServingTracked
<1>7. sleeping' \subseteq Builder
  BY <1>2 DEF TypeOK
<1>8. QED
  BY <1>2, <1>4, <1>5, <1>6, <1>7, VMFrame

\* A caller that queues, waits, receives or gives up.
LEMMA CallerVM ==
  ASSUME TypeOK, HomeInv, VMInv, NEW c \in Client,
         \/ \E a \in Arch : AcquireEnqueue(c, a)
         \/ SendSignal(c) \/ Expire(c) \/ DialOK(c) \/ Receive(c) \/ TimeOut(c)
  PROVE  VMInv'
<1> USE DEF poolVars
<1>1. UNCHANGED <<builders, destroyGo, vm, mode, prov, sleeping, availablePool>>
  BY DEF AcquireEnqueue, SendSignal, Expire, DialOK, Receive, TimeOut
<1>2. \A x \in Builder : InPool(x)' <=> InPool(x)
  BY <1>1 DEF InPool
<1>3. \A x \in Builder, d \in Client : Has(d, x)' => Has(d, x)
  BY CallerMoves DEF SameHas, Leaves
<1>4. \A x \in Builder : Homed(x)' <=> Homed(x)
  BY <1>1 DEF Homed
<1>5. /\ \A x \in Builder : InPool(x)' => Homed(x)'
      /\ \A x \in Builder, d \in Client : Has(d, x)' => Homed(x)'
  BY <1>2, <1>3, <1>4, HomesTracked
<1>6. sleeping' \subseteq Builder
  BY <1>1 DEF TypeOK
<1>7. CASE Receive(c)
  <2>1. /\ call[c].resp \in Builder /\ call'[c].held = call[c].resp
        /\ \A d \in Client \ {c} : call'[d] = call[d]
        /\ \A x \in Builder \ {call[c].resp} : rec'[x] = rec[x]
        /\ activeBuilders' = activeBuilders \union {call[c].resp}
    BY <1>7, CallerMoves
  <2>2. \A x \in Builder : InPool(x)' /\ IsStale(x)' => InPool(x) /\ IsStale(x)
    <3>1. ~InPool(call[c].resp)
      BY <2>1 DEF HomeInv, OneHome, Has
    <3>2. QED
      BY <1>2, <2>1, <3>1 DEF IsStale
  <2>3. mode = "serving" => \A x \in Builder, d \in Client :
          call'[d].held = x => x \in activeBuilders'
    BY <2>1 DEF VMInv, DestroyInv, ServingTracked
  <2>4. QED
    BY <1>1, <1>5, <1>6, <2>2, <2>3, VMFrame
<1>8. CASE ~Receive(c)
  <2>1. UNCHANGED <<activeBuilders, rec>>
    BY <1>8 DEF AcquireEnqueue, SendSignal, Expire, DialOK, TimeOut
  <2>2. \A x \in Builder, d \in Client : call'[d].held = x => call[d].held = x
    <3>1. CASE \E a \in Arch : AcquireEnqueue(c, a)
      BY <3>1, PoolAssumption DEF AcquireEnqueue, TypeOK, Idle
    <3>2. CASE SendSignal(c) \/ Expire(c) \/ DialOK(c)
      BY <3>2, CallerMoves
    <3>3. CASE TimeOut(c)
      BY <3>3, PoolAssumption DEF TimeOut, TypeOK, Idle
    <3>4. QED
      BY <1>8, <3>1, <3>2, <3>3
  <2>3. mode = "serving" => \A x \in Builder, d \in Client :
          call'[d].held = x => x \in activeBuilders'
    BY <2>1, <2>2 DEF VMInv, DestroyInv, ServingTracked
  <2>4. \A x \in Builder : InPool(x)' /\ IsStale(x)' => InPool(x) /\ IsStale(x)
    BY <1>2, <2>1 DEF IsStale
  <2>5. QED
    BY <1>1, <1>5, <1>6, <2>3, <2>4, VMFrame
<1>9. QED
  BY <1>7, <1>8

\* A released builder stays tracked wherever it goes.
LEMMA ReleaseVM ==
  ASSUME TypeOK, HomeInv, ArchInv, VMInv, NEW c \in Client,
         call[c].pc \in {"dial", "build"}, releaseBuilder(c),
         UNCHANGED <<builders, destroyGo, vm, mode, prov>>
  PROVE  VMInv'
<1>1. PICK b \in Builder :
    /\ call[c].held = b /\ Has(c, b) /\ ~InPool(b)
    /\ \/ /\ Leaves(c) /\ call'[c] = Idle
          /\ \A e \in Client \ {c} : call'[e] = call[e]
          /\ UNCHANGED <<availablePool, activeBuilders, rec, sleeping>>
       \/ /\ Gone(c, b) /\ \E d \in Client : PassedOn(c, b, d)
          /\ UNCHANGED <<availablePool, sleeping>>
       \/ /\ Gone(c, b) /\ Leaves(c)
          /\ \A e \in Client \ {c} : call'[e] = call[e]
          /\ availablePool' = [availablePool EXCEPT ![rec[b].arch] = Append(@, b)]
          /\ UNCHANGED sleeping
       \/ /\ Gone(c, b) /\ Leaves(c)
          /\ \A e \in Client \ {c} : call'[e] = call[e]
          /\ sleeping' = sleeping \union {b}
          /\ UNCHANGED availablePool
  BY ReleaseMoves
<1>2. Homed(b) /\ (\A d \in Client : Has(d, b) => d = c)
  BY <1>1, HomesTracked DEF HomeInv, OneHome, OneHolder
<1>3. sleeping' \subseteq Builder
  BY <1>1 DEF TypeOK
<1>4. UNCHANGED sleeping => \A x \in Builder : Homed(x)' <=> Homed(x)
  BY DEF Homed
<1>5. \A x \in Builder : x # b => (Homed(x)' <=> Homed(x))
  BY <1>1 DEF Homed
<1>6. UNCHANGED availablePool => \A x \in Builder : InPool(x)' <=> InPool(x)
  BY DEF InPool
<1>7. \A x \in Builder : IsStale(x)' => IsStale(x)
  BY <1>1 DEF Gone, IsStale
<1>8. rec[b].arch \in Arch
  BY <1>1, HasArch
<1>9. \A x \in Builder, d \in Client \ {c} : call'[d].held = x => call[d].held = x
  BY <1>1, PoolAssumption DEF PassedOn
<1>10. mode = "serving" => \A x \in Builder, d \in Client :
         call'[d].held = x => x \in activeBuilders'
  <2> SUFFICES ASSUME mode = "serving", NEW x \in Builder, NEW d \in Client,
                      call'[d].held = x
               PROVE  x \in activeBuilders'
    OBVIOUS
  <2>1. d # c
    BY <1>1, PoolAssumption DEF Gone, Idle
  <2>2. call[d].held = x /\ Has(d, x)
    BY <1>9, <2>1 DEF Has
  <2>3. x # b /\ x \in activeBuilders
    BY <1>2, <2>1, <2>2 DEF VMInv, DestroyInv, ServingTracked
  <2>4. QED
    BY <1>1, <2>3 DEF Gone
<1>11. CASE /\ Leaves(c) /\ UNCHANGED <<availablePool, sleeping>>
  BY <1>3, <1>4, <1>6, <1>7, <1>10, <1>11, HomesTracked, VMFrame DEF Leaves
<1>12. CASE (\E d \in Client : PassedOn(c, b, d)) /\ UNCHANGED <<availablePool, sleeping>>
  BY <1>2, <1>3, <1>4, <1>6, <1>7, <1>10, <1>12, HomesTracked, VMFrame DEF PassedOn
<1>13. CASE /\ Gone(c, b) /\ Leaves(c) /\ UNCHANGED sleeping
            /\ availablePool' = [availablePool EXCEPT ![rec[b].arch] = Append(@, b)]
  <2>1. \A x \in Builder : InPool(x)' <=> InPool(x) \/ x = b
    BY <1>8, <1>13, PoolMoves
  <2>2. ~IsStale(b)'
    BY <1>13 DEF Gone, IsStale
  <2>3. QED
    BY <1>2, <1>3, <1>4, <1>7, <1>10, <1>13, <2>1, <2>2, HomesTracked, VMFrame
       DEF Leaves
<1>14. CASE Leaves(c) /\ sleeping' = sleeping \union {b} /\ UNCHANGED availablePool
  <2>1. /\ \A x \in Builder : InPool(x)' => Homed(x)'
        /\ \A x \in Builder, d \in Client : Has(d, x)' => Homed(x)'
    BY <1>1, <1>2, <1>5, <1>6, <1>14, HomesTracked DEF Leaves
  <2>2. QED
    BY <1>3, <1>6, <1>7, <1>10, <1>14, <2>1, VMFrame
<1>15. QED
  BY <1>1, <1>11, <1>12, <1>13, <1>14

\* The idle cleanup picks tracked builders only, and each of them once.
LEMMA CleanupVM ==
  ASSUME TypeOK, HomeInv, VMInv, cleanupOldBuilders
  PROVE  VMInv'
<1>1. SameHas
  BY CleanupMoves
<1>2. PICK old \in SUBSET Builder :
        /\ old = {x \in Builder : InPool(x) /\ IsStale(x)}
        /\ \A x \in Builder : InPool(x)' <=> InPool(x) /\ x \notin old
        /\ builders' = builders \ old
        /\ destroyGo' = destroyGo \union ({"idle"} \X old)
        /\ \A x \in Builder : IsStale(x)' <=> IsStale(x)
  BY CleanupMoves
<1>3. UNCHANGED <<activeBuilders, call, sleeping, prov, vm, mode>>
  BY DEF cleanupOldBuilders
<1>4. \A x \in old : x \in builders /\ vm[x] = "up" /\ ~BeingDestroyed(x)
  BY <1>2 DEF VMInv, DestroyInv, StaleTracked, TrackedUp
<1>5. \A x \in Builder, k \in Destroyer :
        <<k, x>> \in destroyGo' <=> <<k, x>> \in destroyGo \/ (k = "idle" /\ x \in old)
  BY <1>2
<1>6. \A x \in Builder : BeingDestroyed(x)' <=> BeingDestroyed(x) \/ x \in old
  BY <1>5 DEF BeingDestroyed, Destroyer
<1>7. TrackedUp'
  BY <1>2, <1>3, <1>6 DEF VMInv, DestroyInv, TrackedUp, TypeOK
<1>8. DestroyOnce'
  BY <1>3, <1>4, <1>5 DEF VMInv, DestroyInv, DestroyOnce, BeingDestroyed
<1>9. \A x \in Builder, d \in Client : Has(d, x) => ~InPool(x)
  BY DEF HomeInv, OneHome
<1>10. ServingTracked'
  BY <1>1, <1>2, <1>3, <1>9 DEF VMInv, DestroyInv, ServingTracked, SameHas
<1>11. SleepingHomeless'
  BY <1>1, <1>2, <1>3 DEF VMInv, DestroyInv, SleepingHomeless, SameHas, TypeOK
<1>12. StaleTracked'
  BY <1>2 DEF StaleTracked
<1>13. CreatedUp'
  BY <1>3 DEF VMInv, CreatedUp
<1>14. QED
  BY <1>7, <1>8, <1>10, <1>11, <1>12, <1>13 DEF VMInv, DestroyInv

\* A step that leaves the homes alone, and the destruction of the VMs.
LEMMA QuietVM ==
  ASSUME TypeOK, VMInv,
         UNCHANGED <<builders, availablePool, activeBuilders, call, sleeping,
                     destroyGo, mode>>,
         \A x \in Builder : InPool(x) /\ IsStale(x)' => IsStale(x) \/ x \in builders,
         \A x \in Builder : vm'[x] = vm[x] \/ (x \notin builders /\ ~BeingDestroyed(x)),
         CreatedUp'
  PROVE  VMInv'
<1>1. TrackedUp' /\ DestroyOnce'
  BY DEF VMInv, DestroyInv, TrackedUp, DestroyOnce, BeingDestroyed, TypeOK
<1>2. \A x \in Builder : InPool(x)' <=> InPool(x)
  BY DEF InPool
<1>3. \A x \in Builder, d \in Client : Has(d, x)' <=> Has(d, x)
  BY DEF Has
<1>4. ServingTracked' /\ SleepingHomeless'
  BY <1>2, <1>3 DEF VMInv, DestroyInv, ServingTracked, SleepingHomeless, TypeOK
<1>5. StaleTracked'
  BY <1>2 DEF VMInv, DestroyInv, StaleTracked
<1>6. QED
  BY <1>1, <1>4, <1>5 DEF VMInv, DestroyInv

\* Creating a VM: until it is registered only its own goroutine knows it.
LEMMA CreateVM ==
  ASSUME TypeOK, HomeInv, VMInv, NEW b \in Builder,
         \/ \E a \in Arch : StartProvision(a, b)
         \/ CreateOK(b) \/ CreateFail(b) \/ EndProvision(b)
  PROVE  VMInv'
<1> USE DEF poolVars
<1>1. UNCHANGED <<builders, availablePool, activeBuilders, call, sleeping,
                  destroyGo, mode>>
  BY DEF StartProvision, CreateOK, CreateFail, EndProvision
<1>2. \A x \in Builder \ {b} : vm'[x] = vm[x] /\ prov'[x] = prov[x] /\ rec'[x] = rec[x]
  BY DEF StartProvision, CreateOK, CreateFail, EndProvision, TypeOK
<1>3. ~EndProvision(b) => b \notin builders /\ ~BeingDestroyed(b) /\ ~InPool(b)
  BY DEF StartProvision, CreateOK, CreateFail, Unused, HomeInv, NewbornHomeless,
     Newborn, BeingDestroyed, InPool
<1>4. EndProvision(b) => UNCHANGED <<vm, rec>>
  BY DEF EndProvision
<1>5. prov'[b] = "created" => vm'[b] = "up"
  BY DEF StartProvision, CreateOK, CreateFail, EndProvision, TypeOK
<1>6. CreatedUp'
  BY <1>2, <1>5 DEF VMInv, CreatedUp
<1>7. \A x \in Builder : InPool(x) /\ IsStale(x)' => IsStale(x) \/ x \in builders
  BY <1>2, <1>3, <1>4 DEF IsStale
<1>8. \A x \in Builder : vm'[x] = vm[x] \/ (x \notin builders /\ ~BeingDestroyed(x))
  BY <1>2, <1>3, <1>4
<1>9. QED
  BY <1>1, <1>6, <1>7, <1>8, QuietVM

\* A new VM is tracked as it gets its first home.
LEMMA RegisterVM ==
  ASSUME TypeOK, HomeInv, ArchInv, VMInv, NEW b \in Builder,
         RegisterHandOff(b) \/ RegisterPooled(b)
  PROVE  VMInv'
<1>1. /\ prov[b] = "created" /\ builders' = builders \union {b}
      /\ prov'[b] = "exit" /\ \A x \in Builder \ {b} : prov'[x] = prov[x]
      /\ UNCHANGED <<activeBuilders, sleeping, destroyGo, vm, mode>>
  BY DEF RegisterHandOff, RegisterPooled, TypeOK
<1>2. vm[b] = "up" /\ b \notin sleeping /\ ~BeingDestroyed(b)
  BY <1>1 DEF VMInv, CreatedUp, HomeInv, NewbornHomeless, Newborn
<1>3. \A x \in Builder : BeingDestroyed(x)' <=> BeingDestroyed(x)
  BY <1>1 DEF BeingDestroyed
<1>4. TrackedUp' /\ DestroyOnce' /\ CreatedUp'
  BY <1>1, <1>2, <1>3
     DEF VMInv, DestroyInv, TrackedUp, DestroyOnce, CreatedUp, TypeOK
<1>5. \A x \in Builder, d \in Client : Has(d, x)' => Has(d, x) \/ x = b
  BY RegisterMoves DEF SameHas
<1>6. \A x \in Builder : InPool(x)' => InPool(x) \/ x = b
  <2>1. CASE RegisterHandOff(b)
    BY <2>1 DEF RegisterHandOff, InPool
  <2>2. CASE RegisterPooled(b)
    <3>1. rec[b].arch \in Arch
      BY <1>1 DEF ArchInv
    <3>2. QED
      BY <2>2, <3>1, PoolMoves DEF RegisterPooled
  <2>3. QED
    BY <2>1, <2>2
<1>7. \A x \in Builder : IsStale(x)' <=> IsStale(x)
  BY RegisterMoves DEF IsStale
<1>8. \A x \in Builder, d \in Client : call'[d].held = x => call[d].held = x
  BY RegisterMoves, PoolAssumption DEF RegisterPooled
<1>9. ServingTracked'
  BY <1>1, <1>5, <1>6, <1>8 DEF VMInv, DestroyInv, ServingTracked
<1>10. SleepingHomeless'
  BY <1>1, <1>2, <1>5, <1>6 DEF VMInv, DestroyInv, SleepingHomeless, TypeOK
<1>11. StaleTracked'
  BY <1>1, <1>6, <1>7 DEF VMInv, DestroyInv, StaleTracked
<1>12. QED
  BY <1>4, <1>9, <1>10, <1>11 DEF VMInv, DestroyInv

\* scheduleDestruction destroys a builder without a home, DestroyAll every
\* tracked one, and a VM whose Destroy returns is known to nobody.
LEMMA DestroyVM ==
  ASSUME TypeOK, HomeInv, VMInv,
         \/ \E b \in Builder : scheduleDestruction(b)
         \/ \E b \in Builder, k \in Destroyer : DestroyReturns(k, b)
         \/ DestroyAll
  PROVE  VMInv'
<1> USE DEF poolVars
<1>1. ASSUME NEW b \in Builder, scheduleDestruction(b) PROVE VMInv'
  <2>1. /\ b \in sleeping /\ sleeping' = sleeping \ {b}
        /\ UNCHANGED <<availablePool, activeBuilders, rec, call, prov, vm, mode>>
    BY <1>1 DEF scheduleDestruction
  <2>2. (\A x \in Builder : InPool(x)' <=> InPool(x))
        /\ \A x \in Builder, d \in Client : Has(d, x)' <=> Has(d, x)
    BY <2>1 DEF InPool, Has
  <2>3. ~InPool(b) /\ \A d \in Client : ~Has(d, b)
    BY <2>1 DEF VMInv, DestroyInv, SleepingHomeless
  <2>4. \/ UNCHANGED <<builders, destroyGo>>
        \/ /\ b \in builders /\ builders' = builders \ {b}
           /\ destroyGo' = destroyGo \union {<<"schedule", b>>}
    BY <1>1 DEF scheduleDestruction, StillToDestroy
  <2>5. TrackedUp' /\ DestroyOnce'
    BY <2>1, <2>4 DEF VMInv, DestroyInv, TrackedUp, DestroyOnce, BeingDestroyed,
       TypeOK, Destroyer
  <2>6. ServingTracked' /\ StaleTracked'
    BY <2>1, <2>2, <2>3, <2>4
       DEF VMInv, DestroyInv, ServingTracked, StaleTracked, IsStale, Has
  <2>7. SleepingHomeless' /\ CreatedUp'
    BY <2>1, <2>2 DEF VMInv, DestroyInv, SleepingHomeless, CreatedUp, TypeOK
  <2>8. QED
    BY <2>5, <2>6, <2>7 DEF VMInv, DestroyInv
<1>2. ASSUME NEW b \in Builder, NEW k \in Destroyer, DestroyReturns(k, b) PROVE VMInv'
  <2>1. /\ <<k, b>> \in destroyGo /\ destroyGo' = destroyGo \ {<<k, b>>}
        /\ \A x \in Builder \ {b} : vm'[x] = vm[x]
        /\ UNCHANGED <<builders, availablePool, activeBuilders, rec, call, sleeping,
                       prov, mode>>
    BY <1>2 DEF DestroyReturns, TypeOK
  <2>2. b \notin builders /\ prov[b] # "created"
    BY <2>1 DEF VMInv, DestroyInv, TrackedUp, BeingDestroyed, HomeInv,
       NewbornHomeless, Newborn
  <2>3. TrackedUp' /\ CreatedUp'
    BY <2>1, <2>2 DEF VMInv, DestroyInv, TrackedUp, CreatedUp, BeingDestroyed, TypeOK
  <2>4. \A j \in Destroyer : <<j, b>> \notin destroyGo'
    BY <2>1 DEF VMInv, DestroyInv, DestroyOnce
  <2>5. DestroyOnce'
    BY <2>1, <2>4 DEF VMInv, DestroyInv, DestroyOnce
  <2>6. (\A x \in Builder : InPool(x)' <=> InPool(x))
        /\ \A x \in Builder, d \in Client : Has(d, x)' <=> Has(d, x)
    BY <2>1 DEF InPool, Has
  <2>7. ServingTracked' /\ StaleTracked' /\ SleepingHomeless'
    BY <2>1, <2>6 DEF VMInv, DestroyInv, ServingTracked, StaleTracked, IsStale,
       SleepingHomeless, TypeOK
  <2>8. QED
    BY <2>3, <2>5, <2>7 DEF VMInv, DestroyInv
<1>3. CASE DestroyAll
  <2>1. /\ destroyGo' = destroyGo \union ({"shutdown"} \X builders)
        /\ builders' = {} /\ mode' = "destroying"
        /\ UNCHANGED <<rec, call, sleeping, prov, vm>>
    BY <1>3 DEF DestroyAll
  <2>2. \A x \in Builder : ~InPool(x)'
    BY <1>3 DEF DestroyAll, InPool, ToSet
  <2>3. DestroyOnce'
    <3>1. \A x \in Builder, k \in Destroyer : <<k, x>> \in destroyGo' <=>
            <<k, x>> \in destroyGo \/ (k = "shutdown" /\ x \in builders)
      BY <2>1
    <3>2. \A x \in builders : vm[x] = "up" /\ \A k \in Destroyer : <<k, x>> \notin destroyGo
      BY DEF VMInv, DestroyInv, TrackedUp, BeingDestroyed
    <3>3. QED
      BY <2>1, <3>1, <3>2 DEF VMInv, DestroyInv, DestroyOnce
  <2>4. TrackedUp' /\ ServingTracked' /\ StaleTracked' /\ CreatedUp'
    BY <2>1, <2>2 DEF VMInv, TrackedUp, ServingTracked, StaleTracked, CreatedUp
  <2>5. SleepingHomeless'
    BY <2>1, <2>2 DEF VMInv, DestroyInv, SleepingHomeless, Has, TypeOK
  <2>6. QED
    BY <2>3, <2>4, <2>5 DEF VMInv, DestroyInv
<1>4. QED
  BY <1>1, <1>2, <1>3

\* Every step keeps the invariant of the VMs.
LEMMA VMStep == TypeOK /\ HomeInv /\ ArchInv /\ VMInv /\ [Next]_vars => VMInv'
<1> SUFFICES ASSUME TypeOK, HomeInv, ArchInv, VMInv, [Next]_vars PROVE VMInv'
  OBVIOUS
<1> USE DEF poolVars, goVars
<1>1. ASSUME NEW c \in Client, DialFail(c) \/ ReleaseBuilder(c) PROVE VMInv'
  BY <1>1, ReleaseVM DEF DialFail, ReleaseBuilder
<1>2. CASE TakeSignal \/ ScaleOnSignal \/ ScaleOnTick \/ UNCHANGED vars
  <2>1. UNCHANGED <<builders, availablePool, activeBuilders, call, sleeping,
                    destroyGo, mode, rec, vm, prov>>
    BY <1>2 DEF TakeSignal, ScaleOnSignal, ScaleOnTick, vars
  <2>2. QED
    BY <2>1, QuietVM DEF IsStale, VMInv, CreatedUp
<1>3. ASSUME NEW b \in Builder, GrowIdle(b) PROVE VMInv'
  <2>1. /\ mode = "serving"
        /\ UNCHANGED <<builders, availablePool, activeBuilders, call, sleeping,
                       destroyGo, mode, vm, prov>>
    BY <1>3 DEF GrowIdle
  <2>2. \A x \in Builder : InPool(x) => x \in builders
    BY <2>1 DEF VMInv, DestroyInv, ServingTracked
  <2>3. CreatedUp'
    BY <2>1 DEF VMInv, CreatedUp
  <2>4. QED
    BY <2>1, <2>2, <2>3, QuietVM
<1>4. CASE Exit
  <2>1. mode' = "exited" /\ UNCHANGED <<builders, availablePool, activeBuilders, call,
          sleeping, destroyGo, rec, vm, prov>>
    BY <1>4 DEF Exit
  <2>2. QED
    BY <2>1 DEF VMInv, DestroyInv, TrackedUp, ServingTracked, SleepingHomeless,
       StaleTracked, DestroyOnce, CreatedUp, InPool, Has, IsStale, BeingDestroyed
<1>5. QED
  BY <1>1, <1>2, <1>3, <1>4, AcquireVM, CallerVM, CleanupVM, CreateVM, RegisterVM,
     DestroyVM
     DEF Next, Caller, maintenanceWorker, provisionBackground, Destruction, Exited

\* The initial state has no builder anywhere.
LEMMA VMInit == Init => TypeOK /\ HomeInv /\ ArchInv /\ VMInv
<1> SUFFICES ASSUME Init PROVE TypeOK /\ HomeInv /\ ArchInv /\ VMInv
  OBVIOUS
<1>1. TypeOK
  BY PoolAssumption DEF Init, NewPool, TypeOK, Idle, Call, CallPC, BuilderRec,
     BuilderStatus, Time, VMState
<1>2. HomeInv
  BY HomeInit
<1>3. /\ \A a \in Arch : ToSet(availablePool[a]) = {}
      /\ \A c \in Client : call[c] = Idle
      /\ \A b \in Builder : prov[b] = "none"
      /\ builders = {} /\ sleeping = {} /\ destroyGo = {}
  BY DEF Init, NewPool, ToSet
<1>4. \A c \in Client, b \in Builder : ~Has(c, b) /\ call[c].held # b
  BY <1>3, PoolAssumption DEF Has, Idle
<1>5. ArchInv
  BY <1>3, <1>4 DEF ArchInv
<1>6. VMInv
  BY <1>3, <1>4 DEF VMInv, DestroyInv, TrackedUp, ServingTracked, SleepingHomeless,
     StaleTracked, DestroyOnce, CreatedUp, InPool
<1>7. QED
  BY <1>1, <1>2, <1>5, <1>6

\* The invariants together are inductive.
LEMMA VMAlways == Spec => [](TypeOK /\ HomeInv /\ ArchInv /\ VMInv)
<1>1. TypeOK /\ HomeInv /\ ArchInv /\ VMInv /\ [Next]_vars
        => (TypeOK /\ HomeInv /\ ArchInv /\ VMInv)'
  BY TypeStep, HomeStep, ArchStep, VMStep
<1>2. QED
  BY <1>1, VMInit, PTL DEF Spec

\* scheduleDestruction, the idle cleanup and DestroyAll never destroy the same
\* VM twice, for any number of callers, VMs and architectures.
THEOREM DestroyedAtMostOnce == Spec => []DestroyOnce
<1>1. VMInv => DestroyOnce
  BY DEF VMInv, DestroyInv
<1>2. QED
  BY <1>1, VMAlways, PTL

\* What a caller dials or builds on before the shutdown is a running, tracked
\* VM of the architecture it asked for that nobody is about to destroy.
THEOREM HeldBuilderIsUp == Spec => []HeldIsUp
<1>1. HomeInv /\ ArchInv /\ VMInv => HeldIsUp
  <2> SUFFICES ASSUME HomeInv, ArchInv, VMInv, mode = "serving", NEW c \in Client,
                      NEW b \in Builder, call[c].held = b
               PROVE  /\ vm[b] = "up" /\ rec[b].arch = call[c].arch
                      /\ b \in builders /\ b \in activeBuilders
                      /\ ~BeingDestroyed(b) /\ b \notin sleeping
    BY DEF HeldIsUp
  <2>1. Has(c, b)
    BY DEF Has
  <2>2. b \in builders /\ b \in activeBuilders /\ b \notin sleeping
    BY <2>1 DEF VMInv, DestroyInv, ServingTracked, SleepingHomeless
  <2>3. vm[b] = "up" /\ ~BeingDestroyed(b)
    BY <2>2 DEF VMInv, DestroyInv, TrackedUp
  <2>4. rec[b].arch = call[c].arch
    BY <2>1 DEF ArchInv
  <2>5. QED
    BY <2>2, <2>3, <2>4
<1>2. QED
  BY <1>1, VMAlways, PTL

-----------------------------------------------------------------------------
(* The count of the provisioning goroutines *)

Provisioning(a) == {b \in Builder : prov[b] # "none" /\ rec[b].arch = a}

\* A step that starts or ends no provisioning goroutine changes neither who
\* has one nor the architecture of a builder.
LEMMA GoroutinesKept ==
  ASSUME TypeOK, HomeInv, [Next]_vars,
         ~\E a \in Arch, b \in Builder : StartProvision(a, b),
         ~\E b \in Builder : EndProvision(b)
  PROVE  \A x \in Builder : /\ prov'[x] # "none" <=> prov[x] # "none"
                            /\ rec'[x].arch = rec[x].arch
<1> USE DEF poolVars, goVars
<1>1. ASSUME NEW c \in Client, Caller(c)
      PROVE  UNCHANGED prov /\ \A x \in Builder : rec'[x].arch = rec[x].arch
  <2>1. UNCHANGED prov
    BY <1>1 DEF Caller, AcquirePooled, AcquireEnqueue, SendSignal, Expire, Receive,
       TimeOut, DialOK, DialFail, ReleaseBuilder
  <2>2. CASE DialFail(c) \/ ReleaseBuilder(c)
    <3>1. call[c].pc \in {"dial", "build"} /\ releaseBuilder(c)
      BY <2>2 DEF DialFail, ReleaseBuilder
    <3>2. SameArch
      BY <3>1, ReleaseMoves
    <3>3. QED
      BY <2>1, <3>2 DEF SameArch
  <2>3. CASE \E a \in Arch : AcquirePooled(c, a)
    BY <2>1, <2>3, AcquireMoves
  <2>4. CASE \E a \in Arch : AcquireEnqueue(c, a)
    BY <2>1, <2>4 DEF AcquireEnqueue
  <2>5. CASE SendSignal(c) \/ Expire(c) \/ DialOK(c) \/ Receive(c) \/ TimeOut(c)
    BY <2>1, <2>5, CallerMoves DEF SameArch
  <2>6. QED
    BY <1>1, <2>2, <2>3, <2>4, <2>5 DEF Caller
<1>2. CASE TakeSignal \/ ScaleOnSignal \/ ScaleOnTick \/ DestroyAll \/ Exit
           \/ UNCHANGED vars
  BY <1>2 DEF TakeSignal, ScaleOnSignal, ScaleOnTick, DestroyAll, Exit, vars
<1>3. CASE cleanupOldBuilders
  BY <1>3, CleanupMoves DEF cleanupOldBuilders, SameArch
<1>4. ASSUME NEW b \in Builder, GrowIdle(b)
      PROVE  UNCHANGED prov /\ \A x \in Builder : rec'[x].arch = rec[x].arch
  BY <1>4 DEF GrowIdle, TypeOK, BuilderRec
<1>5. ASSUME NEW b \in Builder, CreateOK(b) \/ CreateFail(b)
      PROVE  /\ \A x \in Builder : prov'[x] # "none" <=> prov[x] # "none"
             /\ UNCHANGED rec
  BY <1>5 DEF CreateOK, CreateFail, TypeOK
<1>6. ASSUME NEW b \in Builder, RegisterHandOff(b) \/ RegisterPooled(b)
      PROVE  \A x \in Builder : /\ prov'[x] # "none" <=> prov[x] # "none"
                                /\ rec'[x].arch = rec[x].arch
  <2>1. \A x \in Builder : rec'[x].arch = rec[x].arch
    BY <1>6, RegisterMoves DEF SameArch
  <2>2. \A x \in Builder : prov'[x] # "none" <=> prov[x] # "none"
    BY <1>6 DEF RegisterHandOff, RegisterPooled, TypeOK
  <2>3. QED
    BY <2>1, <2>2
<1>7. ASSUME NEW b \in Builder, Destruction(b) PROVE UNCHANGED <<prov, rec>>
  BY <1>7 DEF Destruction, scheduleDestruction, DestroyReturns
<1>8. QED
  BY <1>1, <1>2, <1>3, <1>4, <1>5, <1>6, <1>7
     DEF Next, maintenanceWorker, provisionBackground, Exited

\* The goroutines of an architecture are finitely many.
LEMMA ProvisioningFinite ==
  ASSUME NEW a
  PROVE  IsFiniteSet(Provisioning(a)) /\ Cardinality(Provisioning(a)) \in Nat
<1>1. Provisioning(a) \in SUBSET Builder
  BY DEF Provisioning
<1>2. IsFiniteSet(Provisioning(a))
  BY <1>1, PoolAssumption, FS_Subset
<1>3. QED
  BY <1>2, FS_CardinalityType

\* Every step keeps the count exact: a goroutine moves from the spawned to
\* the running ones, and is counted down exactly once.
LEMMA CountStep ==
  TypeOK /\ HomeInv /\ ArchInv /\ CountExact /\ [Next]_vars => CountExact'
<1> SUFFICES ASSUME TypeOK, HomeInv, ArchInv, CountExact, [Next]_vars,
                    NEW y \in Arch
             PROVE  provisioningCount'[y] = spawned'[y] + Cardinality(Provisioning(y)')
  BY DEF CountExact, Provisioning
<1> USE DEF poolVars, goVars
<1>0. provisioningCount[y] = spawned[y] + Cardinality(Provisioning(y))
  BY DEF CountExact, Provisioning
<1>1. /\ Cardinality(Provisioning(y)) \in Nat /\ IsFiniteSet(Provisioning(y))
      /\ spawned[y] \in Nat /\ provisioningCount[y] \in Int
  BY ProvisioningFinite DEF TypeOK
<1>2. ASSUME NEW a \in Arch, NEW b \in Builder, StartProvision(a, b)
      PROVE  provisioningCount'[y] = spawned'[y] + Cardinality(Provisioning(y)')
  <2>1. /\ prov[b] = "none" /\ prov'[b] = "create" /\ rec'[b].arch = a
        /\ \A x \in Builder \ {b} : prov'[x] = prov[x] /\ rec'[x] = rec[x]
        /\ spawned[a] > 0 /\ spawned' = [spawned EXCEPT ![a] = @ - 1]
        /\ UNCHANGED provisioningCount
    BY <1>2 DEF StartProvision, Unused, TypeOK
  <2>2. CASE y = a
    <3>1. Provisioning(y)' = Provisioning(y) \union {b} /\ b \notin Provisioning(y)
      BY <2>1, <2>2 DEF Provisioning
    <3>2. Cardinality(Provisioning(y)') = Cardinality(Provisioning(y)) + 1
      BY <1>1, <3>1, FS_AddElement
    <3>3. spawned'[y] = spawned[y] - 1
      BY <2>1, <2>2 DEF TypeOK
    <3>4. QED
      BY <1>0, <1>1, <2>1, <3>2, <3>3
  <2>3. CASE y # a
    <3>1. Provisioning(y)' = Provisioning(y)
      BY <2>1, <2>3 DEF Provisioning
    <3>2. spawned'[y] = spawned[y]
      BY <2>1, <2>3 DEF TypeOK
    <3>3. QED
      BY <1>0, <2>1, <3>1, <3>2
  <2>4. QED
    BY <2>2, <2>3
<1>3. ASSUME NEW b \in Builder, EndProvision(b)
      PROVE  provisioningCount'[y] = spawned'[y] + Cardinality(Provisioning(y)')
  <2>1. /\ prov[b] # "none" /\ prov'[b] = "none"
        /\ \A x \in Builder \ {b} : prov'[x] = prov[x]
        /\ provisioningCount' = [provisioningCount EXCEPT ![rec[b].arch] = @ - 1]
        /\ UNCHANGED <<rec, spawned>>
    BY <1>3 DEF EndProvision, TypeOK
  <2>2. Provisioning(y)' = Provisioning(y) \ {b}
        /\ (b \in Provisioning(y) <=> rec[b].arch = y)
    BY <2>1 DEF Provisioning
  <2>3. Cardinality(Provisioning(y)') =
          IF rec[b].arch = y THEN Cardinality(Provisioning(y)) - 1
          ELSE Cardinality(Provisioning(y))
    BY <1>1, <2>2, FS_RemoveElement
  <2>4. provisioningCount'[y] =
          IF rec[b].arch = y THEN provisioningCount[y] - 1 ELSE provisioningCount[y]
    BY <2>1 DEF TypeOK
  <2>5. QED
    BY <1>0, <1>1, <2>1, <2>3, <2>4
<1>4. CASE /\ ~\E a \in Arch, b \in Builder : StartProvision(a, b)
           /\ ~\E b \in Builder : EndProvision(b)
  <2>1. \A x \in Builder : /\ prov'[x] # "none" <=> prov[x] # "none"
                           /\ rec'[x].arch = rec[x].arch
    BY <1>4, GoroutinesKept
  <2>2. Provisioning(y)' = Provisioning(y)
    BY <2>1 DEF Provisioning
  <2>3. CASE ScaleOnSignal \/ ScaleOnTick
    <3>1. /\ provisioningCount'[y] = provisioningCount[y] + Needed(y)
          /\ spawned'[y] = spawned[y] + Needed(y)
      BY <2>3 DEF ScaleOnSignal, ScaleOnTick, checkAndScale
    <3>2. Needed(y) \in Nat
      BY NeededType
    <3>3. QED
      BY <1>0, <1>1, <2>2, <3>1, <3>2
  <2>4. CASE ~(ScaleOnSignal \/ ScaleOnTick)
    <3>1. UNCHANGED <<provisioningCount, spawned>>
      BY <1>4, <2>4 DEF Next, Caller, AcquirePooled, AcquireEnqueue, SendSignal,
         Expire, Receive, TimeOut, DialOK, DialFail, ReleaseBuilder,
         maintenanceWorker, TakeSignal, cleanupOldBuilders, provisionBackground,
         CreateOK, CreateFail, RegisterHandOff, RegisterPooled, Destruction,
         scheduleDestruction, DestroyReturns, GrowIdle, DestroyAll, Exit, Exited, vars
    <3>2. QED
      BY <1>0, <2>2, <3>1
  <2>5. QED
    BY <2>3, <2>4
<1>5. QED
  BY <1>2, <1>3, <1>4

\* provisioningCount is the number of provisioning goroutines that have not
\* run their deferred decrement, whatever the order of their ends and of the
\* scaling decisions, for any number of them.
THEOREM ProvisioningCounted == Spec => []CountExact
<1>1. Init => CountExact
  <2> SUFFICES ASSUME Init, NEW a \in Arch
               PROVE  provisioningCount[a] = spawned[a] + Cardinality(Provisioning(a))
    BY DEF CountExact, Provisioning
  <2>1. provisioningCount[a] = 0 /\ spawned[a] = 0 /\ Provisioning(a) = {}
    BY DEF Init, NewPool, Provisioning
  <2>2. QED
    BY <2>1, FS_EmptySet
<1>2. QED
  BY <1>1, CountStep, VMAlways, PTL DEF Spec

-----------------------------------------------------------------------------
(* The order of the queue and the size of the pools *)

\* What NoOvertaking asks of one step and one caller.
Overtakes(c) ==
  /\ GetsBuilder(c)
  /\ \E i \in DOMAIN waiters : /\ Wants(waiters[i], call'[c].arch)
                               /\ \A j \in 1..i : waiters[j] # c

\* Who gets a builder as the first of the queue overtakes nobody.
LEMMA FirstIsFair ==
  ASSUME TypeOK, NEW d \in Client, NEW a, FirstFor(d, a), call'[d].arch = a
  PROVE  ~Overtakes(d)
<1>1. PICK i \in DOMAIN waiters :
        waiters[i] = d /\ \A j \in 1..(i - 1) : ~Wants(waiters[j], a)
  BY DEF FirstFor
<1>2. DOMAIN waiters = 1..Len(waiters) /\ Len(waiters) \in Nat
  BY DEF TypeOK
<1>3. QED
  BY <1>1, <1>2 DEF Overtakes

\* A caller whose session the step leaves alone, or ends, gets nothing.
LEMMA GetsNothing ==
  ASSUME TypeOK, NEW c \in Client,
         \/ call'[c] = call[c] /\ HomeInv
         \/ call'[c].resp = NoBuilder /\ call'[c].held = NoBuilder
         \/ call'[c].resp = call[c].resp /\ call[c].pc # "idle"
         \/ call'[c].resp = NoBuilder /\ call[c].pc # "idle"
  PROVE  ~Overtakes(c)
BY DEF Overtakes, GetsBuilder, HomeInv, CallsOK

\* No step lets a caller overtake the queue: a handoff takes the first that
\* waits for the architecture, and the fast path finds nobody waiting for it.
LEMMA OvertakeStep ==
  ASSUME TypeOK, HomeInv, NoIdleWhileWaiting, [Next]_vars, NEW c \in Client
  PROVE  ~Overtakes(c)
<1> USE DEF poolVars, goVars
<1>1. ASSUME NEW d \in Client, NEW a \in Arch, AcquirePooled(d, a) PROVE ~Overtakes(c)
  <2>1. call'[d].arch = a /\ \A e \in Client \ {d} : call'[e] = call[e]
    BY <1>1, AcquireMoves
  <2>2. LiveWaiters(a) = {}
    BY <1>1 DEF AcquirePooled, NoIdleWhileWaiting
  <2>3. \A i \in DOMAIN waiters : ~Wants(waiters[i], a)
    BY <2>2 DEF LiveWaiters, ToSet
  <2>4. QED
    BY <2>1, <2>3, GetsNothing DEF Overtakes
<1>2. ASSUME NEW d \in Client, \E a \in Arch : AcquireEnqueue(d, a)
      PROVE  ~Overtakes(c)
  <2>1. /\ call'[d].resp = NoBuilder /\ call'[d].held = NoBuilder
        /\ \A e \in Client \ {d} : call'[e] = call[e]
    BY <1>2 DEF AcquireEnqueue, TypeOK, Idle
  <2>2. QED
    BY <2>1, GetsNothing
<1>3. ASSUME NEW d \in Client, SendSignal(d) \/ Expire(d) \/ DialOK(d)
      PROVE  ~Overtakes(c)
  <2>1. /\ call[d].pc # "idle" /\ call'[d].resp = call[d].resp
        /\ \A e \in Client \ {d} : call'[e] = call[e]
    <3>1. call[d].pc # "idle" /\ \A e \in Client \ {d} : call'[e] = call[e]
      BY <1>3 DEF SendSignal, Expire, DialOK, TypeOK
    <3>2. CASE Expire(d)
      <4>1. call'[d] = [call[d] EXCEPT !.expired = TRUE] /\ call[d] \in Call
        BY <3>2 DEF Expire, TypeOK
      <4>2. QED
        BY <3>1, <4>1 DEF Call
    <3>3. CASE SendSignal(d) \/ DialOK(d)
      BY <3>1, <3>3 DEF SendSignal, DialOK, TypeOK, Call
    <3>4. QED
      BY <1>3, <3>2, <3>3
  <2>2. QED
    BY <2>1, GetsNothing
<1>4. ASSUME NEW d \in Client, Receive(d) PROVE ~Overtakes(c)
  <2>1. /\ call[d].pc # "idle" /\ call'[d].resp = NoBuilder
        /\ \A e \in Client \ {d} : call'[e] = call[e]
    BY <1>4 DEF Receive, TypeOK, Idle
  <2>2. QED
    BY <2>1, GetsNothing
<1>5. ASSUME NEW d \in Client, TimeOut(d) PROVE ~Overtakes(c)
  <2>1. /\ call'[d].resp = NoBuilder /\ call'[d].held = NoBuilder
        /\ \A e \in Client \ {d} : call'[e] = call[e]
    BY <1>5 DEF TimeOut, TypeOK, Idle
  <2>2. QED
    BY <2>1, GetsNothing
<1>6. ASSUME NEW d \in Client, DialFail(d) \/ ReleaseBuilder(d) PROVE ~Overtakes(c)
  <2>1. call[d].pc \in {"dial", "build"} /\ releaseBuilder(d)
    BY <1>6 DEF DialFail, ReleaseBuilder
  <2>2. PICK b \in Builder :
          /\ call'[d] = Idle
          /\ \/ \A e \in Client \ {d} : call'[e] = call[e]
             \/ \E w \in Client : PassedOn(d, b, w)
    BY <2>1, ReleaseMoves DEF Gone
  <2>3. CASE c = d
    BY <2>2, <2>3, GetsNothing DEF Idle
  <2>4. CASE c # d /\ call'[c] = call[c]
    BY <2>4, GetsNothing
  <2>5. CASE c # d /\ \E w \in Client : PassedOn(d, b, w)
    <3>1. PICK w \in Client : PassedOn(d, b, w)
      BY <2>5
    <3>2. CASE c = w
      BY <3>1, <3>2, FirstIsFair DEF PassedOn
    <3>3. CASE c # w
      BY <2>5, <3>1, <3>3, GetsNothing DEF PassedOn
    <3>4. QED
      BY <3>2, <3>3
  <2>6. QED
    BY <2>2, <2>3, <2>4, <2>5
<1>7. ASSUME NEW b \in Builder, RegisterHandOff(b) PROVE ~Overtakes(c)
  <2>1. PICK w \in Client : /\ call[w].arch = rec[b].arch
                            /\ call'[w].arch = call[w].arch
                            /\ FirstFor(w, rec[b].arch)
                            /\ \A e \in Client \ {w} : call'[e] = call[e]
    BY <1>7, RegisterMoves
  <2>2. CASE c = w
    BY <2>1, <2>2, FirstIsFair
  <2>3. CASE c # w
    BY <2>1, <2>3, GetsNothing
  <2>4. QED
    BY <2>2, <2>3
<1>8. CASE UNCHANGED call
  BY <1>8, GetsNothing
<1>9. maintenanceWorker \/ DestroyAll \/ Exit \/ UNCHANGED vars => UNCHANGED call
  BY DEF maintenanceWorker, TakeSignal, ScaleOnSignal, ScaleOnTick,
     cleanupOldBuilders, DestroyAll, Exit, vars
<1>10. ASSUME NEW b \in Builder, ~RegisterHandOff(b),
              provisionBackground(b) \/ Destruction(b) \/ GrowIdle(b)
       PROVE  UNCHANGED call
  BY <1>10 DEF provisionBackground, StartProvision, CreateOK, CreateFail,
     RegisterPooled, EndProvision, Destruction, scheduleDestruction, DestroyReturns,
     GrowIdle
<1>11. QED
  BY <1>1, <1>2, <1>3, <1>4, <1>5, <1>6, <1>7, <1>8, <1>9, <1>10
     DEF Next, Caller, Exited

\* Every invariant of the pool that the action properties rest on.
LEMMA PoolAlways ==
  Spec => [](TypeOK /\ HomeInv /\ ArchInv /\ VMInv /\ NoIdleWhileWaiting)
BY VMAlways, NoIdleBuilder, PTL

\* Neither a handoff nor the fast path of an acquire overtakes a live request
\* for the same architecture that has been queued longer.
THEOREM QueueKeepsOrder == Spec => NoOvertaking
<1>1. TypeOK /\ HomeInv /\ NoIdleWhileWaiting /\ [Next]_vars =>
        [\A c \in Client : GetsBuilder(c) =>
           \A i \in DOMAIN waiters :
             Wants(waiters[i], call'[c].arch) => \E j \in 1..i : waiters[j] = c]_vars
  BY OvertakeStep DEF Overtakes
<1>2. QED
  BY <1>1, PoolAlways, PTL DEF Spec, NoOvertaking

\* A pool grows by one builder at a time, past MaxPoolSize only when a VM has
\* just been registered.
LEMMA GrowthStep ==
  ASSUME TypeOK, HomeInv, ArchInv, [Next]_vars, NEW a \in Arch,
         Len(availablePool'[a]) > Len(availablePool[a]),
         Len(availablePool'[a]) > MaxPoolSize
  PROVE  \E b \in Builder : prov[b] = "created" /\ prov'[b] = "exit"
<1> USE DEF poolVars, goVars
<1>0. availablePool[a] \in Seq(Builder) /\ Len(availablePool[a]) \in Nat
      /\ MaxPoolSize \in Nat
  BY PoolAssumption DEF TypeOK
<1>1. ASSUME NEW c \in Client, NEW x \in Arch, AcquirePooled(c, x) PROVE FALSE
  <2>1. availablePool'[a] = availablePool[a]
        \/ (availablePool'[a] = Tail(availablePool[a]) /\ availablePool[a] # <<>>)
    BY <1>1 DEF AcquirePooled, TakeOldest, TypeOK
  <2>2. CASE availablePool'[a] = availablePool[a]
    BY <1>0, <2>2
  <2>3. CASE availablePool'[a] = Tail(availablePool[a]) /\ availablePool[a] # <<>>
    <3>1. Len(Tail(availablePool[a])) = Len(availablePool[a]) - 1
      BY <1>0, <2>3, HeadTailProperties
    <3>2. QED
      BY <1>0, <2>3, <3>1
  <2>4. QED
    BY <2>1, <2>2, <2>3
<1>2. ASSUME NEW c \in Client, call[c].pc \in {"dial", "build"}, releaseBuilder(c)
      PROVE  FALSE
  <2>1. PICK b \in Builder :
          /\ Has(c, b)
          /\ \/ UNCHANGED availablePool
             \/ /\ availablePool' = [availablePool EXCEPT ![rec[b].arch] = Append(@, b)]
                /\ KeepForReuse(rec[b].arch)
    BY <1>2, ReleaseMoves
  <2>2. rec[b].arch = a /\ availablePool'[a] = Append(availablePool[a], b)
        /\ KeepForReuse(a)
    <3>1. ~UNCHANGED availablePool
      BY <1>0
    <3>2. availablePool' = [availablePool EXCEPT ![rec[b].arch] = Append(@, b)]
          /\ KeepForReuse(rec[b].arch)
      BY <2>1, <3>1
    <3>3. rec[b].arch = a
      BY <1>0, <3>2 DEF TypeOK
    <3>4. QED
      BY <3>2, <3>3 DEF TypeOK
  <2>3. Len(availablePool'[a]) = Len(availablePool[a]) + 1
    BY <1>0, <2>2, AppendProperties
  <2>4. QED
    BY <1>0, <2>2, <2>3 DEF KeepForReuse
<1>3. CASE cleanupOldBuilders
  <2>1. PICK old : availablePool'[a] = Without(availablePool[a], old)
    BY <1>3 DEF cleanupOldBuilders
  <2>2. Len(availablePool'[a]) <= Len(availablePool[a])
    BY <1>0, <2>1, WithoutShorter
  <2>3. Len(availablePool'[a]) \in Nat
    BY <1>0, <2>1, WithoutProperties
  <2>4. QED
    BY <1>0, <2>2, <2>3
<1>4. ASSUME NEW b \in Builder, RegisterPooled(b)
      PROVE  prov[b] = "created" /\ prov'[b] = "exit"
  BY <1>4 DEF RegisterPooled, TypeOK
<1>5. CASE DestroyAll
  BY <1>0, <1>5 DEF DestroyAll
<1>6. CASE UNCHANGED availablePool
  BY <1>0, <1>6
<1>7. ASSUME NEW c \in Client, Caller(c), ~\E x \in Arch : AcquirePooled(c, x),
             ~(DialFail(c) \/ ReleaseBuilder(c))
      PROVE  UNCHANGED availablePool
  BY <1>7 DEF Caller, AcquireEnqueue, SendSignal, Expire, Receive, TimeOut, DialOK
<1>8. TakeSignal \/ ScaleOnSignal \/ ScaleOnTick \/ Exit \/ UNCHANGED vars
        => UNCHANGED availablePool
  BY DEF TakeSignal, ScaleOnSignal, ScaleOnTick, Exit, vars
<1>9. ASSUME NEW b \in Builder, ~RegisterPooled(b),
             provisionBackground(b) \/ Destruction(b) \/ GrowIdle(b)
      PROVE  UNCHANGED availablePool
  BY <1>9 DEF provisionBackground, StartProvision, CreateOK, CreateFail,
     RegisterHandOff, EndProvision, Destruction, scheduleDestruction,
     DestroyReturns, GrowIdle
<1>10. QED
  BY <1>1, <1>2, <1>3, <1>4, <1>5, <1>6, <1>7, <1>8, <1>9
     DEF Next, maintenanceWorker, Exited, DialFail, ReleaseBuilder

\* No release takes a pool past MaxPoolSize, whatever it held before.
THEOREM OnlyProvisionOverfills == Spec => OverfullOnlyByProvision
<1>1. TypeOK /\ HomeInv /\ ArchInv /\ [Next]_vars =>
        [\A a \in Arch :
           Len(availablePool'[a]) > Len(availablePool[a])
             /\ Len(availablePool'[a]) > MaxPoolSize
           => \E b \in Builder : prov[b] = "created" /\ prov'[b] = "exit"]_vars
  BY GrowthStep
<1>2. QED
  BY <1>1, PoolAlways, PTL DEF Spec, OverfullOnlyByProvision

-----------------------------------------------------------------------------
(* Stranded builders *)

\* A builder in its destruction delay is still marked for it.
SleepingMarked == \A b \in sleeping : rec[b].status = "Destroying"

\* A tracked builder that a caller holds is active, also during the shutdown.
HeldActive ==
  \A c \in Client, b \in Builder :
    call[c].held = b /\ b \in builders => b \in activeBuilders

StrandInv == SleepingMarked /\ HeldActive

\* Every step keeps the marks and the active builders.
LEMMA StrandStep ==
  TypeOK /\ HomeInv /\ ArchInv /\ VMInv /\ StrandInv /\ [Next]_vars => StrandInv'
<1> SUFFICES ASSUME TypeOK, HomeInv, ArchInv, VMInv, StrandInv, [Next]_vars
             PROVE  StrandInv'
  OBVIOUS
<1> USE DEF poolVars, goVars, StrandInv
<1>a. sleeping \subseteq Builder
  BY DEF TypeOK
<1>b. \A x \in sleeping : ~InPool(x) /\ \A d \in Client : ~Has(d, x)
  BY DEF VMInv, DestroyInv, SleepingHomeless
<1>1. ASSUME NEW c \in Client, NEW a \in Arch, AcquirePooled(c, a) PROVE StrandInv'
  <2>1. PICK b \in Builder :
          /\ InPool(b) /\ call'[c].held = b
          /\ \A d \in Client \ {c} : call'[d] = call[d]
          /\ \A x \in Builder \ {b} : rec'[x] = rec[x]
          /\ activeBuilders' = activeBuilders \union {b}
    BY <1>1, AcquireMoves
  <2>2. UNCHANGED <<builders, sleeping>>
    BY <1>1 DEF AcquirePooled
  <2>3. QED
    BY <1>a, <1>b, <2>1, <2>2 DEF SleepingMarked, HeldActive
<1>2. ASSUME NEW c \in Client,
             \/ \E a \in Arch : AcquireEnqueue(c, a)
             \/ SendSignal(c) \/ Expire(c) \/ DialOK(c) \/ TimeOut(c)
      PROVE  StrandInv'
  <2>1. UNCHANGED <<builders, sleeping, rec, activeBuilders>>
    BY <1>2 DEF AcquireEnqueue, SendSignal, Expire, DialOK, TimeOut
  <2>2. \A x \in Builder, d \in Client : call'[d].held = x => call[d].held = x
    <3>1. CASE \E a \in Arch : AcquireEnqueue(c, a)
      BY <3>1, PoolAssumption DEF AcquireEnqueue, TypeOK, Idle
    <3>2. CASE SendSignal(c) \/ Expire(c) \/ DialOK(c)
      BY <3>2, CallerMoves
    <3>3. CASE TimeOut(c)
      BY <3>3, PoolAssumption DEF TimeOut, TypeOK, Idle
    <3>4. QED
      BY <1>2, <3>1, <3>2, <3>3
  <2>3. QED
    BY <2>1, <2>2 DEF SleepingMarked, HeldActive
<1>3. ASSUME NEW c \in Client, Receive(c) PROVE StrandInv'
  <2>1. /\ call[c].resp \in Builder /\ call'[c].held = call[c].resp
        /\ \A d \in Client \ {c} : call'[d] = call[d]
        /\ \A x \in Builder \ {call[c].resp} : rec'[x] = rec[x]
        /\ activeBuilders' = activeBuilders \union {call[c].resp}
    BY <1>3, CallerMoves
  <2>2. UNCHANGED <<builders, sleeping>> /\ call[c].resp \notin sleeping
    BY <1>3, <1>b DEF Receive, Has
  <2>3. QED
    BY <1>a, <2>1, <2>2 DEF SleepingMarked, HeldActive
<1>4. ASSUME NEW c \in Client, DialFail(c) \/ ReleaseBuilder(c) PROVE StrandInv'
  <2>1. /\ call[c].pc \in {"dial", "build"} /\ releaseBuilder(c)
        /\ UNCHANGED builders
    BY <1>4 DEF DialFail, ReleaseBuilder
  <2>2. PICK b \in Builder :
          /\ call[c].held = b /\ Has(c, b)
          /\ \/ /\ call'[c] = Idle /\ \A e \in Client \ {c} : call'[e] = call[e]
                /\ UNCHANGED <<activeBuilders, rec, sleeping>>
             \/ Gone(c, b) /\ (\E d \in Client : PassedOn(c, b, d)) /\ UNCHANGED sleeping
             \/ /\ Gone(c, b) /\ \A e \in Client \ {c} : call'[e] = call[e]
                /\ \/ UNCHANGED sleeping
                   \/ sleeping' = sleeping \union {b} /\ rec'[b].status = "Destroying"
    BY <2>1, ReleaseMoves
  <2>3. b \notin sleeping /\ \A d \in Client : Has(d, b) => d = c
    BY <1>b, <2>2 DEF HomeInv, OneHome, OneHolder
  <2>4. SleepingMarked'
    BY <1>a, <2>2, <2>3 DEF SleepingMarked, Gone
  <2>5. \A x \in Builder, d \in Client : call'[d].held = x => call[d].held = x /\ d # c
    BY <2>2, PoolAssumption DEF Gone, PassedOn, Idle
  <2>6. \A x \in Builder, d \in Client : call[d].held = x /\ d # c => x # b
    BY <2>3 DEF Has
  <2>7. HeldActive'
    BY <2>1, <2>2, <2>5, <2>6 DEF HeldActive, Gone
  <2>8. QED
    BY <2>4, <2>7
<1>5. CASE TakeSignal \/ ScaleOnSignal \/ ScaleOnTick \/ Exit \/ UNCHANGED vars
  BY <1>5 DEF TakeSignal, ScaleOnSignal, ScaleOnTick, Exit, vars, SleepingMarked,
     HeldActive
<1>6. CASE cleanupOldBuilders
  <2>1. /\ \A x \in Builder : rec'[x].status \in {rec[x].status, "Destroying"}
        /\ builders' \subseteq builders
        /\ UNCHANGED <<sleeping, activeBuilders, call>>
    BY <1>6 DEF cleanupOldBuilders, TypeOK, BuilderRec
  <2>2. QED
    BY <1>a, <2>1 DEF SleepingMarked, HeldActive
<1>7. ASSUME NEW b \in Builder, GrowIdle(b) PROVE StrandInv'
  <2>1. /\ \A x \in Builder : rec'[x].status = rec[x].status
        /\ UNCHANGED <<sleeping, activeBuilders, call, builders>>
    BY <1>7 DEF GrowIdle, TypeOK, BuilderRec
  <2>2. QED
    BY <1>a, <2>1 DEF SleepingMarked, HeldActive
<1>8. ASSUME NEW b \in Builder,
             \/ \E a \in Arch : StartProvision(a, b)
             \/ CreateOK(b) \/ CreateFail(b) \/ EndProvision(b)
      PROVE  StrandInv'
  <2>1. /\ UNCHANGED <<sleeping, activeBuilders, call, builders>>
        /\ \A x \in sleeping : rec'[x] = rec[x]
    BY <1>8, <1>a DEF StartProvision, Unused, CreateOK, CreateFail, EndProvision,
       TypeOK
  <2>2. QED
    BY <2>1 DEF SleepingMarked, HeldActive
<1>9. ASSUME NEW b \in Builder, RegisterHandOff(b) \/ RegisterPooled(b)
      PROVE  StrandInv'
  <2>1. /\ prov[b] = "created" /\ builders' = builders \union {b}
        /\ UNCHANGED <<sleeping, activeBuilders>>
        /\ \A x \in Builder \ {b} : rec'[x] = rec[x]
    BY <1>9 DEF RegisterHandOff, RegisterPooled, TypeOK
  <2>2. b \notin sleeping /\ \A d \in Client : ~Has(d, b)
    BY <2>1 DEF HomeInv, NewbornHomeless, Newborn
  <2>3. \A x \in Builder, d \in Client : call'[d].held = x => call[d].held = x
    BY <1>9, RegisterMoves, PoolAssumption DEF RegisterPooled
  <2>4. QED
    BY <1>a, <2>1, <2>2, <2>3 DEF SleepingMarked, HeldActive, Has
<1>10. ASSUME NEW b \in Builder, Destruction(b) PROVE StrandInv'
  <2>1. /\ sleeping' \subseteq sleeping /\ builders' \subseteq builders
        /\ UNCHANGED <<rec, activeBuilders, call>>
    BY <1>10 DEF Destruction, scheduleDestruction, DestroyReturns
  <2>2. QED
    BY <2>1 DEF SleepingMarked, HeldActive
<1>11. CASE DestroyAll
  BY <1>11 DEF DestroyAll, SleepingMarked, HeldActive
<1>12. QED
  BY <1>1, <1>2, <1>3, <1>4, <1>5, <1>6, <1>7, <1>8, <1>9, <1>10, <1>11
     DEF Next, Caller, maintenanceWorker, provisionBackground, Exited

\* Somebody can still find the builder: an acquire, its holder, or the
\* goroutine that will destroy it.
Housed(b) == InPool(b) \/ b \in sleeping \/ \E c \in Client : Has(c, b)

Keeps == \A x \in builders' : x \notin builders \/ Housed(x) => Housed(x)'

\* A step under which no tracked builder loses its last home strands nothing.
LEMMA KeepsStrands ==
  ASSUME TypeOK, builders' \subseteq Builder, Keeps
  PROVE  Stranded' \ Stranded = {}
BY DEF Keeps, Housed, Stranded

\* Every step but a timeout keeps a home for every tracked builder.
LEMMA KeepsStep ==
  ASSUME TypeOK, HomeInv, ArchInv, VMInv, StrandInv, [Next]_vars,
         ~\E c \in Client : TimeOut(c)
  PROVE  Keeps
<1> USE DEF poolVars, goVars
<1>a. builders \subseteq Builder /\ sleeping \subseteq Builder
  BY DEF TypeOK
<1>1. ASSUME NEW c \in Client, NEW a \in Arch, AcquirePooled(c, a) PROVE Keeps
  <2>1. PICK b \in Builder :
          /\ \A x \in Builder : InPool(x)' <=> InPool(x) /\ x # b
          /\ \A x \in Builder, d \in Client :
               Has(d, x)' <=> Has(d, x) \/ (d = c /\ x = b)
    BY <1>1, AcquireMoves
  <2>2. UNCHANGED <<builders, sleeping>>
    BY <1>1 DEF AcquirePooled
  <2>3. QED
    BY <1>a, <2>1, <2>2 DEF Keeps, Housed
<1>2. ASSUME NEW c \in Client,
             \/ \E a \in Arch : AcquireEnqueue(c, a)
             \/ SendSignal(c) \/ Expire(c) \/ DialOK(c) \/ Receive(c)
      PROVE  Keeps
  <2>1. SameHas
    BY <1>2, CallerMoves
  <2>2. UNCHANGED <<builders, sleeping, availablePool>>
    BY <1>2 DEF AcquireEnqueue, SendSignal, Expire, DialOK, Receive
  <2>3. \A x \in Builder : InPool(x)' <=> InPool(x)
    BY <2>2 DEF InPool
  <2>4. QED
    BY <1>a, <2>1, <2>2, <2>3 DEF Keeps, Housed, SameHas
<1>3. ASSUME NEW c \in Client, DialFail(c) \/ ReleaseBuilder(c) PROVE Keeps
  <2>1. /\ call[c].pc \in {"dial", "build"} /\ releaseBuilder(c)
        /\ UNCHANGED builders
    BY <1>3 DEF DialFail, ReleaseBuilder
  <2>2. PICK b \in Builder :
    /\ call[c].held = b /\ Has(c, b) /\ ~InPool(b) /\ call[c].resp = NoBuilder
    /\ \/ /\ b \notin activeBuilders /\ Leaves(c)
          /\ UNCHANGED <<availablePool, sleeping>>
       \/ /\ (\E d \in Client : PassedOn(c, b, d))
          /\ UNCHANGED <<availablePool, sleeping>>
       \/ /\ Leaves(c)
          /\ availablePool' = [availablePool EXCEPT ![rec[b].arch] = Append(@, b)]
          /\ UNCHANGED sleeping
       \/ /\ Leaves(c) /\ sleeping' = sleeping \union {b}
          /\ UNCHANGED availablePool
    BY <2>1, ReleaseMoves
  <2>3. \A x \in Builder : Has(c, x) => x = b
    BY <2>2, PoolAssumption DEF Has
  <2>4. UNCHANGED availablePool => \A x \in Builder : InPool(x)' <=> InPool(x)
    BY DEF InPool
  <2>5. CASE b \notin activeBuilders /\ Leaves(c) /\ UNCHANGED <<availablePool, sleeping>>
    <3>1. b \notin builders
      BY <2>2, <2>5 DEF StrandInv, HeldActive
    <3>2. QED
      BY <1>a, <2>1, <2>3, <2>4, <2>5, <3>1 DEF Keeps, Housed, Leaves
  <2>6. CASE (\E d \in Client : PassedOn(c, b, d)) /\ UNCHANGED <<availablePool, sleeping>>
    <3>1. PICK d \in Client : \A x \in Builder, e \in Client :
            Has(e, x)' <=> (Has(e, x) /\ e # c) \/ (e = d /\ x = b)
      BY <2>6 DEF PassedOn
    <3>2. QED
      BY <1>a, <2>1, <2>3, <2>4, <2>6, <3>1 DEF Keeps, Housed
  <2>7. CASE /\ Leaves(c) /\ UNCHANGED sleeping
             /\ availablePool' = [availablePool EXCEPT ![rec[b].arch] = Append(@, b)]
    <3>1. rec[b].arch \in Arch
      BY <2>2, HasArch
    <3>2. \A x \in Builder : InPool(x)' <=> InPool(x) \/ x = b
      BY <2>7, <3>1, PoolMoves
    <3>3. QED
      BY <1>a, <2>1, <2>3, <2>7, <3>2 DEF Keeps, Housed, Leaves
  <2>8. CASE Leaves(c) /\ sleeping' = sleeping \union {b} /\ UNCHANGED availablePool
    BY <1>a, <2>1, <2>3, <2>4, <2>8 DEF Keeps, Housed, Leaves
  <2>9. QED
    BY <2>2, <2>5, <2>6, <2>7, <2>8
<1>4. CASE UNCHANGED <<builders, sleeping, availablePool, call>>
  BY <1>4 DEF Keeps, Housed, InPool, Has
<1>5. TakeSignal \/ ScaleOnSignal \/ ScaleOnTick \/ Exit \/ UNCHANGED vars
        => UNCHANGED <<builders, sleeping, availablePool, call>>
  BY DEF TakeSignal, ScaleOnSignal, ScaleOnTick, Exit, vars
<1>6. CASE cleanupOldBuilders
  <2>1. PICK old \in SUBSET Builder :
          /\ \A x \in Builder : InPool(x)' <=> InPool(x) /\ x \notin old
          /\ builders' = builders \ old
    BY <1>6, CleanupMoves
  <2>2. SameHas /\ UNCHANGED sleeping
    BY <1>6, CleanupMoves DEF cleanupOldBuilders
  <2>3. QED
    BY <1>a, <2>1, <2>2 DEF Keeps, Housed, SameHas
<1>7. ASSUME NEW b \in Builder,
             \/ GrowIdle(b) \/ CreateOK(b) \/ CreateFail(b) \/ EndProvision(b)
             \/ \E a \in Arch : StartProvision(a, b)
             \/ \E k \in Destroyer : DestroyReturns(k, b)
      PROVE  UNCHANGED <<builders, sleeping, availablePool, call>>
  BY <1>7 DEF GrowIdle, CreateOK, CreateFail, EndProvision, StartProvision,
     DestroyReturns
<1>8. ASSUME NEW b \in Builder, RegisterHandOff(b) PROVE Keeps
  <2>1. PICK d \in Client : \A x \in Builder, e \in Client :
          Has(e, x)' <=> Has(e, x) \/ (e = d /\ x = b)
    BY <1>8, RegisterMoves
  <2>2. builders' = builders \union {b} /\ UNCHANGED <<sleeping, availablePool>>
    BY <1>8 DEF RegisterHandOff
  <2>3. \A x \in Builder : InPool(x)' <=> InPool(x)
    BY <2>2 DEF InPool
  <2>4. QED
    BY <1>a, <2>1, <2>2, <2>3 DEF Keeps, Housed
<1>9. ASSUME NEW b \in Builder, RegisterPooled(b) PROVE Keeps
  <2>1. /\ builders' = builders \union {b} /\ UNCHANGED sleeping
        /\ availablePool' = [availablePool EXCEPT ![rec[b].arch] = Append(@, b)]
        /\ rec[b].arch \in Arch
    BY <1>9 DEF RegisterPooled, ArchInv
  <2>2. SameHas
    BY <1>9, RegisterMoves
  <2>3. \A x \in Builder : InPool(x)' <=> InPool(x) \/ x = b
    BY <2>1, PoolMoves
  <2>4. QED
    BY <1>a, <2>1, <2>2, <2>3 DEF Keeps, Housed, SameHas
<1>10. ASSUME NEW b \in Builder, scheduleDestruction(b) PROVE Keeps
  <2>1. /\ builders' = builders \ {b} /\ sleeping' = sleeping \ {b}
        /\ UNCHANGED <<availablePool, call>>
    <3>1. rec[b].status = "Destroying"
      BY <1>10 DEF scheduleDestruction, StrandInv, SleepingMarked
    <3>2. QED
      BY <1>10, <3>1 DEF scheduleDestruction, StillToDestroy
  <2>2. \A x \in Builder : InPool(x)' <=> InPool(x)
    BY <2>1 DEF InPool
  <2>3. \A x \in Builder, d \in Client : Has(d, x)' <=> Has(d, x)
    BY <2>1 DEF Has
  <2>4. QED
    BY <1>a, <2>1, <2>2, <2>3 DEF Keeps, Housed
<1>11. CASE DestroyAll
  BY <1>11 DEF DestroyAll, Keeps
<1>12. QED
  BY <1>1, <1>2, <1>3, <1>4, <1>5, <1>6, <1>7, <1>8, <1>9, <1>10, <1>11
     DEF Next, Caller, maintenanceWorker, provisionBackground, Destruction, Exited

\* A timeout strands at most the builder in the response channel of the
\* caller whose context has expired.
LEMMA TimeOutStrands ==
  ASSUME TypeOK, HomeInv, NEW c \in Client, TimeOut(c), NEW b \in Stranded' \ Stranded
  PROVE  call[c].resp = b /\ call[c].expired
<1>1. /\ call[c].pc = "select" /\ call[c].expired
      /\ UNCHANGED <<builders, sleeping, availablePool>>
  BY DEF TimeOut
<1>2. b \in Builder /\ Leaves(c)
  BY <1>1, CallerMoves DEF Stranded, TypeOK
<1>3. InPool(b)' <=> InPool(b)
  BY <1>1 DEF InPool
<1>4. Has(c, b)
  BY <1>1, <1>2, <1>3 DEF Stranded, Leaves
<1>5. call[c].held = NoBuilder
  BY <1>1 DEF HomeInv, CallsOK
<1>6. QED
  BY <1>1, <1>2, <1>4, <1>5, PoolAssumption DEF Has

\* The race of a request's timeout with a handoff is the only way the pool
\* loses a builder, whatever releases, cleanups and a shutdown do meanwhile.
THEOREM TimeoutStrandsOnly == Spec => StrandedOnlyByTimeout
<1> DEFINE Inv == TypeOK /\ HomeInv /\ ArchInv /\ VMInv
<1>1. Init => StrandInv
  BY PoolAssumption DEF Init, NewPool, StrandInv, SleepingMarked, HeldActive
<1>2. Inv /\ StrandInv /\ [Next]_vars => StrandInv'
  BY StrandStep
<1>3. Inv /\ Inv' /\ StrandInv /\ [Next]_vars =>
        [\A b \in Stranded' \ Stranded :
           \E c \in Client : call[c].resp = b /\ call[c].expired]_vars
  <2> SUFFICES ASSUME Inv, TypeOK', StrandInv, [Next]_vars, NEW b \in Stranded' \ Stranded
               PROVE  \E c \in Client : call[c].resp = b /\ call[c].expired
    OBVIOUS
  <2>1. CASE \E c \in Client : TimeOut(c)
    BY <2>1, TimeOutStrands
  <2>2. CASE ~\E c \in Client : TimeOut(c)
    <3>1. Keeps
      BY <2>2, KeepsStep
    <3>2. builders' \subseteq Builder
      BY DEF TypeOK
    <3>3. QED
      BY <3>1, <3>2, KeepsStrands
  <2>3. QED
    BY <2>1, <2>2
<1>4. Spec => []Inv
  BY VMAlways
<1> HIDE DEF Inv
<1>5. QED
  BY <1>1, <1>2, <1>3, <1>4, PTL DEF Spec, StrandedOnlyByTimeout

-----------------------------------------------------------------------------
(* The pool as a lease service *)

\* Of the callers outside S none changes what it does, or what it leases.
KeepPhases(S) == \A d \in Client \ S : LeasePhase(d)' = LeasePhase(d)
KeepLeases(S) == \A d \in Client \ S : Leased(d)' = Leased(d)

SameService == (mode = "serving")' = (mode = "serving")

\* The parts of the mapping as functions of the caller, and after a step.
Phases == [d \in Client |-> LeasePhase(d)]
Leases == [d \in Client |-> Leased(d)]

LEMMA PhasesMove ==
  /\ KeepPhases({}) => Phases' = Phases
  /\ \A p : \A c \in Client : KeepPhases({c}) /\ LeasePhase(c)' = p
                            => Phases' = [Phases EXCEPT ![c] = p]
  BY DEF KeepPhases, Phases

LEMMA LeasesMove ==
  /\ KeepLeases({}) => Leases' = Leases
  /\ \A S : \A c \in Client : KeepLeases({c}) /\ Leased(c)' = S
                            => Leases' = [Leases EXCEPT ![c] = S]
  /\ \A S, T : \A c, d \in Client :
       KeepLeases({c, d}) /\ c # d /\ Leased(c)' = S /\ Leased(d)' = T
         => Leases' = [Leases EXCEPT ![c] = S, ![d] = T]
  BY DEF KeepLeases, Leases

\* Each action of the lease service, in terms of the pool.
LEMMA AskLease ==
  ASSUME NEW c \in Client, KeepPhases({c}), KeepLeases({}), Idling' = Idling,
         KnownUp' = KnownUp, SameService, LeasePhase(c) = "out",
         LeasePhase(c)' = "waiting", Leased(c) = {}
  PROVE  Lease!LeaseNext
<1>1. Phases' = [Phases EXCEPT ![c] = "waiting"] /\ Leases' = Leases
  BY PhasesMove, LeasesMove
<1>2. Phases[c] = "out" /\ Leases[c] = {}
  BY DEF Phases, Leases
<1>3. Lease!Ask(c)
  BY <1>1, <1>2 DEF Lease!Ask, Phases, Leases, SameService
<1>4. QED
  BY <1>3 DEF Lease!CallerStep, Lease!LeaseNext

LEMMA GrantLease ==
  ASSUME NEW c \in Client, NEW b \in Builder, KeepPhases({c}), KeepLeases({c}),
         b \in Idling, Idling' = Idling \ {b}, KnownUp' = KnownUp, SameService,
         LeasePhase(c) = "out", LeasePhase(c)' = "using", Leased(c) = {},
         Leased(c)' = {b}
  PROVE  Lease!LeaseNext
<1>1. Phases' = [Phases EXCEPT ![c] = "using"] /\ Leases' = [Leases EXCEPT ![c] = {b}]
  BY PhasesMove, LeasesMove
<1>2. Phases[c] = "out" /\ Leases[c] = {}
  BY DEF Phases, Leases
<1>3. Lease!Grant(c, b)
  BY <1>1, <1>2 DEF Lease!Grant, Phases, Leases, SameService
<1>4. QED
  BY <1>3 DEF Lease!CallerStep, Lease!LeaseNext

LEMMA TakeLease ==
  ASSUME NEW c \in Client, KeepPhases({c}), KeepLeases({}), Idling' = Idling,
         KnownUp' = KnownUp, SameService, LeasePhase(c) = "waiting",
         LeasePhase(c)' = "using", Leased(c) # {}
  PROVE  Lease!LeaseNext
<1>1. Phases' = [Phases EXCEPT ![c] = "using"] /\ Leases' = Leases
  BY PhasesMove, LeasesMove
<1>2. Phases[c] = "waiting" /\ Leases[c] # {}
  BY DEF Phases, Leases
<1>3. Lease!Take(c)
  BY <1>1, <1>2 DEF Lease!Take, Phases, Leases, SameService
<1>4. QED
  BY <1>3 DEF Lease!CallerStep, Lease!LeaseNext

LEMMA GiveUpLease ==
  ASSUME NEW c \in Client, KeepPhases({c}), KeepLeases({c}), Idling' = Idling,
         KnownUp' = KnownUp, SameService, LeasePhase(c) = "waiting",
         LeasePhase(c)' = "out", Leased(c)' = {}
  PROVE  Lease!LeaseNext
<1>1. Phases' = [Phases EXCEPT ![c] = "out"] /\ Leases' = [Leases EXCEPT ![c] = {}]
  BY PhasesMove, LeasesMove
<1>2. Phases[c] = "waiting"
  BY DEF Phases
<1>3. Lease!GiveUp(c)
  BY <1>1, <1>2 DEF Lease!GiveUp, Phases, Leases, SameService
<1>4. QED
  BY <1>3 DEF Lease!CallerStep, Lease!LeaseNext

LEMMA ReturnLease ==
  ASSUME NEW c \in Client, NEW b \in Builder, KeepPhases({c}),
         KnownUp' = KnownUp, SameService, LeasePhase(c) = "using",
         LeasePhase(c)' = "out", Leased(c) = {b}, Leased(c)' = {},
         \/ KeepLeases({c}) /\ Idling' \in {Idling, Idling \union {b}}
         \/ \E d \in Client :
              /\ d # c /\ KeepLeases({c, d}) /\ Idling' = Idling
              /\ LeasePhase(d) = "waiting" /\ Leased(d) = {} /\ Leased(d)' = {b}
  PROVE  Lease!LeaseNext
<1>1. Phases' = [Phases EXCEPT ![c] = "out"]
  BY PhasesMove
<1>2. Phases[c] = "using" /\ Leases[c] = {b}
  BY DEF Phases, Leases
<1>3. \/ Leases' = [Leases EXCEPT ![c] = {}] /\ Idling' \in {Idling, Idling \union {b}}
      \/ \E d \in Client :
           /\ Phases[d] = "waiting" /\ Leases[d] = {}
           /\ Leases' = [Leases EXCEPT ![c] = {}, ![d] = {b}]
           /\ Idling' = Idling
  <2>1. CASE KeepLeases({c}) /\ Idling' \in {Idling, Idling \union {b}}
    BY <2>1, LeasesMove
  <2>2. ASSUME NEW d \in Client, d # c, KeepLeases({c, d}), Idling' = Idling,
               LeasePhase(d) = "waiting", Leased(d) = {}, Leased(d)' = {b}
        PROVE  /\ Phases[d] = "waiting" /\ Leases[d] = {}
               /\ Leases' = [Leases EXCEPT ![c] = {}, ![d] = {b}]
    <3>1. Leases' = [Leases EXCEPT ![c] = {}, ![d] = {b}]
      BY <2>2, LeasesMove
    <3>2. QED
      BY <2>2, <3>1 DEF Phases, Leases
  <2>3. QED
    BY <2>1, <2>2
<1>4. Lease!Return(c, b)
  BY <1>1, <1>2, <1>3 DEF Lease!Return, Lease!Waits, Phases, Leases, SameService
<1>5. QED
  BY <1>4 DEF Lease!CallerStep, Lease!LeaseNext

LEMMA BootLease ==
  ASSUME NEW b \in Builder, KeepPhases({}), SameService,
         b \notin KnownUp, b \notin Idling, KnownUp' = KnownUp \union {b},
         \A c \in Client : b \notin Leased(c),
         \/ KeepLeases({}) /\ Idling' \in {Idling, Idling \union {b}}
         \/ \E d \in Client :
              /\ KeepLeases({d}) /\ Idling' = Idling
              /\ LeasePhase(d) = "waiting" /\ Leased(d) = {} /\ Leased(d)' = {b}
  PROVE  Lease!LeaseNext
<1>1. Phases' = Phases
  BY PhasesMove
<1>2. \A c \in Client : b \notin Leases[c]
  BY DEF Leases
<1>3. \/ Leases' = Leases /\ Idling' \in {Idling, Idling \union {b}}
      \/ \E d \in Client :
           /\ Phases[d] = "waiting" /\ Leases[d] = {}
           /\ Leases' = [Leases EXCEPT ![d] = {b}]
           /\ Idling' = Idling
  BY LeasesMove DEF Phases, Leases
<1>4. Lease!Boot(b)
  BY <1>1, <1>2, <1>3
     DEF Lease!Boot, Lease!Unleased, Lease!Waits, Phases, Leases, SameService
<1>5. QED
  BY <1>4 DEF Lease!LeaseNext

LEMMA RemoveLease ==
  ASSUME NEW b \in Builder, KeepPhases({}), KeepLeases({}), SameService,
         b \in KnownUp, Idling' = Idling, KnownUp' = KnownUp \ {b},
         mode = "serving" => b \notin Idling /\ \A c \in Client : b \notin Leased(c)
  PROVE  Lease!LeaseNext
<1>1. Phases' = Phases /\ Leases' = Leases
  BY PhasesMove, LeasesMove
<1>2. Lease!Remove(b)
  BY <1>1 DEF Lease!Remove, Lease!Unleased, Phases, Leases, SameService
<1>3. QED
  BY <1>2 DEF Lease!LeaseNext

LEMMA WithdrawLease ==
  ASSUME KeepPhases({}), KeepLeases({}), KnownUp' = KnownUp,
         \/ SameService /\ Idling' \subseteq Idling
         \/ mode = "serving" /\ mode' # "serving" /\ Idling' = {}
  PROVE  Lease!LeaseNext
<1>1. Phases' = Phases /\ Leases' = Leases
  BY PhasesMove, LeasesMove
<1>2. Lease!Withdraw \/ Lease!Close
  BY <1>1 DEF Lease!Withdraw, Lease!Close, Phases, Leases, SameService
<1>3. QED
  BY <1>2 DEF Lease!LeaseNext

LEMMA SilentLease ==
  ASSUME KeepPhases({}), KeepLeases({}), KnownUp' = KnownUp, Idling' = Idling,
         SameService
  PROVE  UNCHANGED Lease!leaseVars
<1>1. Phases' = Phases /\ Leases' = Leases
  BY PhasesMove, LeasesMove
<1>2. QED
  BY <1>1 DEF Lease!leaseVars, Phases, Leases, SameService

\* What a caller leases is what it has; a caller without a builder in its
\* channel or hands leases nothing.
LEMMA LeasedIs ==
  /\ \A d \in Client : (\A x \in Builder : Has(d, x)' <=> Has(d, x)) => Leased(d)' = Leased(d)
  /\ \A d \in Client : (\A x \in Builder : ~Has(d, x)) => Leased(d) = {}
  /\ \A d \in Client : (\A x \in Builder : ~Has(d, x)') => Leased(d)' = {}
  /\ \A d \in Client, b \in Builder :
       (\A x \in Builder : Has(d, x) <=> x = b) => Leased(d) = {b}
  /\ \A d \in Client, b \in Builder :
       (\A x \in Builder : Has(d, x)' <=> x = b) => Leased(d)' = {b}
  BY DEF Leased

LEMMA PhaseIs ==
  /\ \A d \in Client : call'[d].pc = call[d].pc => LeasePhase(d)' = LeasePhase(d)
  /\ \A d \in Client : call[d].pc = "idle" => LeasePhase(d) = "out"
  /\ \A d \in Client : call[d].pc \in {"signal", "select"} => LeasePhase(d) = "waiting"
  /\ \A d \in Client : call[d].pc \in {"dial", "build"} => LeasePhase(d) = "using"
  /\ \A d \in Client : call'[d].pc = "idle" => LeasePhase(d)' = "out"
  /\ \A d \in Client : call'[d].pc \in {"signal", "select"} => LeasePhase(d)' = "waiting"
  /\ \A d \in Client : call'[d].pc \in {"dial", "build"} => LeasePhase(d)' = "using"
  BY DEF LeasePhase

LEMMA IdlingIs ==
  /\ (\A x \in Builder : InPool(x)' <=> InPool(x)) => Idling' = Idling
  /\ availablePool' = availablePool => Idling' = Idling
  /\ \A b \in Builder : (\A x \in Builder : InPool(x)' <=> InPool(x) \/ x = b)
                          => Idling' = Idling \union {b}
  /\ \A b \in Builder : (\A x \in Builder : InPool(x)' <=> InPool(x) /\ x # b)
                          => Idling' = Idling \ {b}
  /\ (\A x \in Builder : InPool(x)' => InPool(x)) => Idling' \subseteq Idling
  /\ (\A x \in Builder : ~InPool(x)') => Idling' = {}
  BY DEF Idling, InPool

LEMMA CallSame == call' = call => KeepPhases({}) /\ KeepLeases({})
  BY LeasedIs, PhaseIs DEF KeepPhases, KeepLeases, Has

\* The steps of a caller.
LEMMA LeaseCallerStep ==
  ASSUME TypeOK, HomeInv, ArchInv, NEW c \in Client, Caller(c)
  PROVE  [Lease!LeaseNext]_(Lease!leaseVars)
<1>1. \A d \in Client, x \in Builder : Has(d, x) => call[d].resp = x \/ call[d].held = x
  BY DEF Has
<1>2. ASSUME NEW a \in Arch, AcquirePooled(c, a)
      PROVE  Lease!LeaseNext
  <2>1. PICK b \in Builder :
          /\ InPool(b)
          /\ \A x \in Builder : InPool(x)' <=> InPool(x) /\ x # b
          /\ \A x \in Builder, d \in Client :
               Has(d, x)' <=> Has(d, x) \/ (d = c /\ x = b)
          /\ \A d \in Client \ {c} : call'[d] = call[d]
    BY <1>2, AcquireMoves
  <2>2. /\ UNCHANGED <<vm, prov, mode>> /\ call[c].resp = NoBuilder
        /\ call[c].held = NoBuilder /\ call[c].pc = "idle" /\ call'[c].pc = "dial"
    BY <1>2 DEF AcquirePooled, HomeInv, CallsOK, TypeOK, Idle
  <2>3. \A x \in Builder : ~Has(c, x)
    BY <2>2, PoolAssumption DEF Has
  <2>4. Leased(c) = {} /\ Leased(c)' = {b} /\ KeepLeases({c})
    BY <2>1, <2>3, LeasedIs DEF KeepLeases
  <2>5. LeasePhase(c) = "out" /\ LeasePhase(c)' = "using" /\ KeepPhases({c})
    BY <2>1, <2>2, PhaseIs DEF KeepPhases
  <2>6. b \in Idling /\ Idling' = Idling \ {b}
    BY <2>1, IdlingIs DEF Idling
  <2>7. KnownUp' = KnownUp /\ SameService
    BY <2>2 DEF KnownUp, SameService
  <2>8. QED
    BY <2>4, <2>5, <2>6, <2>7, GrantLease
<1>3. ASSUME NEW a \in Arch, AcquireEnqueue(c, a)
      PROVE  Lease!LeaseNext
  <2>1. SameHas /\ \A d \in Client \ {c} : call'[d] = call[d]
    BY <1>3, CallerMoves
  <2>2. /\ UNCHANGED <<availablePool, vm, prov, mode>> /\ call[c].resp = NoBuilder
        /\ call[c].held = NoBuilder /\ call[c].pc = "idle" /\ call'[c].pc = "signal"
    BY <1>3 DEF AcquireEnqueue, HomeInv, CallsOK, TypeOK, Idle
  <2>3. Leased(c) = {} /\ KeepLeases({})
    BY <2>1, <2>2, LeasedIs, PoolAssumption DEF KeepLeases, SameHas, Has
  <2>4. LeasePhase(c) = "out" /\ LeasePhase(c)' = "waiting" /\ KeepPhases({c})
    BY <2>1, <2>2, PhaseIs DEF KeepPhases
  <2>5. KnownUp' = KnownUp /\ SameService /\ Idling' = Idling
    BY <2>2, IdlingIs DEF KnownUp, SameService
  <2>6. QED
    BY <2>3, <2>4, <2>5, AskLease
<1>4. ASSUME SendSignal(c) \/ Expire(c) \/ DialOK(c)
      PROVE  UNCHANGED Lease!leaseVars
  <2>1. SameHas
    BY <1>4, CallerMoves
  <2>2. UNCHANGED <<availablePool, vm, prov, mode>>
    BY <1>4 DEF SendSignal, Expire, DialOK, poolVars
  <2>3. /\ \A d \in Client \ {c} : call'[d] = call[d]
        /\ \/ call[c].pc \in {"signal", "select"} /\ call'[c].pc \in {"signal", "select"}
           \/ call[c].pc \in {"dial", "build"} /\ call'[c].pc \in {"dial", "build"}
    BY <1>4 DEF SendSignal, Expire, DialOK, TypeOK, Call
  <2>4. KeepPhases({})
    BY <2>3, PhaseIs DEF KeepPhases
  <2>5. KeepLeases({})
    BY <2>1, LeasedIs DEF KeepLeases, SameHas
  <2>6. KnownUp' = KnownUp /\ SameService /\ Idling' = Idling
    BY <2>2, IdlingIs DEF KnownUp, SameService
  <2>7. QED
    BY <2>4, <2>5, <2>6, SilentLease
<1>5. ASSUME Receive(c)
      PROVE  Lease!LeaseNext
  <2>1. SameHas /\ call[c].resp \in Builder /\ \A d \in Client \ {c} : call'[d] = call[d]
    BY <1>5, CallerMoves
  <2>2. /\ UNCHANGED <<availablePool, vm, prov, mode>>
        /\ call[c].pc = "select" /\ call'[c].pc = "dial"
    BY <1>5 DEF Receive, TypeOK, Idle
  <2>3. Leased(c) # {} /\ KeepLeases({})
    <3>1. Has(c, call[c].resp)
      BY DEF Has
    <3>2. call[c].resp \in Leased(c)
      BY <2>1, <3>1 DEF Leased
    <3>3. QED
      BY <2>1, <3>2, LeasedIs DEF KeepLeases, SameHas
  <2>4. LeasePhase(c) = "waiting" /\ LeasePhase(c)' = "using" /\ KeepPhases({c})
    BY <2>1, <2>2, PhaseIs DEF KeepPhases
  <2>5. KnownUp' = KnownUp /\ SameService /\ Idling' = Idling
    BY <2>2, IdlingIs DEF KnownUp, SameService
  <2>6. QED
    BY <2>3, <2>4, <2>5, TakeLease
<1>6. ASSUME TimeOut(c)
      PROVE  Lease!LeaseNext
  <2>1. Leaves(c) /\ call'[c] = Idle /\ \A d \in Client \ {c} : call'[d] = call[d]
    BY <1>6, CallerMoves
  <2>2. /\ UNCHANGED <<availablePool, vm, prov, mode>>
        /\ call[c].pc = "select" /\ call'[c].pc = "idle"
    BY <1>6, <2>1 DEF TimeOut, Idle
  <2>3. Leased(c)' = {} /\ KeepLeases({c})
    BY <2>1, LeasedIs DEF KeepLeases, Leaves
  <2>4. LeasePhase(c) = "waiting" /\ LeasePhase(c)' = "out" /\ KeepPhases({c})
    BY <2>1, <2>2, PhaseIs DEF KeepPhases
  <2>5. KnownUp' = KnownUp /\ SameService /\ Idling' = Idling
    BY <2>2, IdlingIs DEF KnownUp, SameService
  <2>6. QED
    BY <2>3, <2>4, <2>5, GiveUpLease
<1>7. ASSUME DialFail(c) \/ ReleaseBuilder(c)
      PROVE  Lease!LeaseNext
  <2>1. /\ call[c].pc \in {"dial", "build"} /\ releaseBuilder(c)
        /\ UNCHANGED <<vm, prov, mode>>
    BY <1>7 DEF DialFail, ReleaseBuilder
  <2>2. PICK b \in Builder :
    /\ call[c].held = b /\ Has(c, b) /\ call[c].resp = NoBuilder
    /\ \/ /\ Leaves(c) /\ call'[c] = Idle /\ UNCHANGED availablePool
          /\ \A e \in Client \ {c} : call'[e] = call[e]
       \/ (\E d \in Client : PassedOn(c, b, d)) /\ call'[c] = Idle /\ UNCHANGED availablePool
       \/ /\ Leaves(c) /\ call'[c] = Idle
          /\ \A e \in Client \ {c} : call'[e] = call[e]
          /\ availablePool' = [availablePool EXCEPT ![rec[b].arch] = Append(@, b)]
    BY <2>1, ReleaseMoves DEF Gone
  <2>3. Leased(c) = {b} /\ LeasePhase(c) = "using"
    <3>1. \A x \in Builder : Has(c, x) <=> x = b
      BY <2>2, PoolAssumption DEF Has
    <3>2. QED
      BY <2>1, <3>1, LeasedIs, PhaseIs
  <2>4. KnownUp' = KnownUp /\ SameService
    BY <2>1 DEF KnownUp, SameService
  <2>5. call'[c].pc = "idle" /\ LeasePhase(c)' = "out"
    BY <2>2, PhaseIs DEF Idle
  <2>6. CASE Leaves(c) /\ \A e \in Client \ {c} : call'[e] = call[e]
    <3>1. Leased(c)' = {} /\ KeepLeases({c})
      BY <2>6, LeasedIs DEF KeepLeases, Leaves
    <3>2. KeepPhases({c})
      BY <2>6, PhaseIs DEF KeepPhases
    <3>3. Idling' \in {Idling, Idling \union {b}}
      <4>1. CASE UNCHANGED availablePool
        BY <4>1, IdlingIs
      <4>2. CASE availablePool' = [availablePool EXCEPT ![rec[b].arch] = Append(@, b)]
        <5>1. rec[b].arch \in Arch
          BY <2>2, HasArch
        <5>2. \A x \in Builder : InPool(x)' <=> InPool(x) \/ x = b
          BY <4>2, <5>1, PoolMoves
        <5>3. QED
          BY <5>2, IdlingIs
      <4>3. QED
        BY <2>2, <4>1, <4>2
    <3>4. QED
      BY <2>3, <2>4, <2>5, <3>1, <3>2, <3>3, ReturnLease
  <2>7. ASSUME NEW d \in Client, PassedOn(c, b, d), UNCHANGED availablePool
        PROVE  Lease!LeaseNext
    <3>1. /\ d # c /\ call[d].pc \in {"signal", "select"} /\ call'[d].pc = call[d].pc
          /\ call[d].resp = NoBuilder /\ call[d].held = NoBuilder
          /\ \A e \in Client \ {c, d} : call'[e] = call[e]
          /\ \A x \in Builder, e \in Client :
               Has(e, x)' <=> (Has(e, x) /\ e # c) \/ (e = d /\ x = b)
      BY <2>7 DEF PassedOn
    <3>2. \A x \in Builder : ~Has(d, x)
      BY <3>1, PoolAssumption DEF Has
    <3>3. Leased(c)' = {} /\ Leased(d) = {} /\ Leased(d)' = {b} /\ KeepLeases({c, d})
      BY <3>1, <3>2, LeasedIs DEF KeepLeases
    <3>4. LeasePhase(d) = "waiting" /\ KeepPhases({c})
      BY <3>1, PhaseIs DEF KeepPhases
    <3>5. Idling' = Idling
      BY <2>7, IdlingIs
    <3>6. QED
      BY <2>3, <2>4, <2>5, <3>1, <3>3, <3>4, <3>5, ReturnLease
  <2>8. QED
    BY <2>2, <2>6, <2>7
<1>8. QED
  BY <1>2, <1>3, <1>4, <1>5, <1>6, <1>7 DEF Caller

\* The steps of the goroutines that create VMs.
LEMMA LeaseProvisionStep ==
  ASSUME TypeOK, HomeInv, ArchInv, VMInv, NEW b \in Builder, provisionBackground(b)
  PROVE  [Lease!LeaseNext]_(Lease!leaseVars)
<1>1. ASSUME \/ \E a \in Arch : StartProvision(a, b)
             \/ CreateOK(b) \/ CreateFail(b) \/ EndProvision(b)
      PROVE  [Lease!LeaseNext]_(Lease!leaseVars)
  <2>1. /\ UNCHANGED <<availablePool, call, mode>>
        /\ \A x \in Builder \ {b} : vm'[x] = vm[x] /\ prov'[x] = prov[x]
    BY <1>1 DEF StartProvision, CreateOK, CreateFail, EndProvision, poolVars, TypeOK
  <2>2. KeepPhases({}) /\ KeepLeases({}) /\ Idling' = Idling /\ SameService
    BY <2>1, CallSame, IdlingIs DEF SameService
  <2>3. CASE CreateFail(b)
    <3>1. b \notin KnownUp /\ KnownUp' \in {KnownUp, KnownUp \union {b}}
      BY <2>1, <2>3 DEF CreateFail, KnownUp
    <3>2. Newborn(b)
      BY <2>3 DEF CreateFail, Newborn
    <3>3. b \notin Idling /\ \A c \in Client : b \notin Leased(c)
      BY <3>2 DEF HomeInv, NewbornHomeless, Idling, Leased
    <3>4. CASE KnownUp' = KnownUp \union {b}
      BY <2>2, <3>1, <3>3, <3>4, BootLease
    <3>5. CASE KnownUp' = KnownUp
      BY <2>2, <3>5, SilentLease
    <3>6. QED
      BY <3>1, <3>4, <3>5
  <2>4. CASE ~CreateFail(b)
    <3>1. (b \in KnownUp)' <=> b \in KnownUp
      BY <1>1, <2>1, <2>4 DEF StartProvision, Unused, CreateOK, EndProvision, KnownUp, TypeOK
    <3>2. KnownUp' = KnownUp
      BY <2>1, <3>1 DEF KnownUp
    <3>3. QED
      BY <2>2, <3>2, SilentLease
  <2>5. QED
    BY <2>3, <2>4
<1>2. ASSUME RegisterHandOff(b) \/ RegisterPooled(b)
      PROVE  Lease!LeaseNext
  <2>1. /\ prov[b] = "created" /\ prov'[b] = "exit" /\ UNCHANGED <<vm, mode>>
        /\ \A x \in Builder \ {b} : prov'[x] = prov[x]
    BY <1>2 DEF RegisterHandOff, RegisterPooled, TypeOK
  <2>2. b \notin Idling /\ \A c \in Client : b \notin Leased(c)
    BY <2>1 DEF HomeInv, NewbornHomeless, Newborn, Idling, Leased
  <2>3. SameService /\ b \notin KnownUp /\ KnownUp' = KnownUp \union {b}
    <3>1. vm[b] = "up"
      BY <2>1 DEF VMInv, CreatedUp
    <3>2. QED
      BY <2>1, <3>1 DEF KnownUp, SameService
  <2>4. CASE RegisterHandOff(b)
    <3>1. PICK d \in Client :
            /\ call[d].pc \in {"signal", "select"} /\ call'[d].pc = call[d].pc
            /\ call[d].resp = NoBuilder /\ call[d].held = NoBuilder
            /\ \A e \in Client \ {d} : call'[e] = call[e]
            /\ \A x \in Builder, e \in Client :
                 Has(e, x)' <=> Has(e, x) \/ (e = d /\ x = b)
      BY <2>4, RegisterMoves
    <3>2. \A x \in Builder : ~Has(d, x)
      BY <3>1, PoolAssumption DEF Has
    <3>3. KeepPhases({}) /\ LeasePhase(d) = "waiting"
      BY <3>1, PhaseIs DEF KeepPhases
    <3>4. KeepLeases({d}) /\ Leased(d) = {} /\ Leased(d)' = {b}
      BY <3>1, <3>2, LeasedIs DEF KeepLeases
    <3>5. Idling' = Idling
      BY <2>4, IdlingIs DEF RegisterHandOff
    <3>6. QED
      BY <2>2, <2>3, <3>3, <3>4, <3>5, BootLease
  <2>5. CASE RegisterPooled(b)
    <3>1. rec[b].arch \in Arch
      BY <2>1 DEF ArchInv
    <3>2. \A x \in Builder : InPool(x)' <=> InPool(x) \/ x = b
      BY <2>5, <3>1, PoolMoves DEF RegisterPooled
    <3>3. Idling' = Idling \union {b}
      BY <3>2, IdlingIs
    <3>4. KeepPhases({}) /\ KeepLeases({})
      BY <2>5, CallSame DEF RegisterPooled
    <3>5. QED
      BY <2>2, <2>3, <3>3, <3>4, BootLease
  <2>6. QED
    BY <1>2, <2>4, <2>5
<1>3. QED
  BY <1>1, <1>2 DEF provisionBackground

\* Destroy returns: while the pool serves, its VM is in no home.
LEMMA LeaseDestroyStep ==
  ASSUME TypeOK, HomeInv, VMInv, NEW b \in Builder, NEW k \in Destroyer,
         DestroyReturns(k, b)
  PROVE  [Lease!LeaseNext]_(Lease!leaseVars)
<1>1. /\ UNCHANGED <<availablePool, call, mode, prov>> /\ <<k, b>> \in destroyGo
      /\ \A x \in Builder \ {b} : vm'[x] = vm[x]
  BY DEF DestroyReturns, poolVars, TypeOK
<1>2. KeepPhases({}) /\ KeepLeases({}) /\ Idling' = Idling /\ SameService
  BY <1>1, CallSame, IdlingIs DEF SameService
<1>3. BeingDestroyed(b) /\ vm[b] = "up"
  BY <1>1 DEF BeingDestroyed, VMInv, DestroyInv, DestroyOnce
<1>4. KnownUp' = KnownUp \/ (b \in KnownUp /\ KnownUp' = KnownUp \ {b})
  <2>1. ~Newborn(b)
    BY <1>3 DEF HomeInv, NewbornHomeless
  <2>2. b \in KnownUp
    BY <1>3, <2>1 DEF Newborn, KnownUp
  <2>3. \A x \in Builder \ {b} : (x \in KnownUp)' <=> x \in KnownUp
    BY <1>1 DEF KnownUp
  <2>4. KnownUp \subseteq Builder /\ KnownUp' \subseteq Builder
    BY DEF KnownUp
  <2>5. QED
    BY <2>2, <2>3, <2>4
<1>5. CASE KnownUp' = KnownUp
  BY <1>2, <1>5, SilentLease
<1>6. CASE b \in KnownUp /\ KnownUp' = KnownUp \ {b}
  <2>1. mode = "serving" => b \notin Idling /\ \A c \in Client : b \notin Leased(c)
    BY <1>3 DEF VMInv, DestroyInv, TrackedUp, ServingTracked, Idling, Leased
  <2>2. QED
    BY <1>2, <1>6, <2>1, RemoveLease
<1>7. QED
  BY <1>4, <1>5, <1>6

\* Every step of the pool is a step of the lease service, or none.
LEMMA LeaseStep ==
  TypeOK /\ HomeInv /\ ArchInv /\ VMInv /\ [Next]_vars
    => [Lease!LeaseNext]_(Lease!leaseVars)
<1> SUFFICES ASSUME TypeOK, HomeInv, ArchInv, VMInv, [Next]_vars
             PROVE  [Lease!LeaseNext]_(Lease!leaseVars)
  OBVIOUS
<1> USE DEF poolVars, goVars
<1>1. ASSUME \/ TakeSignal \/ ScaleOnSignal \/ ScaleOnTick \/ Exit \/ UNCHANGED vars
             \/ \E b \in Builder : GrowIdle(b) \/ scheduleDestruction(b)
      PROVE  UNCHANGED Lease!leaseVars
  <2>1. UNCHANGED <<availablePool, call, vm, prov>>
    BY <1>1 DEF TakeSignal, ScaleOnSignal, ScaleOnTick, Exit, vars, GrowIdle,
       scheduleDestruction
  <2>2. SameService
    BY <1>1 DEF TakeSignal, ScaleOnSignal, ScaleOnTick, Exit, vars, GrowIdle,
       scheduleDestruction, SameService
  <2>3. KnownUp' = KnownUp
    BY <2>1 DEF KnownUp
  <2>4. QED
    BY <2>1, <2>2, <2>3, CallSame, IdlingIs, SilentLease
<1>2. CASE cleanupOldBuilders
  <2>1. \A x \in Builder : InPool(x)' => InPool(x)
    BY <1>2, CleanupMoves
  <2>2. UNCHANGED <<call, vm, prov, mode>>
    BY <1>2 DEF cleanupOldBuilders
  <2>3. KnownUp' = KnownUp /\ SameService
    BY <2>2 DEF KnownUp, SameService
  <2>4. QED
    BY <2>1, <2>2, <2>3, CallSame, IdlingIs, WithdrawLease
<1>3. CASE DestroyAll
  <2>1. /\ mode = "serving" /\ mode' # "serving" /\ UNCHANGED <<call, vm, prov>>
        /\ \A x \in Builder : ~InPool(x)'
    BY <1>3 DEF DestroyAll, InPool, ToSet
  <2>2. KnownUp' = KnownUp
    BY <2>1 DEF KnownUp
  <2>3. QED
    BY <2>1, <2>2, CallSame, IdlingIs, WithdrawLease
<1>4. QED
  BY <1>1, <1>2, <1>3, LeaseCallerStep, LeaseProvisionStep, LeaseDestroyStep
     DEF Next, maintenanceWorker, Destruction, Exited

\* The pool implements the lease service: for any number of callers, VMs and
\* architectures no interleaving leases a builder twice, and before the
\* shutdown none takes it, or its VM, from the caller that has it.
THEOREM PoolImplementsLease == Spec => ImplementsLease
<1>1. Init => Lease!LeaseInit
  <2> SUFFICES ASSUME Init PROVE Lease!LeaseInit
    OBVIOUS
  <2>1. \A b \in Builder : ~InPool(b) /\ \A c \in Client : ~Has(c, b)
    BY PoolAssumption DEF Init, NewPool, InPool, ToSet, Has, Idle
  <2>2. /\ \A c \in Client : LeasePhase(c) = "out" /\ Leased(c) = {}
        /\ Idling = {} /\ KnownUp = {}
    <3>1. \A c \in Client : call[c].pc = "idle"
      BY DEF Init, Idle
    <3>2. QED
      BY <2>1, <3>1, PhaseIs, LeasedIs DEF Init, Idling, KnownUp
  <2>3. mode = "serving"
    BY DEF Init
  <2>4. QED
    BY <2>2, <2>3 DEF Lease!LeaseInit
<1>2. QED
  BY <1>1, LeaseStep, VMAlways, PTL
     DEF Spec, ImplementsLease, Lease!LeaseSpec

\* The guarantees of the lease service, with the functions of the mapping named.
LeasesOK ==
  /\ mode = "serving" => Idling \subseteq KnownUp
  /\ \A c, d \in Client : c # d => Leases[c] \intersect Leases[d] = {}
  /\ \A c \in Client :
       /\ Leases[c] \intersect Idling = {}
       /\ \A b1, b2 \in Leases[c] : b1 = b2
       /\ Phases[c] = "out" => Leases[c] = {}
       /\ Phases[c] = "using" => Leases[c] # {}
       /\ mode = "serving" => Leases[c] \subseteq KnownUp

LEMMA LeasesOKIs == (LeasesOK <=> Lease!LeaseOK) /\ (LeasesOK' <=> Lease!LeaseOK')
  BY DEF LeasesOK, Lease!LeaseOK, Phases, Leases

\* A caller that ends its lease, and the one that gets it.
LEMMA LeaseEnds ==
  ASSUME LeasesOK, NEW c \in Client, NEW b \in Builder, Lease!Return(c, b)
  PROVE  LeasesOK'
<1>1. /\ Phases[c] = "using" /\ Leases[c] = {b} /\ KnownUp' = KnownUp
      /\ Phases' = [Phases EXCEPT ![c] = "out"] /\ (mode = "serving")' = (mode = "serving")
      /\ \/ Leases' = [Leases EXCEPT ![c] = {}] /\ Idling' \in {Idling, Idling \union {b}}
         \/ \E d \in Client : /\ Phases[d] = "waiting" /\ Leases[d] = {}
                              /\ Leases' = [Leases EXCEPT ![c] = {}, ![d] = {b}]
                              /\ Idling' = Idling
  BY DEF Lease!Return, Lease!Waits, Phases, Leases
<1>2. DOMAIN Phases = Client /\ DOMAIN Leases = Client
  BY DEF Phases, Leases
<1>3. CASE Leases' = [Leases EXCEPT ![c] = {}] /\ Idling' \in {Idling, Idling \union {b}}
  <2>1. \A d \in Client : /\ Leases'[d] = IF d = c THEN {} ELSE Leases[d]
                          /\ Phases'[d] = IF d = c THEN "out" ELSE Phases[d]
    BY <1>1, <1>2, <1>3 DEF Phases, Leases
  <2>2. \A d \in Client \ {c} : b \notin Leases[d]
    BY <1>1 DEF LeasesOK
  <2>3. QED
    BY <1>1, <1>3, <2>1, <2>2 DEF LeasesOK
<1>4. ASSUME NEW d \in Client, Phases[d] = "waiting", Leases[d] = {},
             Leases' = [Leases EXCEPT ![c] = {}, ![d] = {b}], Idling' = Idling
      PROVE  LeasesOK'
  <2>1. \A e \in Client : /\ Leases'[e] = IF e = d THEN {b} ELSE IF e = c THEN {} ELSE Leases[e]
                          /\ Phases'[e] = IF e = c THEN "out" ELSE Phases[e]
    BY <1>1, <1>4 DEF Phases, Leases
  <2>2. c # d /\ \A e \in Client \ {c} : b \notin Leases[e]
    BY <1>1, <1>4 DEF LeasesOK
  <2>3. /\ b \notin Idling /\ (mode = "serving" => b \in KnownUp)
        /\ KnownUp' = KnownUp /\ Idling' = Idling
        /\ ((mode = "serving")' => mode = "serving")
    BY <1>1, <1>4 DEF LeasesOK
  <2>4. \A e, g \in Client : e # g => Leases'[e] \intersect Leases'[g] = {}
    BY <2>1, <2>2 DEF LeasesOK
  <2>5. /\ Leases'[d] = {b} /\ Phases'[d] = "waiting"
        /\ Leases'[c] = {} /\ Phases'[c] = "out"
        /\ \A e \in Client \ {c, d} : Leases'[e] = Leases[e] /\ Phases'[e] = Phases[e]
    BY <1>4, <2>1, <2>2
  <2>6. \A e \in Client : /\ Leases'[e] \intersect Idling' = {}
                          /\ \A b1, b2 \in Leases'[e] : b1 = b2
                          /\ (mode = "serving")' => Leases'[e] \subseteq KnownUp'
                          /\ Phases'[e] = "out" => Leases'[e] = {}
                          /\ Phases'[e] = "using" => Leases'[e] # {}
    <3> SUFFICES ASSUME NEW e \in Client
                 PROVE  /\ Leases'[e] \intersect Idling' = {}
                        /\ \A b1, b2 \in Leases'[e] : b1 = b2
                        /\ (mode = "serving")' => Leases'[e] \subseteq KnownUp'
                        /\ Phases'[e] = "out" => Leases'[e] = {}
                        /\ Phases'[e] = "using" => Leases'[e] # {}
      OBVIOUS
    <3>1. CASE e = d
      BY <2>3, <2>5, <3>1
    <3>2. CASE e = c
      BY <2>5, <3>2
    <3>3. CASE e \notin {c, d}
      <4>1. Leases'[e] = Leases[e] /\ Phases'[e] = Phases[e]
        BY <2>5, <3>3
      <4>2. QED
        BY <2>3, <4>1 DEF LeasesOK
    <3>4. QED
      BY <3>1, <3>2, <3>3
  <2>7. (mode = "serving")' => Idling' \subseteq KnownUp'
    BY <2>3 DEF LeasesOK
  <2>8. QED
    BY <2>4, <2>6, <2>7 DEF LeasesOK
<1>5. QED
  BY <1>1, <1>3, <1>4

\* The other steps of a caller.
LEMMA LeaseGoesOn ==
  ASSUME LeasesOK, NEW c \in Client,
         \/ Lease!Ask(c) \/ Lease!Take(c) \/ Lease!GiveUp(c)
         \/ \E b \in Builder : Lease!Grant(c, b)
  PROVE  LeasesOK'
<1>1. CASE Lease!Ask(c) \/ Lease!Take(c)
  <2>1. PICK p \in {"waiting", "using"} :
          /\ Phases' = [Phases EXCEPT ![c] = p] /\ Leases' = Leases
          /\ p = "using" => Leases[c] # {}
          /\ Idling' = Idling /\ KnownUp' = KnownUp
          /\ (mode = "serving")' = (mode = "serving")
    BY <1>1 DEF Lease!Ask, Lease!Take, Phases, Leases
  <2>2. \A d \in Client : Phases'[d] = IF d = c THEN p ELSE Phases[d]
    BY <2>1 DEF Phases
  <2>3. QED
    BY <2>1, <2>2 DEF LeasesOK
<1>2. CASE Lease!GiveUp(c)
  <2>1. /\ Phases' = [Phases EXCEPT ![c] = "out"] /\ Leases' = [Leases EXCEPT ![c] = {}]
        /\ Idling' = Idling /\ KnownUp' = KnownUp
        /\ (mode = "serving")' = (mode = "serving")
    BY <1>2 DEF Lease!GiveUp, Phases, Leases
  <2>2. \A d \in Client : /\ Phases'[d] = IF d = c THEN "out" ELSE Phases[d]
                          /\ Leases'[d] = IF d = c THEN {} ELSE Leases[d]
    BY <2>1 DEF Phases, Leases
  <2>3. QED
    BY <2>1, <2>2 DEF LeasesOK
<1>3. ASSUME NEW b \in Builder, Lease!Grant(c, b)
      PROVE  LeasesOK'
  <2>1. /\ Phases' = [Phases EXCEPT ![c] = "using"] /\ Leases' = [Leases EXCEPT ![c] = {b}]
        /\ b \in Idling /\ Idling' = Idling \ {b} /\ KnownUp' = KnownUp
        /\ (mode = "serving")' = (mode = "serving")
    BY <1>3 DEF Lease!Grant, Phases, Leases
  <2>2. \A d \in Client : /\ Phases'[d] = IF d = c THEN "using" ELSE Phases[d]
                          /\ Leases'[d] = IF d = c THEN {b} ELSE Leases[d]
    BY <2>1 DEF Phases, Leases
  <2>3. \A d \in Client : b \notin Leases[d]
    BY <2>1 DEF LeasesOK
  <2>4. QED
    BY <2>1, <2>2, <2>3 DEF LeasesOK
<1>4. QED
  BY <1>1, <1>2, <1>3

\* The steps of the service.
LEMMA LeaseServed ==
  ASSUME LeasesOK,
         \/ \E b \in Builder : Lease!Boot(b) \/ Lease!Remove(b)
         \/ Lease!Withdraw \/ Lease!Close \/ UNCHANGED Lease!leaseVars
  PROVE  LeasesOK'
<1>1. CASE Lease!Withdraw \/ Lease!Close \/ UNCHANGED Lease!leaseVars
  <2>1. /\ Phases' = Phases /\ Leases' = Leases /\ KnownUp' = KnownUp
        /\ Idling' \subseteq Idling /\ (mode' = "serving" => mode = "serving")
    BY <1>1 DEF Lease!Withdraw, Lease!Close, Lease!leaseVars, Phases, Leases
  <2>2. QED
    BY <2>1 DEF LeasesOK
<1>2. ASSUME NEW b \in Builder, Lease!Remove(b)
      PROVE  LeasesOK'
  <2>1. /\ Phases' = Phases /\ Leases' = Leases /\ KnownUp' = KnownUp \ {b}
        /\ Idling' = Idling /\ (mode = "serving")' = (mode = "serving")
        /\ mode = "serving" => b \notin Idling /\ \A c \in Client : b \notin Leases[c]
    BY <1>2 DEF Lease!Remove, Lease!Unleased, Phases, Leases
  <2>2. QED
    BY <2>1 DEF LeasesOK
<1>3. ASSUME NEW b \in Builder, Lease!Boot(b)
      PROVE  LeasesOK'
  <2>1. /\ Phases' = Phases /\ KnownUp' = KnownUp \union {b}
        /\ (mode = "serving")' = (mode = "serving")
        /\ b \notin Idling /\ \A c \in Client : b \notin Leases[c]
        /\ \/ Leases' = Leases /\ Idling' \in {Idling, Idling \union {b}}
           \/ \E d \in Client : /\ Phases[d] = "waiting" /\ Leases[d] = {}
                                /\ Leases' = [Leases EXCEPT ![d] = {b}]
                                /\ Idling' = Idling
    BY <1>3 DEF Lease!Boot, Lease!Unleased, Lease!Waits, Phases, Leases
  <2>2. CASE Leases' = Leases /\ Idling' \in {Idling, Idling \union {b}}
    BY <2>1, <2>2 DEF LeasesOK
  <2>3. ASSUME NEW d \in Client, Phases[d] = "waiting", Leases[d] = {},
               Leases' = [Leases EXCEPT ![d] = {b}], Idling' = Idling
        PROVE  LeasesOK'
    <3>1. \A e \in Client : Leases'[e] = IF e = d THEN {b} ELSE Leases[e]
      BY <2>3 DEF Leases
    <3>2. QED
      BY <2>1, <2>3, <3>1 DEF LeasesOK
  <2>4. QED
    BY <2>1, <2>2, <2>3
<1>4. QED
  BY <1>1, <1>2, <1>3

\* What the lease service is worth: whoever implements it leases no builder
\* twice, nor one that is free, and lets the VM of no leased builder go before
\* the shutdown.  With PoolImplementsLease this holds of the pool.
THEOREM LeaseIsExclusive == ImplementsLease => []Lease!LeaseOK
<1>1. Lease!LeaseInit => LeasesOK
  BY DEF Lease!LeaseInit, LeasesOK, Phases, Leases
<1>2. LeasesOK /\ [Lease!LeaseNext]_(Lease!leaseVars) => LeasesOK'
  BY LeaseEnds, LeaseGoesOn, LeaseServed DEF Lease!LeaseNext, Lease!CallerStep
<1>3. LeasesOK => Lease!LeaseOK
  BY LeasesOKIs
<1>4. QED
  BY <1>1, <1>2, <1>3, PTL DEF ImplementsLease, Lease!LeaseSpec
=============================================================================

--------------------------- MODULE TreeWalkProofs ---------------------------
(* Theorems about TreeWalk, for every tree and every exclude list.  What     *)
(* recursive functions compute is proved here from the least counterexample. *)
EXTENDS TreeWalk, FiniteSetTheorems, SequenceTheorems, WellFoundedInduction, TLAPS

-----------------------------------------------------------------------------
(* Recursive functions.                                                      *)

(* A nonempty set of numbers has a least one.                                *)
LEMMA LeastNumber ==
    ASSUME NEW T, T \subseteq Nat, T # {}
    PROVE  \E x \in T : \A y \in T : x <= y
<1> DEFINE R == OpToRel(<, Nat)
<1>0. IsWellFoundedOn(R, Nat)
  BY NatLessThanWellFounded
<1>2. \A x, y \in Nat : <<y, x>> \in R <=> y < x
  BY DEF OpToRel
<1> HIDE DEF R
<1>1. PICK x \in T : \A y \in T : ~ (<<y, x>> \in R)
  BY <1>0, WFMin
<1>3. ASSUME NEW y \in T PROVE x <= y
  <2>1. x \in Nat /\ y \in Nat
    OBVIOUS
  <2>2. ~ (<<y, x>> \in R)
    BY <1>1
  <2>3. ~ (y < x)
    BY <1>2, <2>1, <2>2, Zenon
  <2> QED
    BY <2>1, <2>3
<1> QED
  BY <1>3
(* What holds of 0, and of a number when it holds of the one before, holds   *)
(* up to c.                                                                  *)
LEMMA UpTo ==
    ASSUME NEW c \in Nat, NEW H, 0 \in H, \A k \in 1 .. c : k - 1 \in H => k \in H
    PROVE  0 .. c \subseteq H
<1> DEFINE T == {k \in 0 .. c : k \notin H}
<1> SUFFICES ASSUME T # {} PROVE FALSE
  OBVIOUS
  <1>1. PICK x \in T : \A y \in T : x <= y
    <2>1. T \subseteq Nat
       OBVIOUS
    <2> HIDE DEF T
    <2> QED BY <2>1, LeastNumber
  <1>2. x # 0 /\ x \in 1 .. c
    BY <1>1
  <1>3. x - 1 \in H
    <2>1. x - 1 \notin T BY <1>1, <1>2
    <2> QED BY <2>1, <1>2
  <1> QED
    BY <1>1, <1>2, <1>3

(* c functions of D, to be applied one after another from a.                 *)
Stepper(D, a, c, g) == a \in D /\ c \in Nat /\ g \in [1 .. c -> [D -> D]]

(* f is what they lead to.                                                   *)
Steps(f, D, a, c, g) ==
    f \in [0 .. c -> D] /\ f[0] = a /\ \A k \in 1 .. c : f[k] = g[k][f[k - 1]]

(* There is a function that takes c steps from a.                            *)
LEMMA StepsExist ==
    ASSUME NEW D, NEW a, NEW c, NEW g, Stepper(D, a, c, g)
    PROVE  \E f : Steps(f, D, a, c, g)
<1> USE DEF Stepper, Steps
<1> DEFINE To(m, f) == f \in [0 .. m -> D] /\ f[0] = a /\ \A k \in 1 .. m : f[k] = g[k][f[k - 1]]
           H == {m \in 0 .. c : \E f : To(m, f)}
<1>1. 0 \in H
  <2>1. To(0, [k \in 0 .. 0 |-> a])
    OBVIOUS
  <2> HIDE DEF To
  <2> QED
    BY <2>1
<1>2. ASSUME NEW m \in 1 .. c, m - 1 \in H PROVE m \in H
  <2>1. PICK f : To(m - 1, f)
    BY <1>2
  <2> DEFINE h == [k \in 0 .. m |-> IF k = m THEN g[m][f[m - 1]] ELSE f[k]]
  <2>2. /\ m \in Nat /\ m - 1 \in 0 .. m - 1 /\ 0 # m /\ 0 \in 0 .. m /\ m \in 0 .. m
        /\ \A k \in 0 .. m : k # m => k \in 0 .. m - 1
        /\ \A k \in 1 .. m : k \in 0 .. m /\ k - 1 \in 0 .. m /\ k - 1 # m /\ (k # m => k \in 1 .. m - 1)
    OBVIOUS
  <2>3. f[m - 1] \in D /\ g[m] \in [D -> D] /\ \A k \in 0 .. m - 1 : f[k] \in D
    BY <2>1, <2>2
  <2>4. h \in [0 .. m -> D]
    BY <2>2, <2>3
  <2>5. h[0] = a
    BY <2>1, <2>2
  <2>6. ASSUME NEW k \in 1 .. m PROVE h[k] = g[k][h[k - 1]]
    <3>1. h[k - 1] = f[k - 1]
      BY <2>2
    <3>2. CASE k = m
      <4>1. h[k] = g[m][f[m - 1]]
        BY <2>2, <3>2
      <4> QED
        BY <3>1, <3>2, <4>1
    <3>3. CASE k # m
      <4>1. h[k] = f[k] /\ k \in 1 .. m - 1
        BY <2>2, <3>3
      <4> QED
        BY <2>1, <3>1, <4>1
    <3> QED
      BY <3>2, <3>3
  <2>7. To(m, h)
    BY <2>4, <2>5, <2>6
  <2> HIDE DEF To, h
  <2> QED
    BY <2>7
<1>3. c \in H
  <2> HIDE DEF H
  <2>1. 0 .. c \subseteq H
    BY <1>1, <1>2, UpTo
  <2> QED
    BY <2>1
<1> QED
  BY <1>3

-----------------------------------------------------------------------------
(* Sums over finite sets.                                                    *)

(* SumSet and its like add one element after another.                        *)
Some(s) == CHOOSE x \in s : TRUE

Iter(w, S) == CHOOSE iter : iter = [s \in SUBSET S |->
    IF s = {} THEN 0 ELSE w[Some(s)] + iter[s \ {Some(s)}]]

SumOf(w, S) == Iter(w, S)[S]

(* What is left of a set without the element chosen of it.                   *)
LEMMA SomeLess ==
    ASSUME NEW S, IsFiniteSet(S)
    PROVE  \A s \in SUBSET S :
               /\ Cardinality(s) \in Nat /\ Cardinality(s) <= Cardinality(S)
               /\ Cardinality(s) = 0 => s = {}
               /\ s # {} => /\ Some(s) \in s /\ s \ {Some(s)} \in SUBSET S
                            /\ Cardinality(s) > 0
                            /\ Cardinality(s \ {Some(s)}) = Cardinality(s) - 1
<1> TAKE s \in SUBSET S
<1>1. IsFiniteSet(s) /\ Cardinality(s) <= Cardinality(S)
  BY FS_Subset
<1>2. Cardinality(s) \in Nat
  BY <1>1, FS_CardinalityType
<1>3. Cardinality(s) = 0 <=> s = {}
  BY <1>1, FS_EmptySet
<1>4. ASSUME s # {} PROVE Some(s) \in s
  BY <1>4 DEF Some
<1>5. ASSUME s # {} PROVE Cardinality(s \ {Some(s)}) = Cardinality(s) - 1
  BY <1>1, <1>4, <1>5, FS_RemoveElement
<1> QED
  BY <1>1, <1>2, <1>3, <1>4, <1>5

(* What the sum over a set recurs on is a function, defined on its subsets.  *)
LEMMA IterSteps ==
    ASSUME NEW w, NEW S, IsFiniteSet(S), \A x \in S : w[x] \in Nat
    PROVE  /\ Iter(w, S) \in [SUBSET S -> Nat]
           /\ \A s \in SUBSET S :
                  Iter(w, S)[s] = IF s = {} THEN 0 ELSE w[Some(s)] + Iter(w, S)[s \ {Some(s)}]
<1> DEFINE P == SUBSET S
           D == [P -> Nat]
           c == Cardinality(S)
           val(h, s) == IF s = {} THEN 0 ELSE w[Some(s)] + h[s \ {Some(s)}]
           row(h) == [s \in P |-> val(h, s)]
           g == [k \in 1 .. c + 1 |-> [h \in D |-> row(h)]]
           a == [s \in P |-> 0]
<1>0. c \in Nat
  BY FS_CardinalityType
<1>1. ASSUME NEW s \in P
      PROVE  /\ Cardinality(s) \in Nat /\ Cardinality(s) <= c
             /\ Cardinality(s) = 0 => s = {}
             /\ s # {} => /\ Some(s) \in s /\ s \ {Some(s)} \in P /\ w[Some(s)] \in Nat
                          /\ Cardinality(s) > 0
                          /\ Cardinality(s \ {Some(s)}) = Cardinality(s) - 1
  BY SomeLess
<1> HIDE DEF P, c
<1>c. \A s \in P : Cardinality(s) \in Nat /\ (Cardinality(s) <= 0 => s = {})
  <2>1. ASSUME NEW s \in P, Cardinality(s) <= 0 PROVE s = {}
    <3>1. Cardinality(s) \in Nat
      BY <1>1
    <3>2. Cardinality(s) = 0
      BY <2>1, <3>1
    <3> QED
      BY <1>1, <3>2
  <2> QED
    BY <1>1, <2>1
<1>a. ASSUME NEW h, NEW s, s = {} PROVE val(h, s) = 0
  BY <1>a
<1>b. ASSUME NEW h, NEW s, s # {} PROVE val(h, s) = w[Some(s)] + h[s \ {Some(s)}]
  BY <1>b
<1> HIDE DEF val
<1>2. ASSUME NEW h \in D PROVE row(h) \in D
  <2>1. ASSUME NEW s \in P PROVE val(h, s) \in Nat
    <3>1. CASE s = {}
      BY <1>a, <3>1
    <3>2. CASE s # {}
      <4>1. w[Some(s)] \in Nat /\ h[s \ {Some(s)}] \in Nat
        BY <1>1, <3>2
      <4> QED
        <5>1. val(h, s) = w[Some(s)] + h[s \ {Some(s)}]
          BY <1>b, <3>2
        <5> QED
          BY <4>1, <5>1
    <3> QED
      BY <3>1, <3>2
  <2> QED
    BY <2>1
<1>3. PICK f \in [0 .. c + 1 -> D] : f[0] = a /\ \A k \in 1 .. c + 1 : f[k] = row(f[k - 1])
  <2> HIDE DEF row
  <2>1. Stepper(D, a, c + 1, g)
    <3>1. g \in [1 .. c + 1 -> [D -> D]]
      BY <1>2
    <3>2. a \in D
      OBVIOUS
    <3> QED
      BY <1>0, <3>1, <3>2 DEF Stepper
  <2> HIDE DEF g, D, a
  <2>2. PICK f : Steps(f, D, a, c + 1, g)
    BY <2>1, StepsExist
  <2>4. f \in [0 .. c + 1 -> D] /\ f[0] = a /\ \A k \in 1 .. c + 1 : f[k] = g[k][f[k - 1]]
    BY <2>2 DEF Steps
  <2>5. ASSUME NEW k \in 1 .. c + 1 PROVE f[k] = row(f[k - 1])
    <3>1. k - 1 \in 0 .. c + 1
      BY <1>0
    <3>2. f[k - 1] \in D
      BY <2>4, <3>1
    <3> QED
      BY <2>4, <3>2 DEF g
  <2> QED
    BY <2>4, <2>5
<1> DEFINE Still(k) == \A s \in P : Cardinality(s) <= k => f[k + 1][s] = f[k][s]
           H == {k \in 0 .. c : Still(k)}
<1>4. 0 \in H
  <2>1. ASSUME NEW s \in P, Cardinality(s) <= 0 PROVE f[1][s] = f[0][s]
    <3>1. s = {}
      BY <1>c, <2>1
    <3>2. 1 \in 1 .. c + 1 /\ 1 - 1 = 0
      BY <1>0
    <3>3. f[1] = row(f[0])
      <4> HIDE DEF row
      <4> QED
        BY <1>3, <3>2
    <3>4. f[1][s] = val(f[0], s) /\ f[0][s] = 0
      BY <1>3, <3>3
    <3> QED
      BY <1>a, <3>1, <3>4
  <2> QED
    BY <1>0, <2>1
<1>5. ASSUME NEW k \in 1 .. c, k - 1 \in H PROVE k \in H
  <2>0. k \in 0 .. c /\ k \in Nat /\ k \in 1 .. c + 1 /\ k + 1 \in 1 .. c + 1 /\ k + 1 - 1 = k /\ k - 1 + 1 = k
    BY <1>0
  <2>1. f[k] = row(f[k - 1]) /\ f[k + 1] = row(f[k]) /\ Still(k - 1)
    <3> HIDE DEF row, Still
    <3>1. f[k] = row(f[k - 1])
      BY <1>3, <2>0
    <3>2. f[k + 1] = row(f[k + 1 - 1])
      BY <1>3, <2>0
    <3> QED
      BY <1>5, <2>0, <3>1, <3>2
  <2>2. ASSUME NEW s \in P, Cardinality(s) <= k PROVE f[k + 1][s] = f[k][s]
    <3>0. f[k + 1][s] = val(f[k], s) /\ f[k][s] = val(f[k - 1], s)
      BY <2>1
    <3>1. CASE s = {}
      BY <1>a, <3>0, <3>1
    <3>2. CASE s # {}
      <4>1. s \ {Some(s)} \in P /\ Cardinality(s \ {Some(s)}) <= k - 1
        <5>1. s \ {Some(s)} \in P /\ Cardinality(s \ {Some(s)}) = Cardinality(s) - 1 /\ Cardinality(s) \in Nat
          BY <1>1, <3>2
        <5> QED
          BY <2>0, <2>2, <5>1
      <4>2. f[k][s \ {Some(s)}] = f[k - 1][s \ {Some(s)}]
        BY <2>0, <2>1, <4>1
      <4>3. f[k + 1][s] = w[Some(s)] + f[k][s \ {Some(s)}]
        BY <1>b, <3>0, <3>2
      <4>4. f[k][s] = w[Some(s)] + f[k - 1][s \ {Some(s)}]
        BY <1>b, <3>0, <3>2
      <4> QED
        BY <4>2, <4>3, <4>4
    <3> QED
      BY <3>1, <3>2
  <2> QED
    BY <2>0, <2>2
<1>6. f[c] \in D /\ f[c] = row(f[c])
  <2>1. Still(c)
    <3> HIDE DEF H
    <3>1. 0 .. c \subseteq H
      BY <1>0, <1>4, <1>5, UpTo
    <3>2. c \in H
      BY <1>0, <3>1
    <3> QED
      BY <3>2 DEF H
  <2>2. f[c] \in D /\ f[c + 1] \in D /\ f[c + 1] = row(f[c])
    <3>1. c \in 0 .. c + 1 /\ c + 1 \in 0 .. c + 1 /\ c + 1 \in 1 .. c + 1 /\ c + 1 - 1 = c
      BY <1>0
    <3> HIDE DEF row
    <3>2. f[c + 1] = row(f[c + 1 - 1])
      BY <1>3, <3>1
    <3> QED
      BY <1>3, <3>1, <3>2
  <2>3. ASSUME NEW s \in P PROVE f[c + 1][s] = f[c][s]
    BY <1>1, <2>1
  <2>4. f[c + 1] = f[c]
    BY <2>2, <2>3
  <2> QED
    BY <2>2, <2>4
<1>7. Iter(w, S) = row(Iter(w, S))
  <2>1. \E h : h = row(h)
    BY <1>6
  <2> QED
    BY <2>1, Zenon DEF Iter, P, val
<1> DEFINE h == Iter(w, S)
<1> HIDE DEF h
<1>8. \A s \in P : h[s] = val(h, s)
  <2>1. h = row(h)
    BY <1>7 DEF h
  <2> QED
    BY <2>1
<1> DEFINE G == {k \in 0 .. c : \A s \in P : Cardinality(s) <= k => h[s] \in Nat}
<1>9. 0 \in G
  <2>1. ASSUME NEW s \in P, Cardinality(s) <= 0 PROVE h[s] \in Nat
    <3>1. s = {}
      BY <1>c, <2>1
    <3> QED
      BY <1>8, <1>a, <3>1
  <2> QED
    BY <1>0, <2>1
<1>10. ASSUME NEW k \in 1 .. c, k - 1 \in G PROVE k \in G
  <2>1. ASSUME NEW s \in P, Cardinality(s) <= k PROVE h[s] \in Nat
    <3>1. CASE s = {}
      BY <1>8, <1>a, <3>1
    <3>2. CASE s # {}
      <4>1. s \ {Some(s)} \in P /\ Cardinality(s \ {Some(s)}) <= k - 1
        <5>1. s \ {Some(s)} \in P /\ Cardinality(s \ {Some(s)}) = Cardinality(s) - 1 /\ Cardinality(s) \in Nat
          BY <1>1, <3>2
        <5> QED
          BY <2>1, <5>1
      <4>2. h[s \ {Some(s)}] \in Nat /\ w[Some(s)] \in Nat
        BY <1>1, <1>10, <3>2, <4>1
      <4> QED
        <5>1. h[s] = w[Some(s)] + h[s \ {Some(s)}]
          BY <1>8, <1>b, <3>2
        <5> QED
          BY <4>2, <5>1
    <3> QED
      BY <3>1, <3>2
  <2> QED
    BY <1>0, <2>1
<1>11. \A s \in P : h[s] \in Nat
  <2>1. 0 .. c \subseteq G
    <3> HIDE DEF G
    <3> QED
      BY <1>0, <1>9, <1>10, UpTo
  <2>2. c \in G
    BY <1>0, <2>1
  <2> QED
    BY <1>1, <2>2
<1>12. h \in [P -> Nat]
  <2>1. h = row(h)
    BY <1>7 DEF h
  <2>2. h = [s \in P |-> h[s]]
    BY <2>1
  <2> QED
    BY <1>11, <2>2
<1> QED
  BY <1>8, <1>12 DEF h, P, val

(* What holds of a set when it holds of the set without any one element      *)
(* holds of every subset of a finite set.                                    *)
LEMMA OneLess ==
    ASSUME NEW S, IsFiniteSet(S), NEW Q,
           \A s \in SUBSET S : (\A x \in s : s \ {x} \in Q) => s \in Q
    PROVE  SUBSET S \subseteq Q
<1> DEFINE c == Cardinality(S)
           P == SUBSET S
           H == {k \in 0 .. c : \A s \in P : Cardinality(s) <= k => s \in Q}
<1>0. c \in Nat
  BY FS_CardinalityType
<1>1. ASSUME NEW s \in P
      PROVE  Cardinality(s) \in Nat /\ Cardinality(s) <= c /\ (Cardinality(s) <= 0 => s = {})
  <2>1. IsFiniteSet(s) /\ Cardinality(s) <= c
    BY FS_Subset
  <2>2. Cardinality(s) \in Nat
    BY <2>1, FS_CardinalityType
  <2>3. Cardinality(s) = 0 <=> s = {}
    BY <2>1, FS_EmptySet
  <2> QED
    BY <2>1, <2>2, <2>3
<1>2. ASSUME NEW s \in P, NEW x \in s
      PROVE  s \ {x} \in P /\ Cardinality(s \ {x}) = Cardinality(s) - 1
  <2>1. IsFiniteSet(s)
    BY FS_Subset
  <2> QED
    BY <2>1, FS_RemoveElement
<1>3. \A s \in P : (\A x \in s : s \ {x} \in Q) => s \in Q
  OBVIOUS
<1> HIDE DEF P, c
<1>4. 0 \in H
  <2>1. ASSUME NEW s \in P, Cardinality(s) <= 0 PROVE s \in Q
    BY <1>1, <1>3, <2>1
  <2> QED
    BY <1>0, <2>1
<1>5. ASSUME NEW k \in 1 .. c, k - 1 \in H PROVE k \in H
  <2>1. ASSUME NEW s \in P, Cardinality(s) <= k PROVE s \in Q
    <3>1. ASSUME NEW x \in s PROVE s \ {x} \in Q
      <4>1. s \ {x} \in P /\ Cardinality(s \ {x}) = Cardinality(s) - 1
        BY <1>2
      <4>2. Cardinality(s) \in Nat
        BY <1>1
      <4>3. Cardinality(s \ {x}) <= k - 1
        BY <2>1, <4>1, <4>2
      <4> QED
        BY <1>5, <4>1, <4>3
    <3> QED
      BY <1>3, <3>1
  <2> QED
    BY <1>0, <2>1
<1>6. c \in H
  <2> HIDE DEF H
  <2>1. 0 .. c \subseteq H
    BY <1>0, <1>4, <1>5, UpTo
  <2> QED
    BY <1>0, <2>1
<1>7. \A s \in P : s \in Q
  BY <1>1, <1>6
<1> QED
  BY <1>7 DEF P

(* The sum over a subset is the one that the sum over the set computes.      *)
LEMMA IterSubset ==
    ASSUME NEW w, NEW S, IsFiniteSet(S), \A x \in S : w[x] \in Nat, NEW T \in SUBSET S
    PROVE  SumOf(w, T) = Iter(w, S)[T]
<1> DEFINE g == Iter(w, T)
           h == Iter(w, S)
           Q == {s \in SUBSET T : g[s] = h[s]}
<1>0. IsFiniteSet(T) /\ \A x \in T : w[x] \in Nat
  BY FS_Subset
<1>1. \A s \in SUBSET T : g[s] = IF s = {} THEN 0 ELSE w[Some(s)] + g[s \ {Some(s)}]
  BY <1>0, IterSteps
<1>2. \A s \in SUBSET S : h[s] = IF s = {} THEN 0 ELSE w[Some(s)] + h[s \ {Some(s)}]
  BY IterSteps
<1> HIDE DEF g, h
<1>3. ASSUME NEW s \in SUBSET T, \A x \in s : s \ {x} \in Q PROVE s \in Q
  <2>1. g[s] = IF s = {} THEN 0 ELSE w[Some(s)] + g[s \ {Some(s)}]
    BY <1>1
  <2>2. h[s] = IF s = {} THEN 0 ELSE w[Some(s)] + h[s \ {Some(s)}]
    BY <1>2
  <2>3. CASE s = {}
    BY <2>1, <2>2, <2>3
  <2>4. CASE s # {}
    <3>1. Some(s) \in s
      BY <2>4 DEF Some
    <3>2. g[s \ {Some(s)}] = h[s \ {Some(s)}]
      BY <1>3, <3>1
    <3>3. g[s] = h[s]
      BY <2>1, <2>2, <2>4, <3>2
    <3> QED
      BY <3>3
  <2> QED
    BY <2>3, <2>4
<1>4. T \in Q
  <2> HIDE DEF Q
  <2>1. SUBSET T \subseteq Q
    BY <1>0, <1>3, OneLess
  <2> QED
    BY <2>1
<1> QED
  BY <1>4 DEF SumOf, g, h

(* The order in which a sum is taken does not matter.                        *)
LEMMA SumSteps ==
    ASSUME NEW w, NEW S, IsFiniteSet(S), \A x \in S : w[x] \in Nat
    PROVE  /\ SumOf(w, S) \in Nat
           /\ S = {} => SumOf(w, S) = 0
           /\ \A x \in S : SumOf(w, S) = w[x] + SumOf(w, S \ {x})
<1> DEFINE h == Iter(w, S)
           Q == {s \in SUBSET S : \A x \in s : h[s] = w[x] + h[s \ {x}]}
<1>1. \A s \in SUBSET S : h[s] \in Nat
  <2>1. h \in [SUBSET S -> Nat]
    BY IterSteps
  <2> HIDE DEF h
  <2> QED
    BY <2>1
<1>2. \A s \in SUBSET S : h[s] = IF s = {} THEN 0 ELSE w[Some(s)] + h[s \ {Some(s)}]
  BY IterSteps
<1>3. \A s \in SUBSET S : SumOf(w, s) = h[s]
  BY IterSubset
<1> HIDE DEF h
<1>4. ASSUME NEW s \in SUBSET S, \A x \in s : s \ {x} \in Q PROVE s \in Q
  <2>1. ASSUME NEW x \in s PROVE h[s] = w[x] + h[s \ {x}]
    <3>1. PICK y \in s : h[s] = w[y] + h[s \ {y}]
      <4>1. Some(s) \in s
        BY DEF Some
      <4>2. h[s] = w[Some(s)] + h[s \ {Some(s)}]
        BY <1>2
      <4> QED
        BY <4>1, <4>2
    <3>3. CASE x = y
      BY <3>1, <3>3
    <3>4. CASE x # y
      <4>1. x \in s \ {y} /\ s \ {y} \in Q /\ y \in s \ {x} /\ s \ {x} \in Q
        BY <1>4, <2>1, <3>1, <3>4
      <4>2. h[s \ {y}] = w[x] + h[(s \ {y}) \ {x}] /\ h[s \ {x}] = w[y] + h[(s \ {x}) \ {y}]
        BY <4>1
      <4>3. (s \ {y}) \ {x} = (s \ {x}) \ {y}
        OBVIOUS
      <4> DEFINE r == (s \ {x}) \ {y}
      <4>4. w[x] \in Nat /\ w[y] \in Nat /\ h[r] \in Nat
        BY <1>1, <2>1, <3>1
      <4>5. h[s \ {y}] = w[x] + h[r] /\ h[s \ {x}] = w[y] + h[r]
        BY <4>2, <4>3
      <4> HIDE DEF r
      <4> QED
        BY <3>1, <4>4, <4>5
    <3> QED
      BY <3>3, <3>4
  <2> QED
    BY <2>1
<1>5. S \in Q
  <2> HIDE DEF Q
  <2>1. SUBSET S \subseteq Q
    BY <1>4, OneLess
  <2> QED
    BY <2>1
<1>6. ASSUME NEW x \in S PROVE SumOf(w, S) = w[x] + SumOf(w, S \ {x})
  <2>1. h[S] = w[x] + h[S \ {x}]
    BY <1>5
  <2>2. S \in SUBSET S /\ S \ {x} \in SUBSET S
    OBVIOUS
  <2> QED
    BY <1>3, <2>1, <2>2
<1>7. S \in SUBSET S
  OBVIOUS
<1> QED
  BY <1>1, <1>2, <1>3, <1>6, <1>7

(* The community modules' sums are these.                                    *)
Itself == [x \in Nat |-> x]

(* SumSet of the community modules is such a sum.                            *)
LEMMA SumSetIs ==
    ASSUME NEW S, S \subseteq Nat PROVE SumSet(S) = SumOf(Itself, S)
<1>1. SumSet(S) = (CHOOSE iter : iter = [s \in SUBSET S |->
        IF s = {} THEN 0 ELSE Some(s) + iter[s \ {Some(s)}]])[S]
  BY DEF SumSet, FoldSet, MapThenFoldSet, Some
<1>2. ASSUME NEW iter
      PROVE  [s \in SUBSET S |-> IF s = {} THEN 0 ELSE Some(s) + iter[s \ {Some(s)}]]
             = [s \in SUBSET S |-> IF s = {} THEN 0 ELSE Itself[Some(s)] + iter[s \ {Some(s)}]]
  <2>1. ASSUME NEW s \in SUBSET S, s # {} PROVE Some(s) = Itself[Some(s)]
    <3>1. Some(s) \in s
      BY <2>1 DEF Some
    <3>2. Some(s) \in Nat
      BY <3>1
    <3> QED
      BY <3>2 DEF Itself
  <2> QED
    BY <2>1
<1>3. (CHOOSE iter : iter = [s \in SUBSET S |-> IF s = {} THEN 0 ELSE Some(s) + iter[s \ {Some(s)}]])
      = Iter(Itself, S)
  BY <1>2, Zenon DEF Iter
<1> QED
  BY <1>1, <1>3 DEF SumOf

(* The sum over two sets that share nothing is the sum of their sums.        *)
LEMMA SumDisjoint ==
    ASSUME NEW w, NEW A, NEW B, IsFiniteSet(A), IsFiniteSet(B), A \intersect B = {},
           \A x \in A \union B : w[x] \in Nat
    PROVE  SumOf(w, A \union B) = SumOf(w, A) + SumOf(w, B)
<1> DEFINE Q == {s \in SUBSET B : SumOf(w, A \union s) = SumOf(w, A) + SumOf(w, s)}
<1>1. ASSUME NEW s \in SUBSET B
      PROVE  /\ IsFiniteSet(s) /\ IsFiniteSet(A \union s)
             /\ \A x \in A \union s : w[x] \in Nat
  BY FS_Subset, FS_Union
<1>2. ASSUME NEW s \in SUBSET B, \A x \in s : s \ {x} \in Q PROVE s \in Q
  <2>0. \A x \in s : w[x] \in Nat
    BY <1>1
  <2>1. CASE s = {}
    <3>1. SumOf(w, A) \in Nat /\ SumOf(w, s) = 0
      BY <1>1, <2>0, <2>1, SumSteps
    <3>2. A \union s = A
      BY <2>1
    <3> QED
      BY <3>1, <3>2
  <2>2. CASE s # {}
    <3>1. PICK x \in s : TRUE
      BY <2>2
    <3>2. SumOf(w, s) = w[x] + SumOf(w, s \ {x}) /\ SumOf(w, s) \in Nat
      BY <1>1, <2>0, SumSteps
    <3>3. SumOf(w, A \union s) = w[x] + SumOf(w, (A \union s) \ {x})
      <4>1. x \in A \union s
        OBVIOUS
      <4> QED
        BY <1>1, <4>1, SumSteps
    <3>4. (A \union s) \ {x} = A \union (s \ {x})
      OBVIOUS
    <3>5. SumOf(w, A \union (s \ {x})) = SumOf(w, A) + SumOf(w, s \ {x})
      BY <1>2
    <3>6. w[x] \in Nat /\ SumOf(w, A) \in Nat /\ SumOf(w, s \ {x}) \in Nat
      <4>1. s \ {x} \in SUBSET B
        OBVIOUS
      <4>2. IsFiniteSet(s \ {x}) /\ \A y \in s \ {x} : w[y] \in Nat
        BY <1>1, <4>1
      <4>3. \A y \in A : w[y] \in Nat
        OBVIOUS
      <4> QED
        BY <1>1, <2>0, <4>2, <4>3, SumSteps
    <3>7. SumOf(w, A \union s) = w[x] + (SumOf(w, A) + SumOf(w, s \ {x}))
      BY <3>3, <3>4, <3>5
    <3>8. SumOf(w, A \union s) = SumOf(w, A) + SumOf(w, s)
      BY <3>2, <3>6, <3>7
    <3> QED
      BY <3>8
  <2> QED
    BY <2>1, <2>2
<1>3. B \in Q
  <2> HIDE DEF Q
  <2>1. SUBSET B \subseteq Q
    BY <1>2, OneLess
  <2> QED
    BY <2>1
<1> QED
  BY <1>3

(* More elements never make a smaller sum.                                   *)
LEMMA SumMore ==
    ASSUME NEW w, NEW A, NEW B, A \subseteq B, IsFiniteSet(B), \A x \in B : w[x] \in Nat
    PROVE  SumOf(w, A) <= SumOf(w, B)
<1>1. IsFiniteSet(A) /\ IsFiniteSet(B \ A)
  BY FS_Subset
<1>2. A \union (B \ A) = B /\ A \intersect (B \ A) = {}
  OBVIOUS
<1>3. SumOf(w, A \union (B \ A)) = SumOf(w, A) + SumOf(w, B \ A)
  BY <1>1, <1>2, SumDisjoint
<1>4. (\A x \in A : w[x] \in Nat) /\ (\A x \in B \ A : w[x] \in Nat)
  OBVIOUS
<1>5. SumOf(w, A) \in Nat /\ SumOf(w, B \ A) \in Nat
  BY <1>1, <1>4, SumSteps
<1>6. SumOf(w, B) = SumOf(w, A) + SumOf(w, B \ A)
  BY <1>2, <1>3
<1> QED
  BY <1>5, <1>6

-----------------------------------------------------------------------------
(* The file system: what a path leads to, and what is under a node.  The    *)
(* operators with In are those of TreeWalk for a tree t.                     *)

(* The nodes of a tree.                                                      *)
NodesOf(t) == DOMAIN t.parent
Count(t) == Cardinality(NodesOf(t))

(* Where k symlinks lead.                                                    *)
Hop(t, S, n) == CHOOSE hop : hop = [k \in 0 .. Count(t) |->
    IF k = 0 THEN n
    ELSE LET m == hop[k - 1] IN
         IF m \in S /\ t.kind[m] = "link" THEN t.leads[m] ELSE m]

RealIn(t, S, n) == LET last == Hop(t, S, n)[Count(t)] IN
                   IF last \in S /\ t.kind[last] # "link" THEN last ELSE Nowhere

(* Real, for the tree of the state.                                          *)
LEMMA RealTree == ASSUME NEW S, NEW n PROVE Real(S, n) = RealIn(tree, S, n)
BY DEF Real, RealIn, Hop, Count, NodesOf, Nodes

(* What is assumed of a tree, for the operators below.                       *)
LEMMA TreeShape ==
    ASSUME NEW t \in Trees
    PROVE  /\ Count(t) \in Nat /\ NodesOf(t) = 1 .. Count(t)
           /\ t.leads \in [NodesOf(t) -> NodesOf(t) \union {Nowhere}]
           /\ t.kind \in [NodesOf(t) -> {"dir", "file", "link"}]
           /\ \A n \in NodesOf(t) : /\ t.parent[n] \in 0 .. n - 1
                                    /\ t.parent[n] # 0 => t.parent[n] \in NodesOf(t) /\ t.kind[t.parent[n]] = "dir"
           /\ Root \in NodesOf(t) /\ IsFiniteSet(NodesOf(t))
<1>1. IsFiniteSet(NodesOf(t)) /\ NodesOf(t) = 1 .. Count(t)
  BY TreeWalkAssumption DEF NodesOf, Count
<1>2. Count(t) \in Nat
  BY <1>1, FS_CardinalityType DEF Count
<1> QED
  BY <1>1, <1>2, TreeWalkAssumption DEF NodesOf, Count, Nowhere

(* Following symlinks one by one is well defined.                            *)
LEMMA HopSteps ==
    ASSUME NEW t \in Trees, NEW S, S \subseteq NodesOf(t), NEW n \in NodesOf(t)
    PROVE  /\ Hop(t, S, n)[0] = n
           /\ \A k \in 1 .. Count(t) :
                  Hop(t, S, n)[k] = IF Hop(t, S, n)[k - 1] \in S /\ t.kind[Hop(t, S, n)[k - 1]] = "link"
                                    THEN t.leads[Hop(t, S, n)[k - 1]] ELSE Hop(t, S, n)[k - 1]
<1> DEFINE D == NodesOf(t) \union {Nowhere}
           c == Count(t)
           next(m) == IF m \in S /\ t.kind[m] = "link" THEN t.leads[m] ELSE m
           g == [k \in 1 .. c |-> [m \in D |-> next(m)]]
<1>1. c \in Nat /\ n \in D /\ \A m \in D : next(m) \in D
  BY TreeShape
<1>2. g \in [1 .. c -> [D -> D]]
  BY <1>1
<1>3. PICK f \in [0 .. c -> D] : f[0] = n /\ \A k \in 1 .. c : f[k] = g[k][f[k - 1]]
  <2>1. Stepper(D, n, c, g)
    BY <1>1, <1>2 DEF Stepper
  <2> HIDE DEF g, D, c, next
  <2>2. PICK f : Steps(f, D, n, c, g)
    BY <2>1, StepsExist
  <2> QED
    BY <2>2 DEF Steps
<1>4. f = [k \in 0 .. c |-> IF k = 0 THEN n ELSE next(f[k - 1])]
  <2>1. ASSUME NEW k \in 0 .. c, k # 0 PROVE f[k] = next(f[k - 1])
    <3>1. k \in 1 .. c /\ k - 1 \in 0 .. c /\ f[k - 1] \in D
      BY <1>1, <2>1
    <3> QED
      BY <1>3, <3>1
  <2> HIDE DEF next
  <2> QED
    BY <1>3, <2>1
<1>5. Hop(t, S, n) = [k \in 0 .. c |-> IF k = 0 THEN n ELSE next(Hop(t, S, n)[k - 1])]
  BY <1>4, Zenon DEF Hop
<1> HIDE DEF next
<1>6. \A k \in 1 .. c : k \in 0 .. c /\ k # 0
  BY <1>1
<1>7. 0 \in 0 .. c
  BY <1>1
<1>8. Hop(t, S, n)[0] = n /\ \A k \in 1 .. c : Hop(t, S, n)[k] = next(Hop(t, S, n)[k - 1])
  BY <1>5, <1>6, <1>7
<1> QED
  BY <1>8 DEF next

(* Symlinks lead to a node that is there, or nowhere.                        *)
LEMMA RealType ==
    ASSUME NEW t \in Trees, NEW S, S \subseteq NodesOf(t), NEW n
    PROVE  /\ RealIn(t, S, n) \in NodesOf(t) \union {Nowhere}
           /\ RealIn(t, S, n) # Nowhere => RealIn(t, S, n) \in S
BY DEF RealIn

(* What leads somewhere still leads there among more nodes.                  *)
LEMMA RealGrows ==
    ASSUME NEW t \in Trees, NEW S, S \subseteq NodesOf(t), NEW R, R \subseteq S,
           NEW n \in NodesOf(t), RealIn(t, R, n) # Nowhere
    PROVE  RealIn(t, S, n) = RealIn(t, R, n)
<1> DEFINE c == Count(t)
           f == Hop(t, R, n)
           g == Hop(t, S, n)
           H == {k \in 0 .. c : f[k] \notin R \/ g[k] = f[k]}
<1>0. c \in Nat
  BY TreeShape
<1>1. /\ f[0] = n /\ g[0] = n
      /\ \A k \in 1 .. c : f[k] = IF f[k - 1] \in R /\ t.kind[f[k - 1]] = "link" THEN t.leads[f[k - 1]] ELSE f[k - 1]
      /\ \A k \in 1 .. c : g[k] = IF g[k - 1] \in S /\ t.kind[g[k - 1]] = "link" THEN t.leads[g[k - 1]] ELSE g[k - 1]
  BY HopSteps
<1> HIDE DEF f, g
<1>2. 0 \in H
  BY <1>0, <1>1
<1>3. ASSUME NEW k \in 1 .. c, k - 1 \in H PROVE k \in H
  <2>1. k \in 0 .. c
    BY <1>0
  <2>2. CASE f[k - 1] \notin R
    BY <1>1, <2>1, <2>2
  <2>3. CASE f[k - 1] \in R /\ g[k - 1] = f[k - 1]
    <3>1. g[k] = f[k]
      BY <1>1, <2>3
    <3> QED
      BY <2>1, <3>1
  <2> QED
    BY <1>3, <2>2, <2>3
<1>4. c \in H
  <2> HIDE DEF H
  <2>1. 0 .. c \subseteq H
    BY <1>0, <1>2, <1>3, UpTo
  <2> QED
    BY <1>0, <2>1
<1>5. f[c] \notin R \/ g[c] = f[c]
  BY <1>4
<1> USE DEF f, g
<1> QED
  BY <1>5 DEF RealIn

(* Children, and the walk along the path of an entry.                        *)
ChildrenIn(t, S, d) == {n \in S : d # Nowhere /\ t.parent[n] = d}

Walk(t, S, e) == CHOOSE walk : walk = [k \in 0 .. Len(e) - 1 |->
    IF k = 0 THEN Root
    ELSE IF e[k] \in ChildrenIn(t, S, walk[k - 1]) THEN RealIn(t, S, e[k]) ELSE Nowhere]

ParentIn(t, S, e) == Walk(t, S, e)[Len(e) - 1]

(* Parent, for the tree of the state.                                        *)
LEMMA ParentTree == ASSUME NEW S, NEW e PROVE Parent(S, e) = ParentIn(tree, S, e)
BY DEF Parent, Children, Real, ParentIn, Walk, ChildrenIn, RealIn, Hop, Count, NodesOf, Nodes

(* Following a path name by name is well defined.                            *)
LEMMA WalkSteps ==
    ASSUME NEW t \in Trees, NEW S, S \subseteq NodesOf(t), NEW e \in Seq(Nat), e # <<>>
    PROVE  /\ Walk(t, S, e)[0] = Root
           /\ \A k \in 1 .. Len(e) - 1 :
                  Walk(t, S, e)[k] = IF e[k] \in ChildrenIn(t, S, Walk(t, S, e)[k - 1])
                                     THEN RealIn(t, S, e[k]) ELSE Nowhere
<1> DEFINE D == NodesOf(t) \union {Nowhere}
           c == Len(e) - 1
           next(k, m) == IF e[k] \in ChildrenIn(t, S, m) THEN RealIn(t, S, e[k]) ELSE Nowhere
           g == [k \in 1 .. c |-> [m \in D |-> next(k, m)]]
<1>1. c \in Nat /\ Root \in D /\ \A k, m : next(k, m) \in D
  <2>1. ASSUME NEW k, NEW m PROVE next(k, m) \in D
    BY RealType
  <2>2. c \in Nat /\ Root \in D
    BY TreeShape
  <2> QED
    BY <2>1, <2>2
<1> HIDE DEF next
<1>2. g \in [1 .. c -> [D -> D]]
  BY <1>1
<1>3. PICK f \in [0 .. c -> D] : f[0] = Root /\ \A k \in 1 .. c : f[k] = g[k][f[k - 1]]
  <2>1. Stepper(D, Root, c, g)
    BY <1>1, <1>2 DEF Stepper
  <2> HIDE DEF g, D, c
  <2>2. PICK f : Steps(f, D, Root, c, g)
    BY <2>1, StepsExist
  <2> QED
    BY <2>2 DEF Steps
<1>4. f = [k \in 0 .. c |-> IF k = 0 THEN Root ELSE next(k, f[k - 1])]
  <2>1. ASSUME NEW k \in 0 .. c, k # 0 PROVE f[k] = next(k, f[k - 1])
    <3>1. k \in 1 .. c /\ k - 1 \in 0 .. c /\ f[k - 1] \in D
      BY <1>1, <2>1
    <3> QED
      BY <1>3, <3>1
  <2> QED
    BY <1>3, <2>1
<1>5. Walk(t, S, e) = [k \in 0 .. c |-> IF k = 0 THEN Root ELSE next(k, Walk(t, S, e)[k - 1])]
  BY <1>4, Zenon DEF Walk, next
<1>6. \A k \in 1 .. c : k \in 0 .. c /\ k # 0
  BY <1>1
<1>7. 0 \in 0 .. c
  BY <1>1
<1>8. Walk(t, S, e)[0] = Root /\ \A k \in 1 .. c : Walk(t, S, e)[k] = next(k, Walk(t, S, e)[k - 1])
  BY <1>5, <1>6, <1>7
<1> QED
  BY <1>8 DEF next

(* So does what the path of an entry leads to.                               *)
LEMMA ParentGrows ==
    ASSUME NEW t \in Trees, NEW S, S \subseteq NodesOf(t), NEW R, R \subseteq S,
           NEW e \in Seq(Nat), e # <<>>, ParentIn(t, R, e) # Nowhere
    PROVE  ParentIn(t, S, e) = ParentIn(t, R, e)
<1> DEFINE c == Len(e) - 1
           f == Walk(t, R, e)
           g == Walk(t, S, e)
           H == {k \in 0 .. c : f[k] = Nowhere \/ g[k] = f[k]}
<1>0. c \in Nat
  OBVIOUS
<1>1. /\ f[0] = Root /\ g[0] = Root
      /\ \A k \in 1 .. c : f[k] = IF e[k] \in ChildrenIn(t, R, f[k - 1]) THEN RealIn(t, R, e[k]) ELSE Nowhere
      /\ \A k \in 1 .. c : g[k] = IF e[k] \in ChildrenIn(t, S, g[k - 1]) THEN RealIn(t, S, e[k]) ELSE Nowhere
  BY WalkSteps
<1> HIDE DEF f, g
<1>2. 0 \in H
  BY <1>0, <1>1
<1>3. ASSUME NEW k \in 1 .. c, k - 1 \in H PROVE k \in H
  <2>1. k \in 0 .. c
    BY <1>0
  <2>2. CASE e[k] \notin ChildrenIn(t, R, f[k - 1])
    BY <1>1, <2>1, <2>2
  <2>3. CASE e[k] \in ChildrenIn(t, R, f[k - 1])
    <3>1. e[k] \in R /\ e[k] \in NodesOf(t) /\ f[k - 1] = g[k - 1] /\ e[k] \in ChildrenIn(t, S, g[k - 1])
      BY <1>3, <2>3 DEF ChildrenIn
    <3>2. f[k] = RealIn(t, R, e[k]) /\ g[k] = RealIn(t, S, e[k])
      BY <1>1, <2>3, <3>1
    <3>3. f[k] # Nowhere => g[k] = f[k]
      BY <3>1, <3>2, RealGrows
    <3> QED
      BY <2>1, <3>3
  <2> QED
    BY <2>2, <2>3
<1>4. c \in H
  <2> HIDE DEF H
  <2>1. 0 .. c \subseteq H
    BY <1>0, <1>2, <1>3, UpTo
  <2> QED
    BY <1>0, <2>1
<1>5. f[c] = Nowhere \/ g[c] = f[c]
  BY <1>4
<1> USE DEF f, g
<1> QED
  BY <1>5 DEF ParentIn

(* What each node is under.                                                  *)
Above(t) == CHOOSE above : above = [i \in NodesOf(t) |->
    {i} \union IF t.parent[i] = 0 THEN {} ELSE above[t.parent[i]]]

SubtreeIn(t, n) == {i \in NodesOf(t) : n \in Above(t)[i]}

(* Subtree, for the tree of the state.                                       *)
LEMMA SubtreeTree == ASSUME NEW n PROVE Subtree(n) = SubtreeIn(tree, n)
BY DEF Subtree, SubtreeIn, Above, NodesOf, Nodes

(* A node is under itself and all that its directory is under.               *)
LEMMA AboveSteps ==
    ASSUME NEW t \in Trees
    PROVE  \A i \in NodesOf(t) :
               Above(t)[i] = {i} \union IF t.parent[i] = 0 THEN {} ELSE Above(t)[t.parent[i]]
<1> DEFINE N == NodesOf(t)
           D == [N -> SUBSET N]
           c == Count(t)
           rest(h, i) == IF t.parent[i] = 0 THEN {} ELSE h[t.parent[i]]
           row(h, k) == [i \in N |-> IF i = k THEN {i} \union rest(h, i) ELSE h[i]]
           g == [k \in 1 .. c |-> [h \in D |-> row(h, k)]]
           a == [i \in N |-> {}]
<1>1. c \in Nat /\ N = 1 .. c
      /\ \A i \in N : i \in Nat /\ t.parent[i] \in Nat /\ t.parent[i] < i /\ (t.parent[i] # 0 => t.parent[i] \in N)
  BY TreeShape
<1>2. ASSUME NEW h \in D, NEW k \in 1 .. c PROVE row(h, k) \in D
  BY <1>1
<1>3. Stepper(D, a, c, g)
  <2> HIDE DEF row
  <2>1. g \in [1 .. c -> [D -> D]]
    BY <1>2
  <2> QED
    BY <1>1, <2>1 DEF Stepper
<1>4. PICK f \in [0 .. c -> D] : f[0] = a /\ \A k \in 1 .. c : f[k] = row(f[k - 1], k)
  <2> HIDE DEF g, D, c, a, row
  <2>1. PICK f : Steps(f, D, a, c, g)
    BY <1>3, StepsExist
  <2>2. ASSUME NEW k \in 1 .. c PROVE k - 1 \in 0 .. c
    BY <1>1
  <2>3. \A k \in 1 .. c : f[k] = g[k][f[k - 1]]
    BY <2>1 DEF Steps
  <2>4. f \in [0 .. c -> D] /\ f[0] = a
    BY <2>1 DEF Steps
  <2>5. ASSUME NEW k \in 1 .. c PROVE f[k] = row(f[k - 1], k)
    <3>1. f[k - 1] \in D
      BY <2>2, <2>4
    <3> QED
      BY <2>3, <3>1 DEF g
  <2> QED
    BY <2>4, <2>5
<1> DEFINE Whole(k) == \A i \in N : i <= k => f[k][i] = {i} \union rest(f[k], i)
           H == {k \in 0 .. c : Whole(k)}
<1>5. 0 \in H
  BY <1>1
<1>6. ASSUME NEW k \in 1 .. c, k - 1 \in H PROVE k \in H
  <2>0. k \in Nat /\ k - 1 \in 0 .. c /\ k \in 0 .. c
    BY <1>1
  <2>1. f[k - 1] \in D /\ f[k] = row(f[k - 1], k) /\ Whole(k - 1)
    BY <1>4, <1>6, <2>0
  <2>2. ASSUME NEW i \in N PROVE f[k][i] = IF i = k THEN {i} \union rest(f[k - 1], i) ELSE f[k - 1][i]
    BY <2>1
  <2>3. ASSUME NEW i \in N, i <= k PROVE rest(f[k], i) = rest(f[k - 1], i)
    <3>1. t.parent[i] # 0 => t.parent[i] \in N /\ t.parent[i] # k
      BY <1>1, <2>0, <2>3
    <3> HIDE DEF N
    <3> QED
      BY <2>2, <3>1
  <2>4. ASSUME NEW i \in N, i <= k PROVE f[k][i] = {i} \union rest(f[k], i)
    <3>1. CASE i = k
      BY <2>2, <2>3, <2>4, <3>1
    <3>2. CASE i # k
      <4>1. i <= k - 1
        BY <1>1, <2>0, <2>4, <3>2
      <4>2. f[k - 1][i] = {i} \union rest(f[k - 1], i)
        BY <2>1, <4>1
      <4> HIDE DEF rest
      <4> QED
        BY <2>2, <2>3, <2>4, <3>2, <4>2
    <3> QED
      BY <3>1, <3>2
  <2> QED
    BY <2>0, <2>4
<1>7. Whole(c)
  <2>1. 0 .. c \subseteq H
    <3> HIDE DEF H
    <3> QED
      BY <1>1, <1>5, <1>6, UpTo
  <2> QED
    BY <1>1, <2>1
<1>8. \E h : h = [i \in N |-> {i} \union rest(h, i)]
  <2>1. f[c] \in [N -> SUBSET N]
    BY <1>1, <1>4
  <2>2. \A i \in N : f[c][i] = {i} \union rest(f[c], i)
    BY <1>1, <1>7
  <2>3. f[c] = [i \in N |-> {i} \union rest(f[c], i)]
    <3> HIDE DEF rest, N
    <3> QED
      BY <2>1, <2>2
  <2> QED
    BY <2>3
<1>9. Above(t) = [i \in N |-> {i} \union rest(Above(t), i)]
  <2> HIDE DEF N
  <2> QED
  BY <1>8, Zenon DEF Above, N
<1> QED
  BY <1>9

(* A node is at itself, and what is in a directory is under what the         *)
(* directory is under.                                                       *)
LEMMA Under ==
    ASSUME NEW t \in Trees, NEW n
    PROVE  /\ SubtreeIn(t, n) \subseteq NodesOf(t)
           /\ n \in NodesOf(t) => n \in SubtreeIn(t, n)
           /\ \A i \in NodesOf(t) : t.parent[i] \in SubtreeIn(t, n) => i \in SubtreeIn(t, n)
<1>1. ASSUME NEW i \in NodesOf(t), t.parent[i] \in SubtreeIn(t, n) PROVE i \in SubtreeIn(t, n)
  <2>1. t.parent[i] # 0
    BY <1>1, TreeShape DEF SubtreeIn
  <2>2. Above(t)[i] = {i} \union Above(t)[t.parent[i]]
    BY <2>1, AboveSteps
  <2> QED
    BY <1>1, <2>2 DEF SubtreeIn
<1>2. n \in NodesOf(t) => n \in SubtreeIn(t, n)
  BY AboveSteps DEF SubtreeIn
<1> QED
  BY <1>1, <1>2 DEF SubtreeIn

-----------------------------------------------------------------------------
(* The way down the tree.                                                    *)

(* The stack; the excluded paths inside of the copy, and what may go for them. *)
Frames == [dir : Nat, entries : SUBSET Nat]

Excluded(t, l) == {e \in l : /\ Last(e) \in ChildrenIn(t, NodesOf(t), ParentIn(t, NodesOf(t), e))
                             /\ ParentIn(t, NodesOf(t), e) \in SubtreeIn(t, Root)}
AllowedIn(t, l) == UNION {SubtreeIn(t, Last(e)) : e \in Excluded(t, l)}

(* What is known of the k-th directory on the way down, with S there.        *)
Frame(t, l, S, s, k) ==
    /\ s[k].dir \in S /\ t.kind[s[k].dir] = "dir"
    /\ s[k].dir \in AllowedIn(t, l)
    /\ s[k].dir \in SubtreeIn(t, Root) /\ t.parent[s[k].dir] \in SubtreeIn(t, Root)
    /\ s[k].dir \in SubtreeIn(t, s[1].dir)
    /\ s[k].entries \subseteq ChildrenIn(t, S, s[k].dir)
    /\ \A n \in ChildrenIn(t, S, s[k].dir) \ s[k].entries : k < Len(s) /\ n = s[k + 1].dir
    /\ \A j \in 1 .. Len(s) : j > k => s[j].dir > s[k].dir
    /\ k < Len(s) => /\ s[k + 1].dir \notin s[k].entries
                     /\ t.parent[s[k + 1].dir] = s[k].dir

Way(t, l, S, s) == s \in Seq(Frames) /\ \A k \in 1 .. Len(s) : Frame(t, l, S, s, k)

(* What Pop does.                                                            *)
Without(s, n) == [s EXCEPT ![Len(s)].entries = @ \ {n}]

(* Pop takes one entry from the directory on top.                            *)
LEMMA WithoutIs ==
    ASSUME NEW s \in Seq(Frames), s # <<>>, NEW n
    PROVE  /\ Without(s, n) \in Seq(Frames) /\ Len(Without(s, n)) = Len(s)
           /\ \A k \in 1 .. Len(s) :
                 Without(s, n)[k] = IF k = Len(s) THEN [dir |-> s[k].dir, entries |-> s[k].entries \ {n}] ELSE s[k]
<1>1. PICK m \in 1 .. Len(s) : m = Len(s)
  OBVIOUS
<1>0. s[m] \in Frames
  BY ElementOfSeq
<1>2. PICK e \in Frames : e = [dir |-> s[m].dir, entries |-> s[m].entries \ {n}]
  BY <1>0 DEF Frames
<1>3. [s[m] EXCEPT !.entries = @ \ {n}] = e
  <2>1. PICK f \in Frames : f = s[m]
    BY <1>0
  <2>2. PICK E : E = f.entries \ {n}
    OBVIOUS
  <2>3. [f EXCEPT !.entries = E] = [dir |-> f.dir, entries |-> E]
    BY DEF Frames
  <2> QED
    BY <1>2, <2>1, <2>2, <2>3
<1>4. Without(s, n) = [s EXCEPT ![m] = e]
  <2>1. Without(s, n) = [s EXCEPT ![m] = [s[m] EXCEPT !.entries = @ \ {n}]]
    BY <1>1 DEF Without
  <2> QED
    BY <1>3, <2>1
<1>5. /\ Without(s, n) \in Seq(Frames) /\ Len(Without(s, n)) = Len(s)
      /\ \A k \in 1 .. Len(s) : Without(s, n)[k] = IF k = m THEN e ELSE s[k]
  BY <1>4, ExceptSeq
<1> QED
  BY <1>1, <1>2, <1>5

(* No directory is twice on the way down.                                    *)
LEMMA DirsDistinct ==
    ASSUME NEW t, NEW l, NEW S, NEW s, Way(t, l, S, s), NEW j \in 1 .. Len(s), NEW k \in 1 .. Len(s), j # k
    PROVE  s[j].dir # s[k].dir
<1>1. s[j] \in Frames /\ s[k] \in Frames
  BY DEF Way
<1>2. j > k => s[j].dir > s[k].dir
  BY DEF Way, Frame
<1>3. k > j => s[k].dir > s[j].dir
  BY DEF Way, Frame
<1> QED
  BY <1>1, <1>2, <1>3 DEF Frames

(* What is in a directory that may go may go.                                *)
LEMMA AllowedUnder ==
    ASSUME NEW t \in Trees, NEW l, NEW n \in NodesOf(t), t.parent[n] \in AllowedIn(t, l)
    PROVE  n \in AllowedIn(t, l)
<1>1. PICK e \in Excluded(t, l) : t.parent[n] \in SubtreeIn(t, Last(e))
  BY DEF AllowedIn
<1>2. n \in SubtreeIn(t, Last(e))
  BY <1>1, Under
<1> QED
  BY <1>2 DEF AllowedIn

(* A directory, all its children to be visited.                              *)
OpenIn(t, S, n) == [dir |-> n, entries |-> ChildrenIn(t, S, n)]

(* An opened directory, with its children; they have larger numbers.         *)
LEMMA OpenIs ==
    ASSUME NEW t \in Trees, NEW S, S \subseteq NodesOf(t), NEW n \in NodesOf(t)
    PROVE  /\ OpenIn(t, S, n) \in Frames /\ n \in Nat
           /\ OpenIn(t, S, n).dir = n /\ OpenIn(t, S, n).entries = ChildrenIn(t, S, n)
           /\ \A m \in ChildrenIn(t, S, n) : m > n /\ m \in NodesOf(t) /\ m \in Nat /\ t.parent[m] = n
<1>1. \A m \in NodesOf(t) : m \in Nat /\ t.parent[m] \in 0 .. m - 1
  BY TreeShape
<1>2. ASSUME NEW m \in ChildrenIn(t, S, n)
      PROVE  m > n /\ m \in NodesOf(t) /\ m \in Nat /\ t.parent[m] = n
  <2>1. m \in NodesOf(t) /\ t.parent[m] = n
    BY DEF ChildrenIn
  <2> QED
    BY <1>1, <2>1
<1>3. ChildrenIn(t, S, n) \in SUBSET Nat
  BY <1>2
<1> QED
  BY <1>1, <1>2, <1>3 DEF OpenIn, Frames

(* An excluded directory begins a way down.                                  *)
LEMMA WayOpen ==
    ASSUME NEW t \in Trees, NEW l, NEW S, S \subseteq NodesOf(t), NEW n \in S,
           t.kind[n] = "dir", n \in AllowedIn(t, l),
           n \in SubtreeIn(t, Root), t.parent[n] \in SubtreeIn(t, Root)
    PROVE  Way(t, l, S, <<OpenIn(t, S, n)>>)
<1> DEFINE s == <<OpenIn(t, S, n)>>
<1>1. s \in Seq(Frames) /\ Len(s) = 1 /\ s[1] = OpenIn(t, S, n)
  BY OpenIs
<1>2. s[1].dir = n /\ s[1].entries = ChildrenIn(t, S, n) /\ n \in SubtreeIn(t, n)
  <2>1. n \in NodesOf(t)
    OBVIOUS
  <2> QED
    <3>1. OpenIn(t, S, n).dir = n /\ OpenIn(t, S, n).entries = ChildrenIn(t, S, n)
      BY <2>1, OpenIs
    <3>2. n \in SubtreeIn(t, n)
      BY <2>1, Under
    <3> HIDE DEF s
    <3> QED
      BY <1>1, <3>1, <3>2
<1> HIDE DEF s
<1>3. Frame(t, l, S, s, 1)
  BY <1>1, <1>2 DEF Frame
<1>4. \A k \in 1 .. Len(s) : k = 1
  BY <1>1
<1>5. Way(t, l, S, s)
  BY <1>1, <1>3, <1>4 DEF Way
<1> QED
  BY <1>5 DEF s

(* A directory found in the one on top goes on top.                          *)
LEMMA WayPush ==
    ASSUME NEW t \in Trees, NEW l, NEW S, S \subseteq NodesOf(t), NEW s, Way(t, l, S, s), s # <<>>,
           NEW n \in s[Len(s)].entries, t.kind[n] = "dir"
    PROVE  /\ Way(t, l, S, Append(Without(s, n), OpenIn(t, S, n)))
           /\ Append(Without(s, n), OpenIn(t, S, n))[1].dir = s[1].dir
           /\ Append(Without(s, n), OpenIn(t, S, n)) # <<>>
<1> DEFINE w == Without(s, n)
           r == Append(w, OpenIn(t, S, n))
           c == Len(s)
           d == s[c].dir
<1>0. s \in Seq(Frames) /\ c \in Nat /\ c \in 1 .. c /\ 1 \in 1 .. c /\ Frame(t, l, S, s, c) /\ s[c] \in Frames
  <2>1. s \in Seq(Frames) /\ \A k \in 1 .. Len(s) : Frame(t, l, S, s, k)
    BY DEF Way
  <2>2. c \in Nat /\ c \in 1 .. c /\ 1 \in 1 .. c
    BY <2>1
  <2> QED
    BY <2>1, <2>2, ElementOfSeq
<1>1. /\ n \in S /\ n \in NodesOf(t) /\ n \in Nat /\ t.parent[n] = d /\ d \in NodesOf(t) /\ d < n
      /\ n \in ChildrenIn(t, S, d) /\ d \in Nat
  <2>1. n \in ChildrenIn(t, S, d) /\ d \in NodesOf(t)
    BY <1>0 DEF Frame
  <2> QED
    BY <2>1, OpenIs DEF ChildrenIn
<1>2. /\ w \in Seq(Frames) /\ Len(w) = c
      /\ \A k \in 1 .. c : w[k] = IF k = c THEN [dir |-> s[k].dir, entries |-> s[k].entries \ {n}] ELSE s[k]
  BY <1>0, WithoutIs
<1>3. /\ r \in Seq(Frames) /\ Len(r) = c + 1
      /\ \A k \in 1 .. c : r[k] = w[k]
      /\ r[c + 1] = OpenIn(t, S, n)
  <2> HIDE DEF w
  <2>1. OpenIn(t, S, n) \in Frames
    BY <1>1, OpenIs
  <2> QED
    BY <1>0, <1>2, <2>1
<1>4. /\ \A k \in 1 .. c : r[k].dir = s[k].dir
      /\ \A k \in 1 .. c : r[k].entries = IF k = c THEN s[k].entries \ {n} ELSE s[k].entries
      /\ r[c + 1].dir = n /\ r[c + 1].entries = ChildrenIn(t, S, n)
  <2>1. ASSUME NEW k \in 1 .. c
        PROVE  /\ r[k].dir = s[k].dir
               /\ r[k].entries = IF k = c THEN s[k].entries \ {n} ELSE s[k].entries
    <3>1. r[k] = IF k = c THEN [dir |-> s[k].dir, entries |-> s[k].entries \ {n}] ELSE s[k]
      BY <1>2, <1>3
    <3> QED
      BY <3>1
  <2>2. r[c + 1].dir = n /\ r[c + 1].entries = ChildrenIn(t, S, n)
    <3>1. OpenIn(t, S, n).dir = n /\ OpenIn(t, S, n).entries = ChildrenIn(t, S, n)
      BY DEF OpenIn
    <3> HIDE DEF r
    <3> QED
      BY <1>3, <3>1
  <2> QED
    BY <2>1, <2>2
<1>5. \A k \in 1 .. c : Frame(t, l, S, s, k)
  BY DEF Way
<1> HIDE DEF r, w
<1>6. ASSUME NEW k \in 1 .. c PROVE Frame(t, l, S, r, k)
  <2>0. k \in Nat /\ k <= c /\ k \in 1 .. c + 1 /\ (k # c => k + 1 \in 1 .. c /\ k < c)
    BY <1>0
  <2>1. Frame(t, l, S, s, k) /\ r[k].dir = s[k].dir /\ r[1].dir = s[1].dir
    BY <1>0, <1>4, <1>5
  <2>2. r[k].entries \subseteq ChildrenIn(t, S, r[k].dir)
    <3>1. r[k].entries \subseteq s[k].entries
      BY <1>4
    <3> QED
      BY <2>1, <3>1 DEF Frame
  <2>3. ASSUME NEW m \in ChildrenIn(t, S, r[k].dir) \ r[k].entries
        PROVE  k < Len(r) /\ m = r[k + 1].dir
    <3>1. CASE k = c
      <4>1. m = n \/ m \in ChildrenIn(t, S, s[k].dir) \ s[k].entries
        BY <1>4, <2>1, <2>3, <3>1
      <4>2. m = n
        BY <1>0, <2>1, <3>1, <4>1 DEF Frame
      <4> QED
        BY <1>0, <1>3, <1>4, <3>1, <4>2
    <3>2. CASE k # c
      <4>1. m \in ChildrenIn(t, S, s[k].dir) \ s[k].entries
        BY <1>4, <2>1, <2>3, <3>2
      <4>2. m = s[k + 1].dir
        BY <2>1, <4>1 DEF Frame
      <4> QED
        BY <1>0, <1>3, <1>4, <2>0, <3>2, <4>2
    <3> QED
      BY <3>1, <3>2
  <2>4. ASSUME NEW j \in 1 .. Len(r), j > k PROVE r[j].dir > r[k].dir
    <3>1. CASE j = c + 1
      <4>1. s[k].dir <= d
        <5>1. k # c => s[c].dir > s[k].dir
          BY <1>0, <2>0, <2>1 DEF Frame
        <5>2. s[k] \in Frames
          BY <1>0, ElementOfSeq
        <5>3. s[k].dir \in Nat
          BY <5>2 DEF Frames
        <5>4. CASE k = c
          BY <1>1, <5>4
        <5>5. CASE k # c
          BY <1>1, <5>1, <5>3, <5>5
        <5> QED
          BY <5>4, <5>5
      <4>2. s[k].dir \in Nat
        <5>1. s[k] \in Frames
          BY <1>0, ElementOfSeq
        <5> QED
          BY <5>1 DEF Frames
      <4>3. r[j].dir = n
        BY <1>4, <3>1
      <4> QED
        BY <1>1, <2>1, <4>1, <4>2, <4>3
    <3>2. CASE j # c + 1
      <4>1. j \in 1 .. c
        BY <1>0, <1>3, <3>2
      <4>2. s[j].dir > s[k].dir
        BY <2>1, <2>4, <4>1 DEF Frame
      <4> QED
        BY <1>4, <2>1, <4>1, <4>2
    <3> QED
      BY <3>1, <3>2
  <2>5. ASSUME k < Len(r)
        PROVE  r[k + 1].dir \notin r[k].entries /\ t.parent[r[k + 1].dir] = r[k].dir
    <3>1. CASE k = c
      BY <1>1, <1>4, <3>1
    <3>2. CASE k # c
      <4>1. s[k + 1].dir \notin s[k].entries /\ t.parent[s[k + 1].dir] = s[k].dir
        BY <2>0, <2>1, <3>2 DEF Frame
      <4> QED
        BY <1>4, <2>0, <3>2, <4>1
    <3> QED
      BY <3>1, <3>2
  <2> QED
    BY <2>1, <2>2, <2>3, <2>4, <2>5 DEF Frame
<1>7. Frame(t, l, S, r, c + 1)
  <2>1. r[1].dir = s[1].dir /\ r[c + 1].dir = n
    BY <1>0, <1>4
  <2>2. n \in AllowedIn(t, l) /\ n \in SubtreeIn(t, Root) /\ d \in SubtreeIn(t, Root) /\ n \in SubtreeIn(t, s[1].dir)
    <3>1. d \in AllowedIn(t, l) /\ d \in SubtreeIn(t, Root) /\ d \in SubtreeIn(t, s[1].dir)
      BY <1>0 DEF Frame
    <3> QED
      BY <1>1, <3>1, AllowedUnder, Under
  <2>3. ~ (c + 1 < Len(r)) /\ \A j \in 1 .. Len(r) : ~ (j > c + 1)
    BY <1>0, <1>3
  <2> QED
    BY <1>1, <1>4, <2>1, <2>2, <2>3 DEF Frame
<1>8. Way(t, l, S, r) /\ r # <<>> /\ r[1].dir = s[1].dir
  <2>1. \A k \in 1 .. Len(r) : k \in 1 .. c \/ k = c + 1
    BY <1>0, <1>3
  <2>2. r # <<>>
    BY <1>0, <1>3
  <2> QED
    BY <1>0, <1>3, <1>4, <1>6, <1>7, <2>1, <2>2 DEF Way
<1> QED
  BY <1>8 DEF r, w

(* What is known of the directory on top.                                    *)
LEMMA TopOf ==
    ASSUME NEW t \in Trees, NEW l, NEW S, S \subseteq NodesOf(t), NEW s, Way(t, l, S, s), s # <<>>
    PROVE  /\ s \in Seq(Frames) /\ Len(s) \in Nat /\ Len(s) \in 1 .. Len(s) /\ 1 \in 1 .. Len(s)
           /\ \A k \in 1 .. Len(s) : Frame(t, l, S, s, k)
           /\ s[Len(s)] \in Frames /\ s[Len(s)].dir \in S
           /\ \A n \in s[Len(s)].entries : n \in S /\ t.parent[n] = s[Len(s)].dir
           /\ ChildrenIn(t, S, s[Len(s)].dir) \subseteq s[Len(s)].entries
<1>1. s \in Seq(Frames) /\ \A k \in 1 .. Len(s) : Frame(t, l, S, s, k)
  BY DEF Way
<1>2. Len(s) \in Nat /\ Len(s) \in 1 .. Len(s) /\ 1 \in 1 .. Len(s)
  BY <1>1
<1>3. Frame(t, l, S, s, Len(s)) /\ s[Len(s)] \in Frames
  BY <1>1, <1>2, ElementOfSeq
<1>4. s[Len(s)].dir \in S /\ s[Len(s)].entries \subseteq ChildrenIn(t, S, s[Len(s)].dir)
  BY <1>3 DEF Frame
<1>5. ChildrenIn(t, S, s[Len(s)].dir) \subseteq s[Len(s)].entries
  BY <1>2, <1>3 DEF Frame
<1> QED
  BY <1>1, <1>2, <1>3, <1>4, <1>5 DEF ChildrenIn

(* A node that is no directory goes from the one on top.                     *)
LEMMA WayDrop ==
    ASSUME NEW t \in Trees, NEW l, NEW S, S \subseteq NodesOf(t), NEW s, Way(t, l, S, s), s # <<>>,
           NEW n \in s[Len(s)].entries, t.kind[n] # "dir"
    PROVE  Way(t, l, S \ {n}, Without(s, n)) /\ Without(s, n)[1].dir = s[1].dir /\ Without(s, n) # <<>>
<1> DEFINE r == Without(s, n)
           c == Len(s)
<1>0. /\ s \in Seq(Frames) /\ c \in Nat /\ c \in 1 .. c /\ 1 \in 1 .. c
      /\ n \in S /\ t.parent[n] = s[c].dir
      /\ \A k \in 1 .. c : Frame(t, l, S, s, k)
  BY TopOf
<1>1. /\ r \in Seq(Frames) /\ Len(r) = c
      /\ \A k \in 1 .. c : r[k] = IF k = c THEN [dir |-> s[k].dir, entries |-> s[k].entries \ {n}] ELSE s[k]
  BY <1>0, WithoutIs
<1>2. ASSUME NEW k \in 1 .. c
      PROVE  /\ r[k].dir = s[k].dir
             /\ r[k].entries = IF k = c THEN s[k].entries \ {n} ELSE s[k].entries
  <2>1. r[k] = IF k = c THEN [dir |-> s[k].dir, entries |-> s[k].entries \ {n}] ELSE s[k]
    BY <1>1
  <2> QED
    BY <2>1
<1> HIDE DEF r
<1>3. ASSUME NEW k \in 1 .. c PROVE Frame(t, l, S \ {n}, r, k)
  <2>0. k \in Nat /\ k <= c /\ (k # c => k + 1 \in 1 .. c /\ k < c)
    BY <1>0
  <2>1. Frame(t, l, S, s, k) /\ r[k].dir = s[k].dir /\ r[1].dir = s[1].dir
    BY <1>0, <1>2
  <2>2. r[k].dir \in S \ {n} /\ n \notin r[k].entries
    <3>1. r[k].dir # n
      BY <2>1 DEF Frame
    <3>2. CASE k = c
      BY <1>2, <2>1, <3>1, <3>2 DEF Frame
    <3>3. CASE k # c
      <4>1. s[k].dir # s[c].dir
        BY <1>0, <3>3, DirsDistinct
      <4>2. n \notin s[k].entries
        BY <1>0, <2>1, <4>1 DEF Frame, ChildrenIn
      <4>3. n \notin r[k].entries
        BY <1>2, <3>3, <4>2
      <4> QED
        BY <2>1, <3>1, <4>3 DEF Frame
    <3> QED
      BY <3>2, <3>3
  <2>3. r[k].entries \subseteq ChildrenIn(t, S \ {n}, r[k].dir)
    <3>1. r[k].entries \subseteq s[k].entries
      BY <1>2
    <3>2. s[k].entries \subseteq ChildrenIn(t, S, s[k].dir)
      BY <2>1 DEF Frame
    <3> QED
      BY <2>1, <2>2, <3>1, <3>2 DEF ChildrenIn
  <2>4. ASSUME NEW m \in ChildrenIn(t, S \ {n}, r[k].dir) \ r[k].entries
        PROVE  k < Len(r) /\ m = r[k + 1].dir
    <3>1. m \in ChildrenIn(t, S, s[k].dir) \ s[k].entries
      <4>1. m \in ChildrenIn(t, S, s[k].dir) /\ m # n
        BY <2>1 DEF ChildrenIn
      <4>2. m \notin s[k].entries
        BY <1>2, <2>4, <4>1
      <4> QED
        BY <4>1, <4>2
    <3>2. k < c /\ m = s[k + 1].dir
      BY <2>1, <3>1 DEF Frame
    <3>3. k + 1 \in 1 .. c
      BY <2>0, <3>2
    <3>4. r[k + 1].dir = s[k + 1].dir
      BY <1>2, <3>3
    <3> QED
      BY <1>1, <3>2, <3>4
  <2>5. \A j \in 1 .. c : j > k => r[j].dir > r[k].dir
    BY <1>2, <2>1 DEF Frame
  <2>6. ASSUME k < c
        PROVE  r[k + 1].dir \notin r[k].entries /\ t.parent[r[k + 1].dir] = r[k].dir
    <3>1. s[k + 1].dir \notin s[k].entries /\ t.parent[s[k + 1].dir] = s[k].dir
      BY <2>1, <2>6 DEF Frame
    <3>2. k + 1 \in 1 .. c /\ k # c
      BY <2>0, <2>6
    <3>3. r[k + 1].dir = s[k + 1].dir /\ r[k].entries = s[k].entries
      BY <1>2, <3>2
    <3> QED
      BY <2>1, <3>1, <3>3
  <2>7. /\ t.kind[r[k].dir] = "dir" /\ r[k].dir \in AllowedIn(t, l)
        /\ r[k].dir \in SubtreeIn(t, Root) /\ t.parent[r[k].dir] \in SubtreeIn(t, Root)
        /\ r[k].dir \in SubtreeIn(t, r[1].dir)
    BY <2>1 DEF Frame
  <2> QED
    BY <1>1, <2>2, <2>3, <2>4, <2>5, <2>6, <2>7 DEF Frame
<1>4. Way(t, l, S \ {n}, r) /\ r[1].dir = s[1].dir /\ r # <<>>
  <2>1. Way(t, l, S \ {n}, r)
    BY <1>1, <1>3 DEF Way
  <2>2. r # <<>>
    BY <1>0, <1>1
  <2>3. r[1].dir = s[1].dir
    BY <1>0, <1>2
  <2> QED
    BY <2>1, <2>2, <2>3
<1> QED
  BY <1>4 DEF r

(* An emptied directory goes from the way, and from the file system.         *)
LEMMA WayLeave ==
    ASSUME NEW t \in Trees, NEW l, NEW S, S \subseteq NodesOf(t), NEW s, Way(t, l, S, s), s # <<>>,
           s[Len(s)].entries = {}
    PROVE  /\ Way(t, l, S \ {s[Len(s)].dir}, Front(s))
           /\ Len(s) # 1 => Front(s) # <<>> /\ Front(s)[1].dir = s[1].dir
           /\ Len(s) = 1 => Front(s) = <<>>
<1> DEFINE r == Front(s)
           c == Len(s)
           d == s[c].dir
<1>0. /\ s \in Seq(Frames) /\ c \in Nat /\ c \in 1 .. c /\ 1 \in 1 .. c
      /\ \A k \in 1 .. c : Frame(t, l, S, s, k)
  BY TopOf
<1>1. /\ r \in Seq(Frames) /\ Len(r) = c - 1
      /\ \A k \in 1 .. c - 1 : r[k] = s[k]
  <2>1. 1 \in Int /\ c - 1 \in Int /\ \A i \in 1 .. c - 1 : s[i] \in Frames
    BY <1>0
  <2>2. /\ SubSeq(s, 1, c - 1) \in Seq(Frames)
        /\ Len(SubSeq(s, 1, c - 1)) = IF 1 <= c - 1 THEN c - 1 - 1 + 1 ELSE 0
        /\ \A i \in 1 .. c - 1 - 1 + 1 : SubSeq(s, 1, c - 1)[i] = s[1 + i - 1]
    BY <2>1, SubSeqProperties
  <2>3. r = SubSeq(s, 1, c - 1)
    BY DEF Front
  <2> HIDE DEF r, c
  <2>4. c - 1 - 1 + 1 = c - 1 /\ c \in Nat /\ c >= 1
    BY <1>0
  <2>5. Len(r) = c - 1
    BY <2>2, <2>3, <2>4
  <2>6. ASSUME NEW k \in 1 .. c - 1 PROVE r[k] = s[k]
    <3>1. 1 + k - 1 = k
      BY <2>4
    <3> QED
      BY <2>2, <2>3, <2>4, <3>1
  <2> QED
    BY <2>2, <2>3, <2>5, <2>6
<1>2. c \in Nat /\ c >= 1
  BY <1>0
<1> HIDE DEF r
<1>3. ASSUME NEW k \in 1 .. c - 1 PROVE Frame(t, l, S \ {d}, r, k)
  <2>0. k \in Nat /\ k < c /\ k \in 1 .. c /\ k # c /\ c - 1 \in 1 .. c /\ k + 1 \in 1 .. c
        /\ 1 \in 1 .. c - 1 /\ c - 1 < c /\ c - 1 + 1 = c
    BY <1>0
  <2>1. Frame(t, l, S, s, k) /\ r[k] = s[k] /\ r[1] = s[1]
    BY <1>0, <1>1, <2>0
  <2>2. s[k].dir # d
    BY <1>0, <2>0, DirsDistinct
  <2>3. d \notin s[k].entries
    <3>1. t.parent[d] = s[c - 1].dir /\ d \notin s[c - 1].entries
      <4>1. Frame(t, l, S, s, c - 1)
        BY <1>0, <2>0
      <4> QED
        BY <2>0, <4>1 DEF Frame
    <3>2. CASE k = c - 1
      BY <3>1, <3>2
    <3>3. CASE k # c - 1
      <4>1. s[k].dir # s[c - 1].dir
        BY <2>0, <3>3, DirsDistinct
      <4> QED
        BY <2>1, <3>1, <4>1 DEF Frame, ChildrenIn
    <3> QED
      BY <3>2, <3>3
  <2>4. s[k].entries \subseteq ChildrenIn(t, S \ {d}, s[k].dir)
    <3>1. s[k].entries \subseteq ChildrenIn(t, S, s[k].dir)
      BY <2>1 DEF Frame
    <3> QED
      BY <2>3, <3>1 DEF ChildrenIn
  <2>5. ASSUME NEW m \in ChildrenIn(t, S \ {d}, s[k].dir) \ s[k].entries
        PROVE  k < c - 1 /\ m = r[k + 1].dir
    <3>1. m \in ChildrenIn(t, S, s[k].dir) \ s[k].entries /\ m # d
      BY DEF ChildrenIn
    <3>2. m = s[k + 1].dir
      BY <2>1, <3>1 DEF Frame
    <3>3. k + 1 # c
      BY <3>1, <3>2
    <3>4. k + 1 \in 1 .. c - 1
      <4> HIDE DEF c
      <4> QED
        BY <1>2, <2>0, <3>3
    <3> QED
      BY <1>1, <2>0, <3>2, <3>3, <3>4
  <2>6. \A j \in 1 .. c - 1 : j > k => r[j].dir > r[k].dir
    <3>1. ASSUME NEW j \in 1 .. c - 1, j > k PROVE s[j].dir > s[k].dir
      <4>1. j \in 1 .. c
        BY <1>0
      <4> QED
        BY <2>1, <3>1, <4>1 DEF Frame
    <3> QED
      BY <1>1, <2>1, <3>1
  <2>7. ASSUME k < c - 1
        PROVE  r[k + 1].dir \notin r[k].entries /\ t.parent[r[k + 1].dir] = r[k].dir
    <3>1. s[k + 1].dir \notin s[k].entries /\ t.parent[s[k + 1].dir] = s[k].dir
      BY <2>0, <2>1 DEF Frame
    <3>2. k + 1 \in 1 .. c - 1
      BY <1>0, <2>0, <2>7
    <3> QED
      BY <1>1, <2>1, <3>1, <3>2
  <2>8. /\ s[k].dir \in S /\ t.kind[s[k].dir] = "dir" /\ s[k].dir \in AllowedIn(t, l)
        /\ s[k].dir \in SubtreeIn(t, Root) /\ t.parent[s[k].dir] \in SubtreeIn(t, Root)
        /\ s[k].dir \in SubtreeIn(t, s[1].dir)
    BY <2>1 DEF Frame
  <2> QED
    BY <1>1, <2>1, <2>2, <2>4, <2>5, <2>6, <2>7, <2>8 DEF Frame
<1>4. Way(t, l, S \ {d}, r)
  BY <1>1, <1>3 DEF Way
<1>5. ASSUME c # 1 PROVE r # <<>> /\ r[1] = s[1]
  <2>1. 1 \in 1 .. c - 1
    <3> HIDE DEF c
    <3> QED
      BY <1>2, <1>5
  <2> QED
    BY <1>0, <1>1, <1>5, <2>1
<1>6. c = 1 => r = <<>>
  BY <1>1
<1> QED
  BY <1>4, <1>5, <1>6 DEF r

-----------------------------------------------------------------------------
(* What is under a node that is gone, or empty, and what files weigh.        *)

ExistsIn(t, S, e) == Last(e) \in ChildrenIn(t, S, ParentIn(t, S, e))

(* Exists, for the tree of the state.                                        *)
LEMMA ExistsTree == ASSUME NEW S, NEW e PROVE Exists(S, e) = ExistsIn(tree, S, e)
BY ParentTree DEF Exists, ExistsIn, Children, ChildrenIn

(* A path that leads somewhere leads to the same place among more nodes.     *)
LEMMA ExistsGrows ==
    ASSUME NEW t \in Trees, NEW S, S \subseteq NodesOf(t), NEW R, R \subseteq S,
           NEW e \in Seq(Nat), e # <<>>, ExistsIn(t, R, e)
    PROVE  /\ ExistsIn(t, S, e) /\ ParentIn(t, S, e) = ParentIn(t, R, e)
           /\ Last(e) \in R /\ t.parent[Last(e)] = ParentIn(t, R, e)
<1>1. /\ Last(e) \in R /\ t.parent[Last(e)] = ParentIn(t, R, e)
      /\ ParentIn(t, R, e) # Nowhere
  BY DEF ExistsIn, ChildrenIn
<1>2. ParentIn(t, S, e) = ParentIn(t, R, e)
  BY <1>1, ParentGrows
<1>3. ExistsIn(t, S, e)
  BY <1>1, <1>2 DEF ExistsIn, ChildrenIn
<1> QED
  BY <1>1, <1>2, <1>3

(* No node is without its directory.                                         *)
ClosedIn(t, S) == \A n \in S : t.parent[n] # 0 => t.parent[n] \in S

(* What is under n, but for n, is in a directory under n.                    *)
LEMMA UpFrom ==
    ASSUME NEW t \in Trees, NEW n \in NodesOf(t), NEW i \in SubtreeIn(t, n), i # n
    PROVE  t.parent[i] # 0 /\ t.parent[i] \in SubtreeIn(t, n) /\ t.parent[i] < i /\ i \in Nat
<1>1. i \in NodesOf(t) /\ n \in Above(t)[i]
  BY DEF SubtreeIn
<1>2. Above(t)[i] = {i} \union IF t.parent[i] = 0 THEN {} ELSE Above(t)[t.parent[i]]
  BY <1>1, AboveSteps
<1>3. t.parent[i] # 0 /\ n \in Above(t)[t.parent[i]]
  BY <1>1, <1>2
<1>4. /\ NodesOf(t) = 1 .. Count(t) /\ Count(t) \in Nat
      /\ t.parent[i] \in 0 .. i - 1 /\ t.parent[i] \in NodesOf(t)
  BY <1>1, <1>3, TreeShape
<1>5. t.parent[i] < i /\ i \in Nat
  BY <1>1, <1>4
<1> QED
  BY <1>3, <1>4, <1>5 DEF SubtreeIn

(* Nothing is under a node that is gone.                                     *)
LEMMA NoneUnder ==
    ASSUME NEW t \in Trees, NEW S, S \subseteq NodesOf(t), ClosedIn(t, S), NEW n \in NodesOf(t), n \notin S
    PROVE  SubtreeIn(t, n) \intersect S = {}
<1> DEFINE T == SubtreeIn(t, n) \intersect S
<1> SUFFICES ASSUME T # {} PROVE FALSE
  OBVIOUS
<1>1. T \subseteq Nat
  BY UpFrom
<1>2. PICK x \in T : \A y \in T : x <= y
  <2> HIDE DEF T
  <2> QED
    BY <1>1, LeastNumber
<1>3. t.parent[x] # 0 /\ t.parent[x] \in SubtreeIn(t, n) /\ t.parent[x] < x /\ x \in Nat
  BY <1>2, UpFrom
<1>4. t.parent[x] \in T
  BY <1>2, <1>3 DEF ClosedIn
<1>5. x <= t.parent[x] /\ t.parent[x] \in Nat
  BY <1>1, <1>2, <1>4
<1> QED
  BY <1>3, <1>5

(* Nor under one that has no children.                                       *)
LEMMA BareAlone ==
    ASSUME NEW t \in Trees, NEW S, S \subseteq NodesOf(t), ClosedIn(t, S), NEW n \in S, ChildrenIn(t, S, n) = {}
    PROVE  SubtreeIn(t, n) \intersect S = {n}
<1> DEFINE T == (SubtreeIn(t, n) \ {n}) \intersect S
<1>0. n \in NodesOf(t) /\ n \in SubtreeIn(t, n) /\ n # Nowhere
  <2>1. n \in NodesOf(t)
    OBVIOUS
  <2>2. n # Nowhere
    BY <2>1, TreeShape DEF Nowhere
  <2> QED
    BY <2>1, <2>2, Under
<1> SUFFICES ASSUME T # {} PROVE FALSE
  BY <1>0
<1>1. \A x \in T : x \in SubtreeIn(t, n) /\ x # n
  OBVIOUS
<1>2. \A x \in T : t.parent[x] # 0 /\ t.parent[x] \in SubtreeIn(t, n) /\ t.parent[x] < x /\ x \in Nat
  <2> HIDE DEF T
  <2> QED
    BY <1>0, <1>1, UpFrom
<1>3. PICK x \in T : \A y \in T : x <= y
  <2>1. T \subseteq Nat
    BY <1>2
  <2> HIDE DEF T
  <2> QED
    BY <2>1, LeastNumber
<1>4. t.parent[x] \in S /\ t.parent[x] \in SubtreeIn(t, n)
  BY <1>2, <1>3 DEF ClosedIn
<1>5. t.parent[x] # n
  BY <1>0, <1>3 DEF ChildrenIn
<1>6. t.parent[x] \in T
  BY <1>4, <1>5
<1>7. x <= t.parent[x] /\ t.parent[x] < x /\ x \in Nat /\ t.parent[x] \in Nat
  BY <1>2, <1>3, <1>6
<1> QED
  BY <1>7

(* Only directories have children.                                           *)
LEMMA LeafBare ==
    ASSUME NEW t \in Trees, NEW S, S \subseteq NodesOf(t), NEW n \in NodesOf(t), t.kind[n] # "dir"
    PROVE  ChildrenIn(t, S, n) = {}
<1>1. \A m \in NodesOf(t) : t.parent[m] # 0 => t.kind[t.parent[m]] = "dir"
  BY TreeShape
<1>2. n # 0
  BY TreeShape
<1> QED
  BY <1>1, <1>2 DEF ChildrenIn

(* The files among some nodes, and what they weigh together.                 *)
FilesIn(t, X) == {f \in X : t.kind[f] = "file"}
SizeIn(t, X) == SumOf(Itself, FilesIn(t, X))

(* Files are a finite set of numbers.                                        *)
LEMMA FilesFinite ==
    ASSUME NEW t \in Trees, NEW X, X \subseteq NodesOf(t)
    PROVE  IsFiniteSet(FilesIn(t, X)) /\ \A f \in FilesIn(t, X) : f \in Nat /\ Itself[f] \in Nat
<1>1. IsFiniteSet(NodesOf(t))
  BY TreeShape
<1>2. FilesIn(t, X) \in SUBSET NodesOf(t)
  BY DEF FilesIn
<1>3. \A f \in NodesOf(t) : f \in Nat /\ Itself[f] \in Nat
  <2>1. \A f \in NodesOf(t) : f \in Nat
    BY TreeShape
  <2> QED
    BY <2>1 DEF Itself
<1> QED
  BY <1>1, <1>2, <1>3, FS_Subset

(* The files of two parts of the tree weigh what the parts weigh.            *)
LEMMA SizesAdd ==
    ASSUME NEW t \in Trees, NEW X, X \subseteq NodesOf(t), NEW Y, Y \subseteq NodesOf(t), X \intersect Y = {}
    PROVE  /\ SizeIn(t, X) \in Nat /\ SizeIn(t, Y) \in Nat
           /\ SizeIn(t, X \union Y) = SizeIn(t, X) + SizeIn(t, Y)
<1>1. IsFiniteSet(FilesIn(t, X)) /\ \A f \in FilesIn(t, X) : Itself[f] \in Nat
  BY FilesFinite
<1>2. IsFiniteSet(FilesIn(t, Y)) /\ \A f \in FilesIn(t, Y) : Itself[f] \in Nat
  BY FilesFinite
<1>3. FilesIn(t, X \union Y) = FilesIn(t, X) \union FilesIn(t, Y) /\ FilesIn(t, X) \intersect FilesIn(t, Y) = {}
  BY DEF FilesIn
<1>4. \A f \in FilesIn(t, X) \union FilesIn(t, Y) : Itself[f] \in Nat
  BY <1>1, <1>2
<1>5. SumOf(Itself, FilesIn(t, X) \union FilesIn(t, Y)) = SumOf(Itself, FilesIn(t, X)) + SumOf(Itself, FilesIn(t, Y))
  BY <1>1, <1>2, <1>3, <1>4, SumDisjoint
<1> QED
  BY <1>1, <1>2, <1>3, <1>5, SumSteps DEF SizeIn

(* No files weigh nothing.                                                   *)
LEMMA SizesNone ==
    ASSUME NEW t \in Trees PROVE SizeIn(t, {}) = 0
<1>1. FilesIn(t, {}) = {} /\ IsFiniteSet(FilesIn(t, {}))
  BY FilesFinite DEF FilesIn
<1>2. \A f \in FilesIn(t, {}) : Itself[f] \in Nat
  BY <1>1
<1> QED
  BY <1>1, <1>2, SumSteps DEF SizeIn

(* TreeSize, for the tree of the state.                                      *)
LEMMA TreeSizeIs ==
    ASSUME tree \in Trees, NEW S, NEW n
    PROVE  TreeSize(S, n) = SizeIn(tree, SubtreeIn(tree, n) \intersect S)
<1> DEFINE F == FilesIn(tree, SubtreeIn(tree, n) \intersect S)
<1>1. F \subseteq Nat
  <2>1. NodesOf(tree) \subseteq Nat
    BY TreeShape
  <2> QED
    BY <2>1 DEF FilesIn, SubtreeIn
<1>2. TreeSize(S, n) = SumSet(F)
  BY SubtreeTree DEF TreeSize, FilesIn
<1> HIDE DEF F
<1>3. SumSet(F) = SumOf(Itself, F)
  BY <1>1, SumSetIs
<1> QED
  BY <1>2, <1>3 DEF SizeIn, F

-----------------------------------------------------------------------------
(* The steps.                                                                *)

(* What an attempt to unlink a node that holds nothing does.                 *)
Removes(n) ==
    /\ there' = there \ {n}
    /\ locked' \subseteq locked /\ locked \ locked' \subseteq {n, tree.parent[n]}

(* unlink_at removes a node without children, whatever its attributes.       *)
LEMMA UnlinkRemoves ==
    ASSUME NEW n, ChildrenIn(tree, there, n) = {}, Unlink(n)
    PROVE  Removes(n) /\ n \notin there'
BY DEF Unlink, Removes, Children, ChildrenIn

(* The cases of NextEntry.                                                   *)
LEMMA EntryCases ==
    ASSUME tree \in Trees, there \subseteq NodesOf(tree), NEW e \in Seq(Nat), e # <<>>, NextEntry(e)
    PROVE  /\ pc = "entries" /\ e \in todo /\ todo' = todo \ {e}
           /\ UNCHANGED <<tree, locked0, excludes>>
           /\ \/ /\ ~ ExistsIn(tree, there, e)
                 /\ UNCHANGED <<pc, stack, paths, bytes, locked, there>>
              \/ /\ ExistsIn(tree, there, e)
                 /\ ParentIn(tree, there, e) \notin SubtreeIn(tree, Root)
                 /\ pc' = "failed" /\ UNCHANGED <<stack, paths, bytes, locked, there>>
              \/ /\ ExistsIn(tree, there, e)
                 /\ ParentIn(tree, there, e) \in SubtreeIn(tree, Root)
                 /\ paths' = paths + 1
                 /\ bytes' = bytes + SizeIn(tree, SubtreeIn(tree, Last(e)) \intersect there)
                 /\ \/ /\ tree.kind[Last(e)] = "dir"
                       /\ stack' = <<OpenIn(tree, there, Last(e))>> /\ pc' = "walk"
                       /\ UNCHANGED <<locked, there>>
                    \/ /\ tree.kind[Last(e)] # "dir" /\ Removes(Last(e)) /\ pc' = "entries"
                       /\ ChildrenIn(tree, there, Last(e)) = {}
                       /\ UNCHANGED stack
<1> DEFINE at == Locate(there, e)
<1>1. /\ at.found = ExistsIn(tree, there, e) /\ at.node = Last(e)
      /\ at.refused = (ParentIn(tree, there, e) \notin SubtreeIn(tree, Root))
  BY ExistsTree, ParentTree, SubtreeTree DEF Locate
<1>2. TreeSize(there, at.node) = SizeIn(tree, SubtreeIn(tree, Last(e)) \intersect there)
  BY <1>1, TreeSizeIs
<1>3. Open(at.node) = OpenIn(tree, there, Last(e))
  BY <1>1 DEF Open, OpenIn, Children, ChildrenIn
<1>4. ASSUME ExistsIn(tree, there, e), tree.kind[Last(e)] # "dir"
      PROVE  ChildrenIn(tree, there, Last(e)) = {}
  <2>1. Last(e) \in NodesOf(tree)
    BY <1>4 DEF ExistsIn, ChildrenIn
  <2> QED
    BY <1>4, <2>1, LeafBare
<1>5. IsDir(at.node) <=> tree.kind[Last(e)] = "dir"
  BY <1>1 DEF IsDir
<1>6. /\ pc = "entries" /\ e \in todo /\ todo' = todo \ {e}
      /\ UNCHANGED <<tree, locked0, excludes>>
      /\ \/ ~ at.found /\ UNCHANGED <<pc, stack, paths, bytes, locked, there>>
         \/ /\ at.found /\ at.refused
            /\ pc' = "failed"
            /\ UNCHANGED <<stack, paths, bytes, locked, there>>
         \/ /\ at.found /\ ~ at.refused
            /\ paths' = paths + 1 /\ bytes' = bytes + TreeSize(there, at.node)
            /\ IF IsDir(at.node)
               THEN /\ stack' = <<Open(at.node)>> /\ pc' = "walk"
                    /\ UNCHANGED <<locked, there>>
               ELSE Unlink(at.node) /\ After(at.node, "entries") /\ UNCHANGED stack
  BY DEF NextEntry
<1>7. ASSUME ExistsIn(tree, there, e), tree.kind[Last(e)] # "dir",
             Unlink(at.node), After(at.node, "entries")
      PROVE  Removes(Last(e)) /\ pc' = "entries"
  <2>1. Unlink(Last(e)) /\ After(Last(e), "entries")
    BY <1>1, <1>7
  <2> QED
    BY <1>4, <1>7, <2>1, UnlinkRemoves DEF After
<1> HIDE DEF at
<1> QED
  BY <1>1, <1>2, <1>3, <1>4, <1>5, <1>6, <1>7

(* The cases of Visit.                                                       *)
LEMMA VisitCases ==
    ASSUME tree \in Trees, there \subseteq NodesOf(tree), Way(tree, excludes, there, stack), stack # <<>>,
           NEW n, Visit(n)
    PROVE  /\ pc = "walk" /\ n \in stack[Len(stack)].entries
           /\ UNCHANGED <<tree, locked0, excludes, todo, paths, bytes>>
           /\ \/ /\ tree.kind[n] = "dir"
                 /\ stack' = Append(Without(stack, n), OpenIn(tree, there, n))
                 /\ UNCHANGED <<locked, there, pc>>
              \/ /\ tree.kind[n] # "dir"
                 /\ stack' = Without(stack, n)
                 /\ Removes(n) /\ pc' = "walk" /\ ChildrenIn(tree, there, n) = {}
<1>1. /\ pc = "walk" /\ n \in stack[Len(stack)].entries
      /\ UNCHANGED <<tree, locked0, excludes, todo, paths, bytes>>
  BY DEF Visit, Top
<1>2. n \in NodesOf(tree)
  BY <1>1, TopOf
<1>3. Pop(n) = Without(stack, n) /\ Open(n) = OpenIn(tree, there, n)
  BY DEF Pop, Without, Open, OpenIn, Children, ChildrenIn
<1>4. CASE IsDir(n)
  BY <1>1, <1>3, <1>4 DEF Visit, IsDir
<1>5. CASE ~ IsDir(n)
  <2>1. stack' = Pop(n) /\ Unlink(n) /\ After(n, "walk") /\ tree.kind[n] # "dir"
    BY <1>5 DEF Visit, IsDir
  <2>2. ChildrenIn(tree, there, n) = {}
    BY <1>2, <2>1, LeafBare
  <2>3. Removes(n) /\ n \notin there'
    BY <2>1, <2>2, UnlinkRemoves
  <2> QED
    BY <1>1, <1>3, <2>1, <2>2, <2>3 DEF After
<1> QED
  BY <1>4, <1>5

(* What Leave does.                                                          *)
LEMMA LeaveDoes ==
    ASSUME tree \in Trees, there \subseteq NodesOf(tree), Way(tree, excludes, there, stack), stack # <<>>,
           Leave, NEW n, n = stack[Len(stack)].dir
    PROVE  /\ pc = "walk" /\ stack[Len(stack)].entries = {}
           /\ UNCHANGED <<tree, locked0, excludes, todo, paths, bytes>>
           /\ stack' = Front(stack) /\ Removes(n) /\ ChildrenIn(tree, there, n) = {}
           /\ pc' = IF Len(stack) = 1 THEN "entries" ELSE "walk"
<1>1. /\ pc = "walk" /\ stack[Len(stack)].entries = {}
      /\ UNCHANGED <<tree, locked0, excludes, todo, paths, bytes>>
      /\ stack' = Front(stack)
  BY DEF Leave, Top
<1>2. ChildrenIn(tree, there, n) = {}
  BY <1>1, TopOf
<1>3. Unlink(n) /\ After(n, IF Len(stack) = 1 THEN "entries" ELSE "walk")
  BY DEF Leave, Top
<1>4. Removes(n) /\ n \notin there'
  BY <1>2, <1>3, UnlinkRemoves
<1> QED
  BY <1>1, <1>2, <1>3, <1>4 DEF After

-----------------------------------------------------------------------------
(* What is removed, and what is cleared for it.                              *)

(* Attributes are cleared where ClearedAreNeeded says.                       *)
ClearedIn(t, S, L0, L) ==
    \A n \in L0 \ L : /\ n \in SubtreeIn(t, Root)
                      /\ n \notin S \/ \E m \in NodesOf(t) \ S : t.parent[m] = n

(* The state is well formed: the stack is a way down.                        *)
Basic ==
    /\ tree \in Trees /\ excludes \in Lists
    /\ there \subseteq NodesOf(tree) /\ locked \subseteq locked0 /\ todo \subseteq excludes
    /\ pc \in {"entries", "walk", "done", "failed"}
    /\ paths \in Nat /\ bytes \in Nat
    /\ (pc = "walk" <=> stack # <<>>)
    /\ (pc = "done" => todo = {})
    /\ ClosedIn(tree, there)
    /\ Way(tree, excludes, there, stack)

(* What is gone was excluded, what is cleared was needed.                    *)
Harmless ==
    /\ NodesOf(tree) \ there \subseteq AllowedIn(tree, excludes)
    /\ ClearedIn(tree, there, locked0, locked)

(* An entry inside of the copy may go, and is in a directory of the copy.    *)
LEMMA TakenIs ==
    ASSUME NEW t \in Trees, NEW l \in Lists, NEW S, S \subseteq NodesOf(t), NEW e \in l,
           ExistsIn(t, S, e), ParentIn(t, S, e) \in SubtreeIn(t, Root)
    PROVE  /\ Last(e) \in S /\ Last(e) \in NodesOf(t)
           /\ Last(e) \in AllowedIn(t, l)
           /\ Last(e) \in SubtreeIn(t, Root) /\ t.parent[Last(e)] \in SubtreeIn(t, Root)
<1>1. e \in Seq(Nat) /\ e # <<>>
  BY ListsAssumption
<1>2. /\ ExistsIn(t, NodesOf(t), e) /\ ParentIn(t, NodesOf(t), e) = ParentIn(t, S, e)
      /\ Last(e) \in S /\ t.parent[Last(e)] = ParentIn(t, S, e)
  BY <1>1, ExistsGrows
<1>3. Last(e) \in NodesOf(t) /\ e \in Excluded(t, l)
  BY <1>2 DEF Excluded, ExistsIn
<1>4. Last(e) \in SubtreeIn(t, Last(e)) /\ Last(e) \in SubtreeIn(t, Root)
  BY <1>2, <1>3, Under
<1> QED
  BY <1>2, <1>3, <1>4 DEF AllowedIn

(* No directory goes before what it holds.                                   *)
LEMMA RemovalCloses ==
    ASSUME NEW t \in Trees, NEW S, S \subseteq NodesOf(t), ClosedIn(t, S), NEW n, ChildrenIn(t, S, n) = {}
    PROVE  ClosedIn(t, S \ {n})
BY DEF ClosedIn, ChildrenIn, Nowhere

(* Attributes cleared for a removal are needed for it.                       *)
LEMMA RemovalClears ==
    ASSUME NEW t \in Trees, NEW S, S \subseteq NodesOf(t), NEW n \in S, NEW L0, NEW L, NEW M,
           ClearedIn(t, S, L0, L), M \subseteq L, L \ M \subseteq {n, t.parent[n]},
           n \in SubtreeIn(t, Root), t.parent[n] \in SubtreeIn(t, Root)
    PROVE  ClearedIn(t, S \ {n}, L0, M)
<1> SUFFICES ASSUME NEW m \in L0 \ M
             PROVE  /\ m \in SubtreeIn(t, Root)
                    /\ m \notin S \ {n} \/ \E k \in NodesOf(t) \ (S \ {n}) : t.parent[k] = m
  BY DEF ClearedIn
<1>1. CASE m \in L0 \ L
  <2>1. m \in SubtreeIn(t, Root) /\ (m \notin S \/ \E k \in NodesOf(t) \ S : t.parent[k] = m)
    BY <1>1 DEF ClearedIn
  <2> QED
    BY <2>1
<1>2. CASE m \notin L0 \ L
  <2>1. m = n \/ m = t.parent[n]
    BY <1>2
  <2>2. n \in NodesOf(t) \ (S \ {n})
    OBVIOUS
  <2> QED
    BY <2>1, <2>2
<1> QED
  BY <1>1, <1>2

(* An entry of the list keeps the invariant.                                 *)
LEMMA EntryKeeps ==
    ASSUME Basic, NEW e, NextEntry(e)
    PROVE  Basic' /\ (Harmless => Harmless')
<1>0. /\ tree \in Trees /\ excludes \in Lists /\ there \subseteq NodesOf(tree)
      /\ e \in todo /\ e \in excludes /\ e \in Seq(Nat) /\ e # <<>>
      /\ pc = "entries" /\ stack = <<>> /\ bytes \in Nat /\ paths \in Nat
      /\ ClosedIn(tree, there) /\ Way(tree, excludes, there, stack)
      /\ locked \subseteq locked0 /\ todo \subseteq excludes
  <2>1. e \in todo /\ pc = "entries"
    BY DEF NextEntry
  <2> QED
    BY <2>1, ListsAssumption DEF Basic
<1>1. todo' = todo \ {e} /\ UNCHANGED <<tree, locked0, excludes>>
  BY <1>0, EntryCases
<1>2. CASE pc' # "walk" /\ UNCHANGED <<stack, paths, bytes, locked, there>> /\ pc' \in {"entries", "failed"}
  BY <1>0, <1>1, <1>2 DEF Basic, Harmless
<1>3. CASE /\ ExistsIn(tree, there, e)
           /\ ParentIn(tree, there, e) \in SubtreeIn(tree, Root)
           /\ paths' = paths + 1
           /\ bytes' = bytes + SizeIn(tree, SubtreeIn(tree, Last(e)) \intersect there)
  <2>1. /\ Last(e) \in there /\ Last(e) \in NodesOf(tree)
        /\ Last(e) \in AllowedIn(tree, excludes)
        /\ Last(e) \in SubtreeIn(tree, Root) /\ tree.parent[Last(e)] \in SubtreeIn(tree, Root)
    BY <1>0, <1>3, TakenIs
  <2>2. paths' \in Nat /\ bytes' \in Nat
    <3> DEFINE X == SubtreeIn(tree, Last(e)) \intersect there
    <3>1. X \subseteq NodesOf(tree) /\ X \intersect {} = {}
      BY <1>0
    <3>2. SizeIn(tree, X) \in Nat
      <4> HIDE DEF X
      <4> QED
        BY <1>0, <3>1, SizesAdd
    <3> QED
      BY <1>0, <1>3, <3>2
  <2>3. CASE /\ tree.kind[Last(e)] = "dir" /\ stack' = <<OpenIn(tree, there, Last(e))>> /\ pc' = "walk"
             /\ UNCHANGED <<locked, there>>
    <3>1. Way(tree, excludes, there, <<OpenIn(tree, there, Last(e))>>)
      BY <1>0, <2>1, <2>3, WayOpen
    <3>2. stack' # <<>>
      BY <2>3
    <3> QED
      BY <1>0, <1>1, <2>2, <2>3, <3>1, <3>2 DEF Basic, Harmless
  <2>4. CASE /\ Removes(Last(e)) /\ pc' = "entries" /\ ChildrenIn(tree, there, Last(e)) = {}
             /\ UNCHANGED stack
    <3>1. PICK n : n = Last(e)
      OBVIOUS
    <3>2. there' = there \ {n} /\ locked' \subseteq locked /\ locked \ locked' \subseteq {n, tree.parent[n]}
      BY <2>4, <3>1 DEF Removes
    <3>3. ClosedIn(tree, there \ {n})
      BY <1>0, <2>4, <3>1, RemovalCloses
    <3>4. Way(tree, excludes, there \ {n}, <<>>)
      BY DEF Way
    <3>5. Basic'
      BY <1>0, <1>1, <2>2, <2>4, <3>2, <3>3, <3>4 DEF Basic
    <3>6. ASSUME Harmless PROVE Harmless'
      <4>1. NodesOf(tree) \ (there \ {n}) \subseteq AllowedIn(tree, excludes)
        BY <2>1, <3>1, <3>6 DEF Harmless
      <4>2. PICK M : M = locked'
        OBVIOUS
      <4>3. ClearedIn(tree, there \ {n}, locked0, M)
        BY <1>0, <2>1, <3>1, <3>2, <3>6, <4>2, RemovalClears DEF Harmless
      <4> QED
        BY <1>1, <3>2, <4>1, <4>2, <4>3 DEF Harmless
    <3> QED
      BY <3>5, <3>6
  <2> QED
    BY <1>0, <1>3, <2>3, <2>4, EntryCases
<1> QED
  BY <1>0, <1>2, <1>3, EntryCases

(* Removing a node that holds nothing, inside of what may go.                *)
LEMMA RemovalHarmless ==
    ASSUME Basic, Harmless, NEW n, n \in there, Removes(n), UNCHANGED <<tree, locked0, excludes>>,
           n \in AllowedIn(tree, excludes),
           n \in SubtreeIn(tree, Root), tree.parent[n] \in SubtreeIn(tree, Root)
    PROVE  Harmless'
<1>1. NodesOf(tree) \ (there \ {n}) \subseteq AllowedIn(tree, excludes)
  BY DEF Harmless
<1>2. PICK M : M = locked'
  OBVIOUS
<1>3. ClearedIn(tree, there \ {n}, locked0, M)
  BY <1>2, RemovalClears DEF Basic, Harmless, Removes
<1> QED
  BY <1>1, <1>2, <1>3 DEF Harmless, Removes

(* What is on top, and what is in it, may go, and is in the copy.            *)
LEMMA TopAllowed ==
    ASSUME NEW t \in Trees, NEW l, NEW S, S \subseteq NodesOf(t), NEW s, Way(t, l, S, s), s # <<>>
    PROVE  /\ s[Len(s)].dir \in AllowedIn(t, l)
           /\ s[Len(s)].dir \in SubtreeIn(t, Root) /\ t.parent[s[Len(s)].dir] \in SubtreeIn(t, Root)
           /\ s[Len(s)].dir \in SubtreeIn(t, s[1].dir)
           /\ \A n \in s[Len(s)].entries : /\ n \in S /\ n \in AllowedIn(t, l)
                                          /\ n \in SubtreeIn(t, Root) /\ t.parent[n] \in SubtreeIn(t, Root)
                                          /\ n \in SubtreeIn(t, s[1].dir)
<1> DEFINE d == s[Len(s)].dir
<1>1. Frame(t, l, S, s, Len(s)) /\ \A n \in s[Len(s)].entries : n \in S /\ t.parent[n] = d
  BY TopOf
<1>2. d \in AllowedIn(t, l) /\ d \in SubtreeIn(t, Root) /\ t.parent[d] \in SubtreeIn(t, Root)
      /\ d \in SubtreeIn(t, s[1].dir)
  BY <1>1 DEF Frame
<1> HIDE DEF d
<1>3. ASSUME NEW n \in s[Len(s)].entries
      PROVE  /\ n \in S /\ n \in AllowedIn(t, l)
             /\ n \in SubtreeIn(t, Root) /\ t.parent[n] \in SubtreeIn(t, Root)
             /\ n \in SubtreeIn(t, s[1].dir)
  <2>1. n \in NodesOf(t) /\ t.parent[n] = d /\ n \in S
    BY <1>1
  <2>2. n \in AllowedIn(t, l)
    BY <1>2, <2>1, AllowedUnder
  <2> QED
    BY <1>2, <2>1, <2>2, Under
<1> QED
  BY <1>2, <1>3 DEF d

(* An entry of a directory keeps it.                                         *)
LEMMA VisitKeeps ==
    ASSUME Basic, NEW n, Visit(n)
    PROVE  Basic' /\ (Harmless => Harmless')
<1>0. /\ tree \in Trees /\ excludes \in Lists /\ there \subseteq NodesOf(tree)
      /\ pc = "walk" /\ stack # <<>> /\ ClosedIn(tree, there)
      /\ Way(tree, excludes, there, stack)
  <2>1. pc = "walk"
    BY DEF Visit
  <2> QED
    BY <2>1 DEF Basic
<1>1. n \in stack[Len(stack)].entries /\ UNCHANGED <<tree, locked0, excludes, todo, paths, bytes>>
  BY <1>0, VisitCases
<1>2. CASE /\ tree.kind[n] = "dir"
           /\ stack' = Append(Without(stack, n), OpenIn(tree, there, n))
           /\ UNCHANGED <<locked, there, pc>>
  <2>1. /\ Way(tree, excludes, there, Append(Without(stack, n), OpenIn(tree, there, n)))
        /\ Append(Without(stack, n), OpenIn(tree, there, n)) # <<>>
    BY <1>0, <1>1, <1>2, WayPush
  <2>2. PICK s : s = stack' /\ s = Append(Without(stack, n), OpenIn(tree, there, n))
    BY <1>2
  <2>3. Way(tree, excludes, there, s) /\ s # <<>>
    BY <2>1, <2>2
  <2> QED
    BY <1>0, <1>1, <1>2, <2>2, <2>3 DEF Basic, Harmless
<1>3. CASE /\ tree.kind[n] # "dir"
           /\ stack' = Without(stack, n)
           /\ Removes(n) /\ pc' = "walk" /\ ChildrenIn(tree, there, n) = {}
  <2>1. Way(tree, excludes, there \ {n}, Without(stack, n)) /\ Without(stack, n) # <<>>
    BY <1>0, <1>1, <1>3, WayDrop
  <2>2. PICK s : s = stack' /\ s = Without(stack, n)
    BY <1>3
  <2>3. Way(tree, excludes, there \ {n}, s) /\ s # <<>>
    BY <2>1, <2>2
  <2>4. ClosedIn(tree, there \ {n})
    BY <1>0, <1>3, RemovalCloses
  <2>5. Basic'
    BY <1>0, <1>1, <1>3, <2>2, <2>3, <2>4 DEF Basic, Removes
  <2>6. /\ n \in there /\ n \in AllowedIn(tree, excludes)
        /\ n \in SubtreeIn(tree, Root) /\ tree.parent[n] \in SubtreeIn(tree, Root)
    BY <1>0, <1>1, TopAllowed
  <2>7. Harmless => Harmless'
    BY <1>1, <1>3, <2>6, RemovalHarmless
  <2> QED
    BY <2>5, <2>7
<1> QED
  BY <1>0, <1>2, <1>3, VisitCases

(* Leaving a directory keeps it.                                             *)
LEMMA LeaveKeeps ==
    ASSUME Basic, Leave
    PROVE  Basic' /\ (Harmless => Harmless')
<1>0. /\ tree \in Trees /\ excludes \in Lists /\ there \subseteq NodesOf(tree)
      /\ pc = "walk" /\ stack # <<>> /\ ClosedIn(tree, there)
      /\ Way(tree, excludes, there, stack)
  <2>1. pc = "walk"
    BY DEF Leave
  <2> QED
    BY <2>1 DEF Basic
<1>1. PICK n : n = stack[Len(stack)].dir
  OBVIOUS
<1>2. /\ stack[Len(stack)].entries = {}
      /\ UNCHANGED <<tree, locked0, excludes, todo, paths, bytes>>
      /\ stack' = Front(stack) /\ Removes(n) /\ ChildrenIn(tree, there, n) = {}
      /\ pc' = IF Len(stack) = 1 THEN "entries" ELSE "walk"
  BY <1>0, <1>1, LeaveDoes
<1>3. /\ Way(tree, excludes, there \ {n}, Front(stack))
      /\ Len(stack) # 1 => Front(stack) # <<>>
      /\ Len(stack) = 1 => Front(stack) = <<>>
  BY <1>0, <1>1, <1>2, WayLeave
<1>4. PICK s : s = stack' /\ s = Front(stack)
  BY <1>2
<1>5. Way(tree, excludes, there \ {n}, s) /\ (pc' = "walk" <=> s # <<>>) /\ pc' \in {"entries", "walk"}
  BY <1>2, <1>3, <1>4
<1>6. ClosedIn(tree, there \ {n})
  BY <1>0, <1>2, RemovalCloses
<1>7. Basic'
  BY <1>0, <1>2, <1>4, <1>5, <1>6 DEF Basic, Removes
<1>8. /\ n \in there /\ n \in AllowedIn(tree, excludes)
      /\ n \in SubtreeIn(tree, Root) /\ tree.parent[n] \in SubtreeIn(tree, Root)
  BY <1>0, <1>1, TopAllowed, TopOf
<1>9. Harmless => Harmless'
  BY <1>2, <1>8, RemovalHarmless
<1> QED
  BY <1>7, <1>9

(* Every step keeps them.                                                    *)
LEMMA HarmlessStep ==
    (Basic /\ [Next]_vars => Basic') /\ (Basic /\ Harmless /\ [Next]_vars => Harmless')
<1>1. ASSUME Basic, [Next]_vars PROVE Basic' /\ (Harmless => Harmless')
  <2>1. ASSUME NEW e \in todo, NextEntry(e) PROVE Basic' /\ (Harmless => Harmless')
    BY <1>1, <2>1, EntryKeeps
  <2>2. ASSUME NEW n \in Nodes, Visit(n) PROVE Basic' /\ (Harmless => Harmless')
    BY <1>1, <2>2, VisitKeeps
  <2>3. CASE Leave
    BY <1>1, <2>3, LeaveKeeps
  <2>4. CASE Finish
    BY <1>1, <2>4 DEF Finish, Basic, Harmless
  <2>5. CASE UNCHANGED vars
    BY <1>1, <2>5 DEF vars, Basic, Harmless
  <2> QED
    BY <1>1, <2>1, <2>2, <2>3, <2>4, <2>5 DEF Next
<1> QED
  BY <1>1

(* It holds at first.                                                        *)
LEMMA HarmlessInit == Init => Basic /\ Harmless
<1> SUFFICES ASSUME Init PROVE Basic /\ Harmless
  OBVIOUS
<1>1. /\ tree \in Trees /\ excludes \in Lists /\ there = NodesOf(tree) /\ locked = locked0
      /\ todo = excludes /\ stack = <<>> /\ paths = 0 /\ bytes = 0 /\ pc = "entries"
  BY DEF Init, Nodes, NodesOf
<1>2. Way(tree, excludes, there, <<>>)
  BY DEF Way
<1>3. ClosedIn(tree, there)
  BY <1>1, TreeShape DEF ClosedIn
<1> QED
  BY <1>1, <1>2, <1>3 DEF Basic, Harmless, ClearedIn

-----------------------------------------------------------------------------
(* What is left, and why it fails.                                           *)

(* An entry that was handled is gone, or is the one being removed.           *)
HandledIn(t, S, s, e) == ExistsIn(t, S, e) => s # <<>> /\ Last(e) = s[1].dir

(* The entries that lead out of the copy.                                    *)
Outside(t, l) == {e \in l : /\ ExistsIn(t, NodesOf(t), e)
                            /\ ParentIn(t, NodesOf(t), e) \notin SubtreeIn(t, Root)}

(* Handled entries are gone, and only the ones outside make it fail.         *)
Found ==
    /\ pc # "failed" => \A e \in excludes \ todo : HandledIn(tree, there, stack, e)
    /\ pc = "failed" => Outside(tree, excludes) # {}

(* A path that leads nowhere leads nowhere among fewer nodes.                *)
LEMMA HandledStays ==
    ASSUME NEW t \in Trees, NEW l \in Lists, NEW e \in l, NEW S, S \subseteq NodesOf(t), NEW R, R \subseteq S,
           NEW s, NEW r, HandledIn(t, S, s, e),
           s # <<>> => \/ r # <<>> /\ r[1].dir = s[1].dir
                       \/ s[1].dir \notin R
    PROVE  HandledIn(t, R, r, e)
<1> SUFFICES ASSUME ExistsIn(t, R, e) PROVE r # <<>> /\ Last(e) = r[1].dir
  BY DEF HandledIn
<1>1. e \in Seq(Nat) /\ e # <<>>
  BY ListsAssumption
<1>2. ExistsIn(t, S, e) /\ Last(e) \in R
  BY <1>1, ExistsGrows
<1>3. s # <<>> /\ Last(e) = s[1].dir
  BY <1>2 DEF HandledIn
<1> QED
  BY <1>2, <1>3

(* An entry of the list that was handled leads nowhere, or is being          *)
(* removed.                                                                  *)
LEMMA EntryFinds ==
    ASSUME Basic, Found, NEW e, NextEntry(e)
    PROVE  Found'
<1>0. /\ tree \in Trees /\ excludes \in Lists /\ there \subseteq NodesOf(tree)
      /\ e \in todo /\ e \in excludes /\ e \in Seq(Nat) /\ e # <<>>
      /\ pc = "entries" /\ stack = <<>> /\ todo \subseteq excludes
      /\ \A d \in excludes \ todo : HandledIn(tree, there, stack, d)
  <2>1. e \in todo /\ pc = "entries"
    BY DEF NextEntry
  <2> QED
    BY <2>1, ListsAssumption DEF Basic, Found
<1>1. todo' = todo \ {e} /\ UNCHANGED <<tree, locked0, excludes>>
  BY <1>0, EntryCases
<1>2. \A d \in excludes' \ todo' : d = e \/ (d \in excludes /\ d \in excludes \ todo)
  BY <1>1
<1>3. CASE ~ ExistsIn(tree, there, e) /\ UNCHANGED <<pc, stack, there>>
  <2>1. HandledIn(tree, there, stack, e)
    BY <1>3 DEF HandledIn
  <2> QED
    BY <1>0, <1>1, <1>2, <1>3, <2>1 DEF Found
<1>4. CASE /\ ExistsIn(tree, there, e)
           /\ ParentIn(tree, there, e) \notin SubtreeIn(tree, Root) /\ pc' = "failed"
  <2>1. ExistsIn(tree, NodesOf(tree), e) /\ ParentIn(tree, NodesOf(tree), e) = ParentIn(tree, there, e)
    BY <1>0, <1>4, ExistsGrows
  <2>2. e \in Outside(tree, excludes)
    BY <1>0, <1>4, <2>1 DEF Outside
  <2> QED
    BY <1>1, <1>4, <2>2 DEF Found
<1>5. CASE stack' = <<OpenIn(tree, there, Last(e))>> /\ pc' = "walk" /\ UNCHANGED there
  <2>1. PICK s : s = stack'
    OBVIOUS
  <2>2. s # <<>> /\ s[1].dir = Last(e)
    BY <1>5, <2>1 DEF OpenIn
  <2>3. ASSUME NEW d \in excludes, d \in excludes \ todo PROVE HandledIn(tree, there, s, d)
    <3>1. HandledIn(tree, there, stack, d)
      BY <1>0, <2>3
    <3> QED
      BY <1>0, <3>1 DEF HandledIn
  <2>4. HandledIn(tree, there, s, e)
    BY <2>2 DEF HandledIn
  <2> QED
    BY <1>1, <1>2, <1>5, <2>1, <2>3, <2>4 DEF Found
<1>6. CASE Removes(Last(e)) /\ pc' = "entries" /\ UNCHANGED stack
  <2>1. PICK R : R = there' /\ R = there \ {Last(e)}
    BY <1>6 DEF Removes
  <2>2. ASSUME NEW d \in excludes, d \in excludes \ todo PROVE HandledIn(tree, R, stack, d)
    BY <1>0, <2>1, <2>2, HandledStays
  <2>3. HandledIn(tree, R, stack, e)
    BY <2>1 DEF HandledIn, ExistsIn, ChildrenIn
  <2> QED
    BY <1>1, <1>2, <1>6, <2>1, <2>2, <2>3 DEF Found
<1> QED
  BY <1>0, <1>3, <1>4, <1>5, <1>6, EntryCases

(* It stays so on the way down.                                              *)
LEMMA WalkFinds ==
    ASSUME Basic, Found, pc = "walk", pc' # "failed", UNCHANGED <<tree, excludes, todo>>,
           there' \subseteq there,
           \/ stack' # <<>> /\ stack'[1].dir = stack[1].dir
           \/ stack[1].dir \notin there'
    PROVE  Found'
<1>1. PICK R, s : R = there' /\ s = stack'
  OBVIOUS
<1>2. \A e \in excludes \ todo : HandledIn(tree, there, stack, e)
  BY DEF Found
<1>3. tree \in Trees /\ excludes \in Lists /\ there \subseteq NodesOf(tree)
  BY DEF Basic
<1>4. ASSUME NEW e \in excludes, e \in excludes \ todo PROVE HandledIn(tree, R, s, e)
  <2>1. HandledIn(tree, there, stack, e)
    BY <1>2, <1>4
  <2> QED
    BY <1>1, <1>3, <2>1, HandledStays
<1> QED
  BY <1>1, <1>4 DEF Found

(* What a step on the way down changes.                                      *)
LEMMA WalkMoves ==
    ASSUME Basic, NEW n, Visit(n) \/ Leave
    PROVE  /\ pc = "walk" /\ pc' # "failed" /\ UNCHANGED <<tree, locked0, excludes, todo, paths, bytes>>
           /\ stack # <<>>
           /\ \/ stack' # <<>> /\ stack'[1].dir = stack[1].dir
              \/ /\ stack' = <<>> /\ ChildrenIn(tree, there, stack[1].dir) = {}
                 /\ stack[1].dir \in there /\ there' = there \ {stack[1].dir}
           /\ \/ there' = there
              \/ \E m \in there : m \in SubtreeIn(tree, stack[1].dir) /\ there' = there \ {m}
<1>0. /\ tree \in Trees /\ excludes \in Lists /\ there \subseteq NodesOf(tree)
      /\ pc = "walk" /\ stack # <<>>
      /\ Way(tree, excludes, there, stack)
  <2>1. pc = "walk"
    BY DEF Visit, Leave
  <2> QED
    BY <2>1 DEF Basic
<1>1. CASE Visit(n)
  <2>1. n \in stack[Len(stack)].entries /\ UNCHANGED <<tree, locked0, excludes, todo, paths, bytes>>
    BY <1>0, <1>1, VisitCases
  <2>2. CASE /\ tree.kind[n] = "dir"
             /\ stack' = Append(Without(stack, n), OpenIn(tree, there, n))
             /\ UNCHANGED <<locked, there, pc>>
    <3>1. /\ Way(tree, excludes, there, Append(Without(stack, n), OpenIn(tree, there, n)))
          /\ Append(Without(stack, n), OpenIn(tree, there, n))[1].dir = stack[1].dir
          /\ Append(Without(stack, n), OpenIn(tree, there, n)) # <<>>
      <4>1. tree.kind[n] = "dir"
        BY <2>2
      <4> QED
        BY <1>0, <2>1, <4>1, WayPush
    <3>2. stack'[1].dir = stack[1].dir /\ stack' # <<>>
      BY <2>2, <3>1
    <3> QED
      BY <1>0, <2>1, <2>2, <3>2
  <2>3. CASE /\ tree.kind[n] # "dir"
             /\ stack' = Without(stack, n)
             /\ Removes(n) /\ pc' = "walk" /\ ChildrenIn(tree, there, n) = {}
    <3>1. Without(stack, n)[1].dir = stack[1].dir /\ Without(stack, n) # <<>>
      BY <1>0, <2>1, <2>3, WayDrop
    <3>2. stack'[1].dir = stack[1].dir /\ stack' # <<>>
      BY <2>3, <3>1
    <3>3. n \in there /\ n \in SubtreeIn(tree, stack[1].dir) /\ there' = there \ {n}
      BY <1>0, <2>1, <2>3, TopAllowed DEF Removes
    <3> QED
      BY <1>0, <2>1, <2>3, <3>2, <3>3
  <2> QED
    BY <1>0, <1>1, <2>2, <2>3, VisitCases
<1>2. CASE Leave
  <2>1. PICK d : d = stack[Len(stack)].dir
    OBVIOUS
  <2>2. /\ stack[Len(stack)].entries = {}
        /\ UNCHANGED <<tree, locked0, excludes, todo, paths, bytes>>
        /\ stack' = Front(stack) /\ Removes(d) /\ ChildrenIn(tree, there, d) = {}
        /\ pc' = IF Len(stack) = 1 THEN "entries" ELSE "walk"
    BY <1>0, <1>2, <2>1, LeaveDoes
  <2>3. /\ Len(stack) # 1 => Front(stack) # <<>> /\ Front(stack)[1].dir = stack[1].dir
        /\ Len(stack) = 1 => Front(stack) = <<>>
    BY <1>0, <2>2, WayLeave
  <2>4. d \in there /\ d \in SubtreeIn(tree, stack[1].dir) /\ there' = there \ {d}
    <3>1. stack[Len(stack)].dir \in there
      BY <1>0, TopOf
    <3>2. stack[Len(stack)].dir \in SubtreeIn(tree, stack[1].dir)
      BY <1>0, TopAllowed
    <3> QED
      BY <2>1, <2>2, <3>1, <3>2 DEF Removes
  <2>5. CASE Len(stack) = 1
    <3>1. d = stack[1].dir /\ stack' = <<>>
      BY <2>1, <2>2, <2>3, <2>5
    <3> QED
      BY <1>0, <2>2, <2>4, <3>1
  <2>6. CASE Len(stack) # 1
    <3>1. stack' # <<>> /\ stack'[1].dir = stack[1].dir
      BY <2>2, <2>3, <2>6
    <3> QED
      BY <1>0, <2>2, <2>4, <3>1
  <2> QED
    BY <2>5, <2>6
<1> QED
  BY <1>1, <1>2

(* Every step keeps what is known of handled entries.                        *)
LEMMA FoundStep == Basic /\ Found /\ [Next]_vars => Found'
<1> SUFFICES ASSUME Basic, Found, [Next]_vars PROVE Found'
  OBVIOUS
<1>1. ASSUME NEW e \in todo, NextEntry(e) PROVE Found'
  BY <1>1, EntryFinds
<1>2. ASSUME NEW n, Visit(n) \/ Leave PROVE Found'
  <2>1. /\ pc = "walk" /\ pc' # "failed" /\ UNCHANGED <<tree, excludes, todo>>
        /\ there' \subseteq there
        /\ \/ stack' # <<>> /\ stack'[1].dir = stack[1].dir
           \/ stack[1].dir \notin there'
    BY <1>2, WalkMoves
  <2> QED
    BY <2>1, WalkFinds
<1>3. CASE Finish
  BY <1>3 DEF Finish, Found
<1>4. CASE UNCHANGED vars
  BY <1>4 DEF vars, Found
<1> QED
  BY <1>1, <1>2, <1>3, <1>4 DEF Next

-----------------------------------------------------------------------------
(* What is counted.                                                          *)

(* What was counted: what is gone, and what is about to go.                  *)
PendingIn(t, S, s) == IF s = <<>> THEN {} ELSE SubtreeIn(t, s[1].dir) \intersect S
CountedIn(t, S, s) == (NodesOf(t) \ S) \union PendingIn(t, S, s)

(* The count is what these files weigh.                                      *)
Counts ==
    /\ todo = excludes => there = NodesOf(tree) /\ stack = <<>>
    /\ pc # "failed" => \A e \in excludes \ todo :
           excludes = {e} /\ ExistsIn(tree, NodesOf(tree), e)
               => Last(e) \notin there \/ (stack # <<>> /\ Last(e) = stack[1].dir)
    /\ pc # "failed" => bytes = SizeIn(tree, CountedIn(tree, there, stack))

(* What an entry adds to the count is what is at and under its node.         *)
LEMMA EntryCounts ==
    ASSUME Basic, Counts, NEW e, NextEntry(e)
    PROVE  Counts'
<1>0. /\ tree \in Trees /\ excludes \in Lists /\ there \subseteq NodesOf(tree)
      /\ e \in todo /\ e \in excludes /\ e \in Seq(Nat) /\ e # <<>>
      /\ pc = "entries" /\ stack = <<>> /\ todo \subseteq excludes
      /\ ClosedIn(tree, there)
  <2>1. e \in todo /\ pc = "entries"
    BY DEF NextEntry
  <2> QED
    BY <2>1, ListsAssumption DEF Basic
<1>1. todo' = todo \ {e} /\ UNCHANGED <<tree, locked0, excludes>>
  BY <1>0, EntryCases
<1>2. todo' # excludes' /\ e \notin todo'
  BY <1>0, <1>1
<1>3. \A d \in excludes' \ todo' : excludes' = {d} => d = e /\ there = NodesOf(tree)
  <2>1. ASSUME NEW d \in excludes \ todo', excludes = {d} PROVE d = e /\ there = NodesOf(tree)
    <3>1. d = e /\ todo = excludes
      BY <1>0, <2>1
    <3> QED
      BY <3>1 DEF Counts
  <2> QED
    BY <1>1, <2>1
<1>4. bytes = SizeIn(tree, NodesOf(tree) \ there)
  <2>1. CountedIn(tree, there, stack) = NodesOf(tree) \ there
    BY <1>0 DEF CountedIn, PendingIn
  <2> QED
    BY <1>0, <2>1 DEF Counts
<1>5. CASE ~ ExistsIn(tree, there, e) /\ UNCHANGED <<pc, stack, bytes, there>>
  <2>1. \A d \in excludes' \ todo' : excludes' = {d} => ~ ExistsIn(tree, NodesOf(tree), d)
    BY <1>3, <1>5
  <2>2. bytes' = SizeIn(tree, CountedIn(tree, there, stack))
    BY <1>0, <1>5 DEF Counts
  <2> QED
    BY <1>1, <1>2, <1>5, <2>1, <2>2 DEF Counts
<1>6. CASE pc' = "failed"
  BY <1>2, <1>6 DEF Counts
<1>7. CASE /\ ExistsIn(tree, there, e)
           /\ bytes' = bytes + SizeIn(tree, SubtreeIn(tree, Last(e)) \intersect there)
           /\ pc' # "failed"
  <2> DEFINE X == NodesOf(tree) \ there
             Y == SubtreeIn(tree, Last(e)) \intersect there
  <2>0. Last(e) \in there /\ Last(e) \in NodesOf(tree)
    BY <1>0, <1>7 DEF ExistsIn, ChildrenIn
  <2>1. bytes' = SizeIn(tree, X \union Y)
    <3>1. X \subseteq NodesOf(tree) /\ Y \subseteq NodesOf(tree) /\ X \intersect Y = {}
      BY <1>0
    <3> HIDE DEF X, Y
    <3>2. SizeIn(tree, X \union Y) = SizeIn(tree, X) + SizeIn(tree, Y)
      BY <1>0, <3>1, SizesAdd
    <3>3. bytes' = SizeIn(tree, X) + SizeIn(tree, Y)
      BY <1>4, <1>7 DEF X, Y
    <3> QED
      BY <3>2, <3>3
  <2>2. CASE stack' = <<OpenIn(tree, there, Last(e))>> /\ UNCHANGED there
    <3>1. PICK s : s = stack'
      OBVIOUS
    <3>2. s # <<>> /\ s[1].dir = Last(e)
      BY <2>2, <3>1 DEF OpenIn
    <3>3. CountedIn(tree, there, s) = X \union Y
      BY <3>2 DEF CountedIn, PendingIn
    <3>4. bytes' = SizeIn(tree, CountedIn(tree, there, s))
      BY <2>1, <3>3
    <3> QED
      BY <1>1, <1>2, <1>3, <2>2, <3>1, <3>2, <3>4 DEF Counts
  <2>3. CASE Removes(Last(e)) /\ ChildrenIn(tree, there, Last(e)) = {} /\ UNCHANGED stack
    <3>1. PICK R : R = there' /\ R = there \ {Last(e)}
      BY <2>3 DEF Removes
    <3>2. Y = {Last(e)}
      BY <1>0, <2>0, <2>3, BareAlone
    <3>3. CountedIn(tree, R, stack) = X \union Y
      BY <1>0, <2>0, <3>1, <3>2 DEF CountedIn, PendingIn
    <3>4. bytes' = SizeIn(tree, CountedIn(tree, R, stack))
      BY <2>1, <3>3
    <3>5. Last(e) \notin R
      BY <3>1
    <3> QED
      BY <1>1, <1>2, <1>3, <2>3, <3>1, <3>4, <3>5 DEF Counts
  <2> QED
    BY <1>0, <1>7, <2>2, <2>3, EntryCases
<1>8. ~ ("entries" = "failed") /\ ~ ("walk" = "failed")
  OBVIOUS
<1> QED
  BY <1>0, <1>5, <1>6, <1>7, <1>8, EntryCases

(* A step on the way down counts nothing: it removes what was counted.       *)
LEMMA WalkCounts ==
    ASSUME Basic, Counts, NEW n, Visit(n) \/ Leave
    PROVE  Counts'
<1>0. /\ tree \in Trees /\ there \subseteq NodesOf(tree) /\ ClosedIn(tree, there)
  BY DEF Basic
<1>1. /\ pc = "walk" /\ pc' # "failed" /\ UNCHANGED <<tree, excludes, todo, bytes>>
      /\ stack # <<>>
      /\ \/ stack' # <<>> /\ stack'[1].dir = stack[1].dir
         \/ /\ stack' = <<>> /\ ChildrenIn(tree, there, stack[1].dir) = {}
            /\ stack[1].dir \in there /\ there' = there \ {stack[1].dir}
      /\ \/ there' = there
         \/ \E m \in there : m \in SubtreeIn(tree, stack[1].dir) /\ there' = there \ {m}
  BY WalkMoves
<1>2. PICK R, s : R = there' /\ s = stack'
  OBVIOUS
<1>3. todo # excludes /\ bytes = SizeIn(tree, CountedIn(tree, there, stack))
  BY <1>1 DEF Counts
<1>4. CountedIn(tree, R, s) = CountedIn(tree, there, stack)
  <2> DEFINE D == SubtreeIn(tree, stack[1].dir)
  <2>0. CountedIn(tree, there, stack) = (NodesOf(tree) \ there) \union (D \intersect there)
    BY <1>1 DEF CountedIn, PendingIn
  <2>1. CASE s # <<>> /\ s[1].dir = stack[1].dir
    <3>1. CountedIn(tree, R, s) = (NodesOf(tree) \ R) \union (D \intersect R)
      BY <2>1 DEF CountedIn, PendingIn
    <3>2. R = there \/ \E m \in there : m \in D /\ R = there \ {m}
      BY <1>1, <1>2
    <3> HIDE DEF D
    <3> QED
      BY <1>0, <2>0, <3>1, <3>2
  <2>2. CASE s = <<>>
    <3>1. /\ ChildrenIn(tree, there, stack[1].dir) = {}
          /\ stack[1].dir \in there /\ R = there \ {stack[1].dir}
      BY <1>1, <1>2, <2>2
    <3>2. D \intersect there = {stack[1].dir}
      BY <1>0, <3>1, BareAlone
    <3>3. CountedIn(tree, R, s) = NodesOf(tree) \ R
      BY <2>2 DEF CountedIn, PendingIn
    <3> HIDE DEF D
    <3> QED
      BY <1>0, <2>0, <3>1, <3>2, <3>3
  <2> QED
    BY <1>1, <1>2, <2>1, <2>2
<1>5. ASSUME NEW e \in excludes \ todo, excludes = {e}, ExistsIn(tree, NodesOf(tree), e)
      PROVE  Last(e) \notin R \/ (s # <<>> /\ Last(e) = s[1].dir)
  <2>1. Last(e) \notin there \/ Last(e) = stack[1].dir
    BY <1>1, <1>5 DEF Counts
  <2>2. R \subseteq there
    BY <1>1, <1>2
  <2> QED
    BY <1>1, <1>2, <2>1, <2>2
<1> QED
  BY <1>1, <1>2, <1>3, <1>4, <1>5 DEF Counts

(* Every step keeps the count.                                               *)
LEMMA CountsStep == Basic /\ Counts /\ [Next]_vars => Counts'
<1> SUFFICES ASSUME Basic, Counts, [Next]_vars PROVE Counts'
  OBVIOUS
<1>1. ASSUME NEW e \in todo, NextEntry(e) PROVE Counts'
  BY <1>1, EntryCounts
<1>2. ASSUME NEW n, Visit(n) \/ Leave PROVE Counts'
  BY <1>2, WalkCounts
<1>3. CASE Finish
  BY <1>3 DEF Finish, Counts
<1>4. CASE UNCHANGED vars
  BY <1>4 DEF vars, Counts
<1> QED
  BY <1>1, <1>2, <1>3, <1>4 DEF Next

(* A part of what some sets hold together weighs no more than they do.       *)
LEMMA SizeCovered ==
    ASSUME NEW t \in Trees, NEW E, IsFiniteSet(E), NEW X \in [E -> SUBSET NodesOf(t)],
           NEW w, w = [e \in E |-> SizeIn(t, X[e])],
           NEW Y, Y \subseteq UNION {X[e] : e \in E}
    PROVE  SizeIn(t, Y) <= SumOf(w, E)
<1> DEFINE Held(s) == UNION {X[e] : e \in s}
           Q == {s \in SUBSET E : \A Z \in SUBSET NodesOf(t) : Z \subseteq Held(s) => SizeIn(t, Z) <= SumOf(w, s)}
<1>1. \A Z \in SUBSET NodesOf(t) : SizeIn(t, Z) \in Nat
  <2> TAKE Z \in SUBSET NodesOf(t)
  <2>1. Z \intersect {} = {} /\ {} \subseteq NodesOf(t)
    OBVIOUS
  <2> QED
    BY <2>1, SizesAdd
<1>2. \A e \in E : w[e] \in Nat /\ w[e] = SizeIn(t, X[e]) /\ X[e] \in SUBSET NodesOf(t)
  BY <1>1
<1>3. ASSUME NEW s \in SUBSET E
      PROVE  /\ IsFiniteSet(s) /\ \A e \in s : w[e] \in Nat
             /\ SumOf(w, s) \in Nat /\ (s = {} => SumOf(w, s) = 0)
             /\ \A e \in s : SumOf(w, s) = w[e] + SumOf(w, s \ {e})
  <2>1. IsFiniteSet(s) /\ \A e \in s : w[e] \in Nat
    BY <1>2, FS_Subset
  <2> QED
    BY <2>1, SumSteps
<1>4. ASSUME NEW s \in SUBSET E, \A e \in s : s \ {e} \in Q PROVE s \in Q
  <2>1. ASSUME NEW Z \in SUBSET NodesOf(t), Z \subseteq Held(s)
        PROVE  SizeIn(t, Z) <= SumOf(w, s)
    <3>1. CASE s = {}
      <4>1. Z = {}
        BY <2>1, <3>1
      <4>2. SizeIn(t, Z) = 0 /\ SumOf(w, s) = 0
        BY <1>3, <3>1, <4>1, SizesNone
      <4> QED
        BY <4>2
    <3>2. CASE s # {}
      <4>1. PICK e \in s : TRUE
        BY <3>2
      <4>2. PICK A, B : A = Z \intersect X[e] /\ B = Z \ X[e]
        OBVIOUS
      <4>3. /\ A \in SUBSET NodesOf(t) /\ B \in SUBSET NodesOf(t) /\ A \union B = Z /\ A \intersect B = {}
            /\ B \subseteq Held(s \ {e}) /\ A \subseteq X[e] /\ e \in E
        BY <2>1, <4>2
      <4>4. SizeIn(t, Z) = SizeIn(t, A) + SizeIn(t, B)
        BY <4>3, SizesAdd
      <4>5. SizeIn(t, A) <= w[e]
        <5>1. FilesIn(t, A) \subseteq FilesIn(t, X[e])
          BY <4>3 DEF FilesIn
        <5>2. IsFiniteSet(FilesIn(t, X[e])) /\ \A f \in FilesIn(t, X[e]) : Itself[f] \in Nat
          BY <1>2, <4>3, FilesFinite
        <5>3. SizeIn(t, A) <= SizeIn(t, X[e])
          BY <5>1, <5>2, SumMore DEF SizeIn
        <5> QED
          BY <1>2, <4>3, <5>3
      <4>6. SizeIn(t, B) <= SumOf(w, s \ {e})
        <5>1. s \ {e} \in Q
          BY <1>4
        <5> QED
          BY <4>3, <5>1
      <4>7. SumOf(w, s) = w[e] + SumOf(w, s \ {e})
        BY <1>3
      <4>8. w[e] \in Nat /\ SizeIn(t, A) \in Nat /\ SizeIn(t, B) \in Nat /\ SumOf(w, s \ {e}) \in Nat
        <5>1. s \ {e} \in SUBSET E
          OBVIOUS
        <5> QED
          BY <1>1, <1>2, <1>3, <4>3, <5>1
      <4> QED
        BY <4>4, <4>5, <4>6, <4>7, <4>8
    <3> QED
      BY <3>1, <3>2
  <2> QED
    BY <2>1
<1>5. E \in Q
  <2> HIDE DEF Q
  <2>1. SUBSET E \subseteq Q
    BY <1>4, OneLess
  <2> QED
    BY <2>1
<1> QED
  BY <1>2, <1>5

(* The entries --dry-run finds, and what it measures for each.               *)
There(t, l) == {e \in l : ExistsIn(t, NodesOf(t), e)}
Beneath(t, e) == SubtreeIn(t, Last(e)) \intersect NodesOf(t)
Weights(t, l) == [e \in There(t, l) |-> SizeIn(t, Beneath(t, e))]

(* What --dry-run measures, as a sum over the excluded paths.                *)
LEMMA MeasureIs ==
    ASSUME tree \in Trees
    PROVE  Measure = SumOf(Weights(tree, excludes), There(tree, excludes))
<1> DEFINE E == There(tree, excludes)
           w == Weights(tree, excludes)
           of(e) == TreeSize(Nodes, Locate(Nodes, e).node)
<1>1. \A e : Locate(Nodes, e).found = ExistsIn(tree, NodesOf(tree), e) /\ Locate(Nodes, e).node = Last(e)
  BY ExistsTree DEF Locate, Nodes, NodesOf
<1>2. {e \in excludes : Locate(Nodes, e).found} = E
  BY <1>1 DEF There
<1>3. \A e \in E : of(e) = w[e]
  <2> TAKE e \in E
  <2>1. of(e) = SizeIn(tree, SubtreeIn(tree, Last(e)) \intersect Nodes)
    BY <1>1, TreeSizeIs
  <2> QED
    BY <2>1 DEF Weights, Beneath, Nodes, NodesOf
<1>4. Measure = (CHOOSE iter : iter = [s \in SUBSET E |->
         IF s = {} THEN 0 ELSE of(Some(s)) + iter[s \ {Some(s)}]])[E]
  BY <1>2, Zenon DEF Measure, MapThenSumSet, MapThenFoldSet, Some
<1> HIDE DEF E, w, of
<1>5. ASSUME NEW iter
      PROVE  [s \in SUBSET E |-> IF s = {} THEN 0 ELSE of(Some(s)) + iter[s \ {Some(s)}]]
             = [s \in SUBSET E |-> IF s = {} THEN 0 ELSE w[Some(s)] + iter[s \ {Some(s)}]]
  <2>1. ASSUME NEW s \in SUBSET E, s # {} PROVE of(Some(s)) = w[Some(s)]
    <3>1. Some(s) \in s
      BY <2>1 DEF Some
    <3> QED
      BY <1>3, <3>1
  <2> QED
    BY <2>1
<1>6. (CHOOSE iter : iter = [s \in SUBSET E |-> IF s = {} THEN 0 ELSE of(Some(s)) + iter[s \ {Some(s)}]])
      = Iter(w, E)
  BY <1>5, Zenon DEF Iter
<1> QED
  BY <1>4, <1>6 DEF SumOf, E, w

-----------------------------------------------------------------------------
(* The theorems.                                                             *)

(* Both hold at first.                                                       *)
LEMMA FoundCountsInit == Init => Found /\ Counts
<1> SUFFICES ASSUME Init PROVE Found /\ Counts
  OBVIOUS
<1>1. /\ tree \in Trees /\ there = NodesOf(tree) /\ todo = excludes /\ stack = <<>> /\ bytes = 0 /\ pc = "entries"
  BY DEF Init, Nodes, NodesOf
<1>2. CountedIn(tree, there, stack) = {}
  BY <1>1 DEF CountedIn, PendingIn
<1>3. SizeIn(tree, CountedIn(tree, there, stack)) = 0
  BY <1>1, <1>2, SizesNone
<1> QED
  BY <1>1, <1>3 DEF Found, Counts

(* The inductive invariant.                                                  *)
LEMMA WalkCorrect == Spec => [](Basic /\ Harmless /\ Found /\ Counts)
BY HarmlessInit, FoundCountsInit, HarmlessStep, FoundStep, CountsStep, PTL DEF Spec

(* What may go, in the words of OnlyExcludedGo.                              *)
LEMMA AllowedTree ==
    UNION {Subtree(Last(e)) : e \in {x \in excludes :
               Exists(Nodes, x) /\ Parent(Nodes, x) \in Subtree(Root)}} = AllowedIn(tree, excludes)
<1>1. \A e : /\ Subtree(Last(e)) = SubtreeIn(tree, Last(e))
             /\ Exists(Nodes, e) = ExistsIn(tree, NodesOf(tree), e)
             /\ Parent(Nodes, e) = ParentIn(tree, NodesOf(tree), e)
  BY SubtreeTree, ExistsTree, ParentTree DEF Nodes, NodesOf
<1>2. Subtree(Root) = SubtreeIn(tree, Root)
  BY SubtreeTree
<1> QED
  BY <1>1, <1>2 DEF AllowedIn, Excluded, ExistsIn

(* The type invariant: the stack is a path down the tree.                    *)
THEOREM TreeWalkTypeCorrect == Spec => []TypeOK
<1>1. ASSUME Basic PROVE TypeOK
  <2>1. ASSUME NEW k \in 1 .. Len(stack)
        PROVE  /\ IsDir(stack[k].dir) /\ stack[k].dir \in there
               /\ stack[k].entries \subseteq Children(there, stack[k].dir)
               /\ k > 1 => tree.parent[stack[k].dir] = stack[k - 1].dir
    <3>0. \A j \in 1 .. Len(stack) : Frame(tree, excludes, there, stack, j)
      BY <1>1 DEF Basic, Way
    <3>1. Frame(tree, excludes, there, stack, k)
      BY <3>0
    <3>2. ASSUME k > 1 PROVE tree.parent[stack[k].dir] = stack[k - 1].dir
      <4>0. Len(stack) \in Nat
        BY <1>1 DEF Basic, Way
      <4>1. k - 1 \in 1 .. Len(stack) /\ k - 1 < Len(stack) /\ k - 1 + 1 = k
        BY <3>2, <4>0
      <4>2. Frame(tree, excludes, there, stack, k - 1)
        BY <3>0, <4>1
      <4> QED
        BY <4>1, <4>2 DEF Frame
    <3> QED
      BY <3>1, <3>2 DEF Frame, IsDir, Children, ChildrenIn
  <2>2. there \subseteq Nodes
    BY <1>1 DEF Basic, Nodes, NodesOf
  <2> QED
    BY <1>1, <2>1, <2>2 DEF TypeOK, Basic
<1> QED
  BY <1>1, WalkCorrect, PTL

(* Nothing is removed but what is at or under an excluded path that stays    *)
(* inside of the copy, whatever symlinks are on the way.                     *)
THEOREM OnlyExcludedGoCorrect == Spec => []OnlyExcludedGo
<1>1. ASSUME Harmless PROVE OnlyExcludedGo
  BY <1>1, AllowedTree DEF Harmless, OnlyExcludedGo, Gone, Nodes, NodesOf
<1> QED
  BY <1>1, WalkCorrect, PTL

(* An attribute is cleared only on what is removed and the directory it is   *)
(* removed from, never outside of the copy.                                  *)
THEOREM ClearedAreNeededCorrect == Spec => []ClearedAreNeeded
<1>1. ASSUME Basic, Harmless PROVE ClearedAreNeeded
  <2> SUFFICES ASSUME NEW n \in locked0 \ locked
               PROVE  n \in Subtree(Root) /\ (n \in Gone \/ \E m \in Gone : tree.parent[m] = n)
    BY DEF ClearedAreNeeded
  <2>1. n \in SubtreeIn(tree, Root) /\ (n \notin there \/ \E m \in NodesOf(tree) \ there : tree.parent[m] = n)
    BY <1>1 DEF Harmless, ClearedIn
  <2>2. n \in NodesOf(tree) /\ Subtree(Root) = SubtreeIn(tree, Root)
    BY <2>1, SubtreeTree DEF SubtreeIn
  <2>3. Gone = NodesOf(tree) \ there
    BY DEF Gone, Nodes, NodesOf
  <2> QED
    BY <2>1, <2>2, <2>3
<1> QED
  BY <1>1, WalkCorrect, PTL

(* When the copy is said to be filtered, no excluded path leads anywhere.    *)
THEOREM NothingExcludedStaysCorrect == Spec => []NothingExcludedStays
<1>1. ASSUME Basic, Found PROVE NothingExcludedStays
  <2> SUFFICES ASSUME pc = "done", NEW e \in excludes PROVE ~ Exists(there, e)
    BY DEF NothingExcludedStays
  <2>1. todo = {} /\ stack = <<>>
    BY <1>1 DEF Basic
  <2>2. HandledIn(tree, there, stack, e)
    BY <1>1, <2>1 DEF Found
  <2>3. ~ ExistsIn(tree, there, e)
    BY <2>1, <2>2 DEF HandledIn
  <2> QED
    BY <2>3, ExistsTree
<1> QED
  BY <1>1, WalkCorrect, PTL

(* It fails only for a path that leaves the copy.                            *)
THEOREM FailsOnlyOutsideCorrect == Spec => []FailsOnlyOutside
<1>1. ASSUME Found PROVE FailsOnlyOutside
  <2> SUFFICES ASSUME pc = "failed"
               PROVE  \E e \in excludes : Exists(Nodes, e) /\ Parent(Nodes, e) \notin Subtree(Root)
    BY DEF FailsOnlyOutside
  <2>1. PICK e \in excludes : /\ ExistsIn(tree, NodesOf(tree), e)
                              /\ ParentIn(tree, NodesOf(tree), e) \notin SubtreeIn(tree, Root)
    BY <1>1 DEF Found, Outside
  <2>2. Exists(Nodes, e) /\ Parent(Nodes, e) \notin Subtree(Root)
    BY <2>1, SubtreeTree, ExistsTree, ParentTree DEF Nodes, NodesOf
  <2> QED
    BY <2>2
<1> QED
  BY <1>1, WalkCorrect, PTL

(* What is reported as excluded is what was removed; a dry run never         *)
(* reports less, and the same for a single entry.                            *)
THEOREM AccountingCorrect == Spec => []Accounting
<1>1. ASSUME Basic, Harmless, Found, Counts PROVE Accounting
  <2> DEFINE N == NodesOf(tree)
             E == There(tree, excludes)
  <2> SUFFICES ASSUME pc = "done"
               PROVE  /\ bytes = SumSet({f \in Gone : tree.kind[f] = "file"})
                      /\ bytes <= Measure
                      /\ Cardinality(excludes) = 1 => bytes = Measure
    BY DEF Accounting
  <2>0. /\ tree \in Trees /\ excludes \in Lists /\ there \subseteq N /\ ClosedIn(tree, there)
        /\ todo = {} /\ stack = <<>> /\ IsFiniteSet(excludes)
    BY <1>1, ListsAssumption DEF Basic
  <2>1. Gone = N \ there /\ bytes = SizeIn(tree, N \ there)
    <3>1. CountedIn(tree, there, stack) = N \ there
      BY <2>0 DEF CountedIn, PendingIn
    <3>2. bytes = SizeIn(tree, CountedIn(tree, there, stack))
      BY <1>1 DEF Counts
    <3> QED
      BY <3>1, <3>2 DEF Gone, Nodes, NodesOf
  <2>2. bytes = SumSet({f \in Gone : tree.kind[f] = "file"})
    <3>1. {f \in Gone : tree.kind[f] = "file"} = FilesIn(tree, N \ there)
      BY <2>1 DEF FilesIn
    <3>2. FilesIn(tree, N \ there) \subseteq Nat
      <4>1. N \subseteq Nat
        BY <2>0, TreeShape
      <4> QED
        BY <4>1 DEF FilesIn
    <3> QED
      BY <2>1, <3>1, <3>2, SumSetIs DEF SizeIn
  <2>3. Gone \subseteq UNION {Beneath(tree, e) : e \in E}
    <3>1. N \ there \subseteq AllowedIn(tree, excludes)
      BY <1>1 DEF Harmless
    <3>2. \A e \in Excluded(tree, excludes) : e \in E
      BY DEF Excluded, There, ExistsIn
    <3>3. \A e \in excludes : SubtreeIn(tree, Last(e)) = Beneath(tree, e)
      BY DEF Beneath, SubtreeIn
    <3>4. \A e \in Excluded(tree, excludes) : e \in excludes
      BY DEF Excluded
    <3> QED
      BY <2>1, <3>1, <3>2, <3>3, <3>4 DEF AllowedIn
  <2>4. E \in SUBSET excludes /\ IsFiniteSet(E)
    <3>1. E \in SUBSET excludes
      BY DEF There
    <3> QED
      BY <2>0, <3>1, FS_Subset
  <2>5. Measure = SumOf(Weights(tree, excludes), E)
    BY <2>0, MeasureIs
  <2>6. bytes <= Measure
    <3> DEFINE X == [e \in E |-> Beneath(tree, e)]
    <3>1. X \in [E -> SUBSET NodesOf(tree)]
      BY DEF Beneath
    <3>2. Gone \subseteq UNION {X[e] : e \in E}
      BY <2>3
    <3>3. Weights(tree, excludes) = [e \in E |-> SizeIn(tree, X[e])]
      BY DEF Weights
    <3> HIDE DEF X, E
    <3>4. SizeIn(tree, Gone) <= SumOf(Weights(tree, excludes), E)
      BY <2>0, <2>4, <3>1, <3>2, <3>3, SizeCovered
    <3> QED
      BY <2>1, <2>5, <3>4
  <2>7. ASSUME Cardinality(excludes) = 1 PROVE bytes = Measure
    <3>1. PICK e : excludes = {e}
      BY <2>0, <2>7, FS_Singleton
    <3>2. CASE ~ ExistsIn(tree, N, e)
      <4>1. E = {}
        BY <3>1, <3>2 DEF There
      <4>2. Gone = {}
        BY <2>3, <4>1
      <4>3. SizeIn(tree, {}) = 0 /\ SumOf(Weights(tree, excludes), {}) = 0
        BY <2>0, SizesNone, SumSteps, FS_EmptySet
      <4> QED
        BY <2>1, <2>5, <4>1, <4>2, <4>3
    <3>3. CASE ExistsIn(tree, N, e)
      <4>1. E = {e}
        BY <3>1, <3>3 DEF There
      <4>2. Last(e) \notin there /\ Last(e) \in N
        <5>1. e \in excludes \ todo
          BY <2>0, <3>1
        <5>2. Last(e) \notin there
          BY <1>1, <2>0, <3>1, <3>3, <5>1 DEF Counts
        <5> QED
          BY <3>3, <5>2 DEF ExistsIn, ChildrenIn
      <4>3. SubtreeIn(tree, Last(e)) \intersect there = {}
        BY <2>0, <4>2, NoneUnder
      <4>4. Gone = Beneath(tree, e)
        BY <2>1, <2>3, <4>1, <4>3 DEF Beneath
      <4>5. Weights(tree, excludes)[e] = SizeIn(tree, Gone) /\ SizeIn(tree, Gone) \in Nat
        <5>1. Weights(tree, excludes)[e] = SizeIn(tree, Gone)
          BY <4>1, <4>4 DEF Weights
        <5>2. Gone \subseteq NodesOf(tree) /\ Gone \intersect {} = {}
          BY <2>1
        <5> QED
          BY <2>0, <5>1, <5>2, SizesAdd
      <4>6. SumOf(Weights(tree, excludes), {e}) = Weights(tree, excludes)[e] + SumOf(Weights(tree, excludes), {e} \ {e})
        <5>1. IsFiniteSet({e}) /\ \A x \in {e} : Weights(tree, excludes)[x] \in Nat
          BY <4>5, FS_Singleton
        <5>2. e \in {e}
          OBVIOUS
        <5> QED
          BY <5>1, <5>2, SumSteps
      <4>7. SumOf(Weights(tree, excludes), {e} \ {e}) = 0
        <5>1. {e} \ {e} = {} /\ IsFiniteSet({e} \ {e})
          BY FS_EmptySet
        <5>2. \A x \in {e} \ {e} : Weights(tree, excludes)[x] \in Nat
          OBVIOUS
        <5> QED
          BY <5>1, <5>2, SumSteps
      <4>8. Measure = SizeIn(tree, Gone)
        BY <2>5, <4>1, <4>5, <4>6, <4>7
      <4> QED
        BY <2>1, <4>8
    <3> QED
      BY <3>2, <3>3
  <2> QED
    BY <2>2, <2>6, <2>7
<1> QED
  BY <1>1, WalkCorrect, PTL
=============================================================================

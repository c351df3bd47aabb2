----------------------------- MODULE LoopProofs -----------------------------
(***************************************************************************)
(* What the loops of module Loops compute, for all sequences.              *)
(*                                                                         *)
(* Induction and recursion over the naturals come first.  They are stated  *)
(* with sets and functions where the library has operators: an induction   *)
(* is over the set of the numbers that have the property, and a recursion  *)
(* steps with a function.  Both rest on the well-foundedness of < (NatLess-*)
(* ThanWellFounded, WFMin).                                                *)
(***************************************************************************)
EXTENDS Loops, SequenceTheorems, WellFoundedInduction, TLAPS

LessThan == {pair \in Nat \X Nat : pair[1] < pair[2]}

LEMMA LessThanWellFounded == IsWellFoundedOn(LessThan, Nat)
BY NatLessThanWellFounded DEF LessThan, OpToRel

\* A set of naturals has a least element.
LEMMA LeastNumber ==
  ASSUME NEW T \in SUBSET Nat, T # {}
  PROVE  \E n \in T : \A m \in T : n <= m
<1>1. PICK n \in T : \A m \in T : ~ (<<m, n>> \in LessThan)
  BY LessThanWellFounded, WFMin
<1>2. \A m \in T : ~ (m < n)
  BY <1>1 DEF LessThan
<1> QED
  BY <1>2

\* A set with 0 and the successors of its numbers has all naturals.
LEMMA NaturalsInSet ==
  ASSUME NEW T, 0 \in T, \A n \in Nat : n \in T => n + 1 \in T
  PROVE  Nat \subseteq T
<1> SUFFICES ASSUME Nat \ T # {}
             PROVE  FALSE
  OBVIOUS
<1>1. PICK n \in Nat \ T : \A m \in Nat \ T : n <= m
  BY LeastNumber
<1>2. n # 0
  OBVIOUS
<1>3. n - 1 \in Nat /\ n - 1 \in T
  BY <1>1, <1>2
<1> QED
  BY <1>3

\* The same within an interval.
LEMMA IntervalInSet ==
  ASSUME NEW n \in Nat, NEW T, 0 \in T, \A i \in 1..n : i - 1 \in T => i \in T
  PROVE  0..n \subseteq T
<1> DEFINE U == {i \in Nat : i <= n => i \in T}
<1>1. 0 \in U
  OBVIOUS
<1>2. ASSUME NEW i \in Nat, i \in U
      PROVE  i + 1 \in U
  <2> SUFFICES ASSUME i + 1 <= n
               PROVE  i + 1 \in T
    OBVIOUS
  <2>1. i + 1 \in 1..n /\ (i + 1) - 1 \in T
    BY <1>2
  <2> QED
    BY <2>1
<1>3. Nat \subseteq U
  BY <1>1, <1>2, NaturalsInSet
<1> QED
  BY <1>3

\* The n turns of a loop that starts with b and goes on with step: what it has
\* after each of them.
Stepping(S, b, n, step) == b \in S /\ n \in Nat /\ step \in [1..n -> [S -> S]]
Looping(f, S, b, n, step) ==
  f \in [0..n -> S] /\ f[0] = b /\ \A i \in 1..n : f[i] = step[i][f[i - 1]]

LEMMA Recursion ==
  ASSUME NEW S, NEW b, NEW n, NEW step, Stepping(S, b, n, step)
  PROVE  \E f : Looping(f, S, b, n, step)
<1>0. b \in S /\ n \in Nat /\ step \in [1..n -> [S -> S]]
  BY DEF Stepping
<1> DEFINE Upto(f, m) ==
             /\ f \in [0..m -> S] /\ f[0] = b
             /\ \A i \in 1..m : f[i] = step[i][f[i - 1]]
           T == {m \in 0..n : \E f : Upto(f, m)}
<1>1. 0 \in T
  <2>1. Upto([i \in 0..0 |-> b], 0)
    BY <1>0
  <2>2. \E f : Upto(f, 0)
    <3> HIDE DEF Upto
    <3> QED
      BY <2>1
  <2> QED
    BY <1>0, <2>2
<1>2. ASSUME NEW m \in 1..n, m - 1 \in T
      PROVE  m \in T
  <2>1. PICK f : Upto(f, m - 1)
    BY <1>2
  <2> DEFINE g == [i \in 0..m |-> IF i = m THEN step[m][f[m - 1]] ELSE f[i]]
  <2>2. f[m - 1] \in S /\ step[m][f[m - 1]] \in S
    BY <1>0, <2>1
  <2>3. g \in [0..m -> S] /\ g[0] = b
    BY <2>1, <2>2
  <2>4. ASSUME NEW i \in 1..m
        PROVE  g[i] = step[i][g[i - 1]]
    <3>1. g[i - 1] = f[i - 1]
      OBVIOUS
    <3>2. CASE i = m
      BY <3>1, <3>2
    <3>3. CASE i # m
      BY <2>1, <3>1, <3>3
    <3> QED
      BY <3>2, <3>3
  <2>5. Upto(g, m)
    BY <2>3, <2>4
  <2> HIDE DEF Upto, g
  <2>6. \E h : Upto(h, m)
    BY <2>5
  <2> QED
    BY <2>6
<1>3. n \in T
  <2> HIDE DEF T
  <2>1. 0..n \subseteq T
    BY <1>0, <1>1, <1>2, IntervalInSet
  <2> QED
    BY <1>0, <2>1
<1> QED
  BY <1>3 DEF Looping

----------------------------------------------------------------------------
(***************************************************************************)
(* Sums.                                                                   *)
(***************************************************************************)
\* The sums of the prefixes.
LEMMA TotalLoop ==
  ASSUME NEW s \in Seq(Int)
  PROVE  \E upTo \in [0..Len(s) -> Int] :
           /\ upTo[0] = 0
           /\ \A i \in 1..Len(s) : upTo[i] = upTo[i - 1] + s[i]
           /\ Total(s) = upTo[Len(s)]
<1> DEFINE n == Len(s)
           next(a, i) == a + s[i]
           step == [i \in 1..n |-> [a \in Int |-> next(a, i)]]
           loop == CHOOSE f : f = [i \in 0..n |-> IF i = 0 THEN 0 ELSE next(f[i - 1], i)]
<1>1. n \in Nat
  OBVIOUS
<1>2. \A i \in 1..n, a \in Int : next(a, i) \in Int
  OBVIOUS
<1>3. Total(s) = loop[n]
  BY DEF Total
<1> HIDE DEF n, next
<1>4. Stepping(Int, 0, n, step)
  BY <1>1, <1>2 DEF Stepping
<1>5. PICK f : Looping(f, Int, 0, n, step)
  BY <1>4, Recursion
<1>6. f = [i \in 0..n |-> IF i = 0 THEN 0 ELSE next(f[i - 1], i)]
  <2>1. f \in [0..n -> Int] /\ f[0] = 0 /\ \A i \in 1..n : f[i] = step[i][f[i - 1]]
    BY <1>5 DEF Looping
  <2>2. ASSUME NEW i \in 1..n
        PROVE  f[i] = next(f[i - 1], i)
    <3>1. f[i - 1] \in Int /\ step[i] = [a \in Int |-> next(a, i)]
      BY <1>1, <2>1
    <3> QED
      BY <2>1, <3>1
  <2> HIDE DEF loop, step
  <2> QED
    BY <1>1, <2>1, <2>2
<1>7. loop = [i \in 0..n |-> IF i = 0 THEN 0 ELSE next(loop[i - 1], i)]
  BY <1>6
<1> HIDE DEF loop, step
<1>8. 0 \in 0..n /\ \A i \in 1..n : i \in 0..n /\ i # 0 /\ i - 1 \in 0..n
  BY <1>1
<1>9. loop[0] = 0 /\ \A i \in 1..n : loop[i] = next(loop[i - 1], i)
  BY <1>7, <1>8
<1>10. \A i \in 0..n : loop[i] \in Int
  <2> DEFINE T == {i \in 0..n : loop[i] \in Int}
  <2>1. 0 \in T
    BY <1>8, <1>9
  <2>2. ASSUME NEW i \in 1..n, i - 1 \in T
        PROVE  i \in T
    BY <1>2, <1>8, <1>9, <2>2
  <2> HIDE DEF T
  <2>3. 0..n \subseteq T
    BY <1>1, <2>1, <2>2, IntervalInSet
  <2> QED
    BY <2>3 DEF T
<1>11. loop \in [0..n -> Int]
  BY <1>7, <1>10
<1> QED
  BY <1>3, <1>9, <1>11 DEF n, next

\* A function on 1..n is a sequence.
LEMMA IsSequence ==
  ASSUME NEW E, NEW n \in Nat, NEW f \in [1..n -> E]
  PROVE  f \in Seq(E) /\ Len(f) = n
OBVIOUS

LEMMA TotalEmpty == Total(<<>>) = 0
<1>1. <<>> \in Seq(Int) /\ Len(<<>>) = 0
  OBVIOUS
<1> QED
  BY <1>1, TotalLoop

LEMMA TotalType ==
  ASSUME NEW s \in Seq(Int)
  PROVE  Total(s) \in Int
<1>1. Len(s) \in 0..Len(s)
  OBVIOUS
<1> QED
  BY <1>1, TotalLoop

LEMMA TotalAppend ==
  ASSUME NEW s \in Seq(Int), NEW x \in Int
  PROVE  Total(Append(s, x)) = Total(s) + x
<1> DEFINE n == Len(s)
           t == Append(s, x)
<1>1. t \in Seq(Int) /\ Len(t) = n + 1 /\ t[n + 1] = x /\ n \in Nat
      /\ \A i \in 1..n : s[i] = t[i]
  OBVIOUS
<1>2. PICK f \in [0..n -> Int] : /\ f[0] = 0 /\ \A i \in 1..n : f[i] = f[i - 1] + s[i]
                                 /\ Total(s) = f[n]
  BY TotalLoop
<1> HIDE DEF t
<1>3. PICK g \in [0..n + 1 -> Int] : /\ g[0] = 0
                                     /\ \A i \in 1..n + 1 : g[i] = g[i - 1] + t[i]
                                     /\ Total(t) = g[n + 1]
  BY <1>1, TotalLoop
<1> HIDE DEF n
<1>4. \A i \in 1..n : g[i] = g[i - 1] + t[i]
  BY <1>1, <1>3
<1>5. \A i \in 0..n : f[i] = g[i]
  <2> DEFINE T == {i \in 0..n : f[i] = g[i]}
  <2>1. 0 \in T /\ \A i \in 1..n : i - 1 \in T => i \in T
    BY <1>1, <1>2, <1>3, <1>4
  <2> HIDE DEF T
  <2>2. 0..n \subseteq T
    BY <1>1, <2>1, IntervalInSet
  <2> QED
    BY <2>2 DEF T
<1>6. g[n + 1] = g[n] + x /\ f[n] = g[n]
  BY <1>1, <1>3, <1>5
<1> QED
  BY <1>2, <1>3, <1>6 DEF t

\* A concatenation is made by appending.
LEMMA ConcatAppend ==
  ASSUME NEW E, NEW s \in Seq(E), NEW t \in Seq(E)
  PROVE  /\ s \o SubSeq(t, 1, 0) = s /\ SubSeq(t, 1, Len(t)) = t
         /\ \A k \in 1..Len(t) :
              /\ SubSeq(t, 1, k) \in Seq(E) /\ SubSeq(t, 1, k - 1) \in Seq(E)
              /\ s \o SubSeq(t, 1, k) = Append(s \o SubSeq(t, 1, k - 1), t[k])
              /\ SubSeq(t, 1, k) = Append(SubSeq(t, 1, k - 1), t[k])
<1>1. s \o SubSeq(t, 1, 0) = s /\ SubSeq(t, 1, Len(t)) = t
  OBVIOUS
<1>2. ASSUME NEW k \in 1..Len(t)
      PROVE  /\ SubSeq(t, 1, k) \in Seq(E) /\ SubSeq(t, 1, k - 1) \in Seq(E)
             /\ s \o SubSeq(t, 1, k) = Append(s \o SubSeq(t, 1, k - 1), t[k])
             /\ SubSeq(t, 1, k) = Append(SubSeq(t, 1, k - 1), t[k])
  <2>1. SubSeq(t, 1, k) \in Seq(E) /\ SubSeq(t, 1, k - 1) \in Seq(E)
        /\ Len(SubSeq(t, 1, k)) = k /\ Len(SubSeq(t, 1, k - 1)) = k - 1
    OBVIOUS
  <2>2. SubSeq(t, 1, k) = Append(SubSeq(t, 1, k - 1), t[k])
    BY <2>1
  <2>3. s \o SubSeq(t, 1, k) = Append(s \o SubSeq(t, 1, k - 1), t[k])
    BY <2>1
  <2> QED
    BY <2>1, <2>2, <2>3
<1> QED
  BY <1>1, <1>2

Growing(E, s, t, part, whole) ==
  /\ part \in [0..Len(t) -> Seq(E)] /\ whole \in [0..Len(t) -> Seq(E)]
  /\ part[0] = <<>> /\ part[Len(t)] = t /\ whole[0] = s /\ whole[Len(t)] = s \o t
  /\ \A k \in 1..Len(t) :
       /\ part[k] = Append(part[k - 1], t[k]) /\ whole[k] = Append(whole[k - 1], t[k])
       /\ Len(whole[k - 1]) = Len(s) + k - 1
       /\ part[k - 1] \in Seq(E) /\ whole[k - 1] \in Seq(E)

Associative(E) ==
  \A s, t \in Seq(E), x \in E : Append(s \o t, x) = s \o Append(t, x)

LEMMA AppendConcat ==
  ASSUME NEW E
  PROVE  Associative(E)
BY DEF Associative

\* Sequences of the same elements are the same.
Extensional(E) ==
  \A s, t \in Seq(E) : Len(s) = Len(t) /\ (\A n \in 1..Len(s) : s[n] = t[n]) => s = t

LEMMA SameElements ==
  ASSUME NEW E
  PROVE  Extensional(E)
BY DEF Extensional

LEMMA ConcatGrows ==
  ASSUME NEW E, NEW s \in Seq(E), NEW t \in Seq(E)
  PROVE  \E part, whole : Growing(E, s, t, part, whole)
<1> DEFINE part == [k \in 0..Len(t) |-> SubSeq(t, 1, k)]
           whole == [k \in 0..Len(t) |-> s \o SubSeq(t, 1, k)]
<1>1. \A k \in 0..Len(t) : SubSeq(t, 1, k) \in Seq(E) /\ s \o SubSeq(t, 1, k) \in Seq(E)
  OBVIOUS
<1>2. part[0] = <<>> /\ part[Len(t)] = t /\ whole[0] = s /\ whole[Len(t)] = s \o t
  <2>1. 0 \in 0..Len(t) /\ Len(t) \in 0..Len(t) /\ SubSeq(t, 1, 0) = <<>>
    OBVIOUS
  <2>2. s \o SubSeq(t, 1, 0) = s /\ SubSeq(t, 1, Len(t)) = t
    BY ConcatAppend
  <2> QED
    BY <2>1, <2>2
<1>3. ASSUME NEW k \in 1..Len(t)
      PROVE  /\ part[k] = Append(part[k - 1], t[k]) /\ whole[k] = Append(whole[k - 1], t[k])
             /\ Len(whole[k - 1]) = Len(s) + k - 1
             /\ part[k - 1] \in Seq(E) /\ whole[k - 1] \in Seq(E)
  <2>1. k - 1 \in 0..Len(t) /\ k \in 0..Len(t)
    OBVIOUS
  <2>2. part[k] = Append(part[k - 1], t[k]) /\ whole[k] = Append(whole[k - 1], t[k])
    BY <2>1, ConcatAppend
  <2>3. Len(SubSeq(t, 1, k - 1)) = k - 1 /\ SubSeq(t, 1, k - 1) \in Seq(E)
    OBVIOUS
  <2>4. Len(whole[k - 1]) = Len(s) + k - 1
    BY <2>1, <2>3
  <2> QED
    BY <1>1, <2>1, <2>2, <2>4
<1>4. Growing(E, s, t, part, whole)
  BY <1>1, <1>2, <1>3 DEF Growing
<1> HIDE DEF part, whole
<1> QED
  BY <1>4

----------------------------------------------------------------------------
(***************************************************************************)
(* The elements of a sequence at some of its places.                       *)
(***************************************************************************)
Choosing(upTo, E, s, places) ==
  /\ upTo \in [0..Len(s) -> Seq(E)] /\ upTo[0] = <<>>
  /\ \A i \in 1..Len(s) :
       upTo[i] = IF i \in places THEN Append(upTo[i - 1], s[i]) ELSE upTo[i - 1]
  /\ Chosen(s, places) = upTo[Len(s)]

LEMMA ChosenLoop ==
  ASSUME NEW E, NEW s \in Seq(E), NEW places
  PROVE  \E upTo : Choosing(upTo, E, s, places)
<1> DEFINE n == Len(s)
           next(a, i) == IF i \in places THEN Append(a, s[i]) ELSE a
           step == [i \in 1..n |-> [a \in Seq(E) |-> next(a, i)]]
           loop == CHOOSE f : f = [i \in 0..n |-> IF i = 0 THEN <<>> ELSE next(f[i - 1], i)]
<1>1. n \in Nat
  OBVIOUS
<1>2. \A i \in 1..n, a \in Seq(E) : next(a, i) \in Seq(E)
  OBVIOUS
<1>3. Chosen(s, places) = loop[n]
  BY DEF Chosen
<1>0. <<>> \in Seq(E)
  OBVIOUS
<1> HIDE DEF n, next
<1>4. Stepping(Seq(E), <<>>, n, step)
  BY <1>1, <1>2, <1>0 DEF Stepping
<1>5. PICK f : Looping(f, Seq(E), <<>>, n, step)
  BY <1>4, Recursion
<1>6. f = [i \in 0..n |-> IF i = 0 THEN <<>> ELSE next(f[i - 1], i)]
  <2>1. f \in [0..n -> Seq(E)] /\ f[0] = <<>> /\ \A i \in 1..n : f[i] = step[i][f[i - 1]]
    BY <1>5 DEF Looping
  <2>2. ASSUME NEW i \in 1..n
        PROVE  f[i] = next(f[i - 1], i)
    <3>1. f[i - 1] \in Seq(E) /\ step[i] = [a \in Seq(E) |-> next(a, i)]
      BY <1>1, <2>1
    <3> QED
      BY <2>1, <3>1
  <2> HIDE DEF loop, step
  <2> QED
    BY <1>1, <2>1, <2>2
<1>7. loop = [i \in 0..n |-> IF i = 0 THEN <<>> ELSE next(loop[i - 1], i)]
  BY <1>6
<1> HIDE DEF loop, step
<1>8. 0 \in 0..n /\ \A i \in 1..n : i \in 0..n /\ i # 0 /\ i - 1 \in 0..n
  BY <1>1
<1>9. loop[0] = <<>> /\ \A i \in 1..n : loop[i] = next(loop[i - 1], i)
  BY <1>7, <1>8
<1>10. \A i \in 0..n : loop[i] \in Seq(E)
  <2> DEFINE T == {i \in 0..n : loop[i] \in Seq(E)}
  <2>1. 0 \in T
    BY <1>8, <1>9, <1>0
  <2>2. ASSUME NEW i \in 1..n, i - 1 \in T
        PROVE  i \in T
    BY <1>2, <1>8, <1>9, <2>2
  <2> HIDE DEF T
  <2>3. 0..n \subseteq T
    BY <1>1, <2>1, <2>2, IntervalInSet
  <2> QED
    BY <2>3 DEF T
<1>11. loop \in [0..n -> Seq(E)]
  BY <1>7, <1>10
<1> QED
  BY <1>3, <1>9, <1>11 DEF n, next, Choosing

LEMMA ChosenType ==
  ASSUME NEW E, NEW s \in Seq(E), NEW places
  PROVE  Chosen(s, places) \in Seq(E)
<1>1. Len(s) \in 0..Len(s)
  OBVIOUS
<1> QED
  BY <1>1, ChosenLoop DEF Choosing

\* What is appended is chosen, or not; it changes nothing in what was there.
LEMMA ChosenAppend ==
  ASSUME NEW E, NEW s \in Seq(E), NEW x \in E, NEW P, NEW Q,
         \A i \in 1..Len(s) : i \in P <=> i \in Q
  PROVE  Chosen(Append(s, x), Q) =
           IF Len(s) + 1 \in Q THEN Append(Chosen(s, P), x) ELSE Chosen(s, P)
<1> DEFINE n == Len(s)
           t == Append(s, x)
<1>1. t \in Seq(E) /\ Len(t) = n + 1 /\ t[n + 1] = x /\ n \in Nat
      /\ \A i \in 1..n : s[i] = t[i] /\ s[i] \in E
  OBVIOUS
<1>2. PICK f : Choosing(f, E, s, P)
  BY ChosenLoop
<1> HIDE DEF t
<1>3. PICK g : Choosing(g, E, t, Q)
  BY <1>1, ChosenLoop
<1>a. /\ f[0] = <<>> /\ Chosen(s, P) = f[n]
      /\ \A i \in 1..n : f[i] = IF i \in P THEN Append(f[i - 1], s[i]) ELSE f[i - 1]
  BY <1>2 DEF Choosing
<1>b. /\ g[0] = <<>> /\ Chosen(t, Q) = g[n + 1]
      /\ \A i \in 1..n + 1 : g[i] = IF i \in Q THEN Append(g[i - 1], t[i]) ELSE g[i - 1]
  BY <1>1, <1>3 DEF Choosing
<1>4. \A i \in 1..n : i \in P <=> i \in Q
  OBVIOUS
<1> HIDE DEF n
<1>5. \A i \in 0..n : f[i] = g[i]
  <2> DEFINE T == {i \in 0..n : f[i] = g[i]}
  <2>1. 0 \in T
    BY <1>1, <1>a, <1>b
  <2>2. ASSUME NEW i \in 1..n, i - 1 \in T
        PROVE  i \in T
    <3>1. f[i - 1] = g[i - 1] /\ s[i] = t[i] /\ i \in 0..n /\ (i \in P <=> i \in Q) /\ i \in 1..n + 1
      BY <1>1, <1>4, <2>2
    <3>2. f[i] = (IF i \in P THEN Append(f[i - 1], s[i]) ELSE f[i - 1])
      BY <1>a
    <3>3. g[i] = (IF i \in Q THEN Append(g[i - 1], t[i]) ELSE g[i - 1])
      BY <1>b, <3>1
    <3> QED
      BY <3>1, <3>2, <3>3
  <2> HIDE DEF T
  <2>3. 0..n \subseteq T
    BY <1>1, <2>1, <2>2, IntervalInSet
  <2> QED
    BY <2>3 DEF T
<1>6. f[n] = g[n] /\ n + 1 \in 1..n + 1 /\ n + 1 - 1 = n
  BY <1>1, <1>5
<1>7. g[n + 1] = IF n + 1 \in Q THEN Append(g[n], x) ELSE g[n]
  BY <1>1, <1>b, <1>6
<1> QED
  BY <1>a, <1>b, <1>6, <1>7 DEF t, n

\* Nothing is chosen of no place, and everything of all.
LEMMA ChosenNone ==
  ASSUME NEW E, NEW s \in Seq(E), NEW P, \A i \in 1..Len(s) : i \notin P
  PROVE  Chosen(s, P) = <<>>
<1>0. PICK f : Choosing(f, E, s, P)
  BY ChosenLoop
<1>1. /\ f \in [0..Len(s) -> Seq(E)] /\ f[0] = <<>> /\ Chosen(s, P) = f[Len(s)]
      /\ \A i \in 1..Len(s) : f[i] = IF i \in P THEN Append(f[i - 1], s[i]) ELSE f[i - 1]
  BY <1>0 DEF Choosing
<1> DEFINE T == {i \in 0..Len(s) : f[i] = <<>>}
<1>2. Len(s) \in Nat /\ 0 \in T
  BY <1>1
<1>3. ASSUME NEW i \in 1..Len(s), i - 1 \in T
      PROVE  i \in T
  BY <1>1, <1>3
<1> HIDE DEF T
<1>4. 0..Len(s) \subseteq T
  BY <1>2, <1>3, IntervalInSet
<1> QED
  BY <1>1, <1>2, <1>4 DEF T

LEMMA ChosenAll ==
  ASSUME NEW E, NEW s \in Seq(E), NEW P, \A i \in 1..Len(s) : i \in P
  PROVE  Chosen(s, P) = s
<1>0. PICK f : Choosing(f, E, s, P)
  BY ChosenLoop
<1>1. /\ f \in [0..Len(s) -> Seq(E)] /\ f[0] = <<>> /\ Chosen(s, P) = f[Len(s)]
      /\ \A i \in 1..Len(s) : f[i] = IF i \in P THEN Append(f[i - 1], s[i]) ELSE f[i - 1]
  BY <1>0 DEF Choosing
<1> DEFINE T == {i \in 0..Len(s) : f[i] = SubSeq(s, 1, i)}
<1>2. Len(s) \in Nat /\ SubSeq(s, 1, 0) = <<>> /\ SubSeq(s, 1, Len(s)) = s
  OBVIOUS
<1>3. 0 \in T
  BY <1>1, <1>2
<1>4. ASSUME NEW i \in 1..Len(s), i - 1 \in T
      PROVE  i \in T
  <2>0. i \in P /\ i \in 0..Len(s)
    OBVIOUS
  <2>1. f[i] = Append(f[i - 1], s[i])
    BY <1>1, <2>0
  <2>3. f[i - 1] = SubSeq(s, 1, i - 1)
    BY <1>4
  <2>2. SubSeq(s, 1, i) = Append(SubSeq(s, 1, i - 1), s[i])
    BY ConcatAppend
  <2> QED
    BY <2>0, <2>1, <2>2, <2>3
<1> HIDE DEF T
<1>5. 0..Len(s) \subseteq T
  BY <1>2, <1>3, <1>4, IntervalInSet
<1> QED
  BY <1>1, <1>2, <1>5, SMTT(20) DEF T

\* Only the places within the sequence matter.
LEMMA ChosenSame ==
  ASSUME NEW E, NEW s \in Seq(E), NEW P, NEW Q, \A i \in 1..Len(s) : i \in P <=> i \in Q
  PROVE  Chosen(s, P) = Chosen(s, Q)
<1>1. CASE Len(s) = 0
  <2>1. \A i \in 1..Len(s) : i \notin P /\ i \notin Q
    BY <1>1
  <2> QED
    BY <2>1, ChosenNone
<1>2. CASE Len(s) # 0
  <2> DEFINE R == Q \ {Len(s) + 1}
             x == s[1]
  <2>1. x \in E
    BY <1>2
  <2>2. Len(s) + 1 \notin R /\ \A i \in 1..Len(s) : (i \in P <=> i \in R) /\ (i \in Q <=> i \in R)
    OBVIOUS
  <2> HIDE DEF R, x
  <2>3. Chosen(Append(s, x), R) = IF Len(s) + 1 \in R THEN Append(Chosen(s, P), x) ELSE Chosen(s, P)
    BY <2>1, <2>2, ChosenAppend
  <2>4. Chosen(Append(s, x), R) = IF Len(s) + 1 \in R THEN Append(Chosen(s, Q), x) ELSE Chosen(s, Q)
    BY <2>1, <2>2, ChosenAppend
  <2> QED
    BY <2>2, <2>3, <2>4
<1> QED
  BY <1>1, <1>2

\* All of what is concatenated is chosen, or nothing of it.
AllOrNothing(s, t, P, Q) ==
  /\ (\A i \in 1..Len(t) : Len(s) + i \in Q) => Chosen(s \o t, Q) = Chosen(s, P) \o t
  /\ (\A i \in 1..Len(t) : Len(s) + i \notin Q) => Chosen(s \o t, Q) = Chosen(s, P)

LEMMA ChosenConcat ==
  ASSUME NEW E, NEW s \in Seq(E), NEW t \in Seq(E), NEW P, NEW Q,
         \A i \in 1..Len(s) : i \in P <=> i \in Q
  PROVE  AllOrNothing(s, t, P, Q)
<1>1. PICK part, whole : Growing(E, s, t, part, whole)
  BY ConcatGrows
<1>2. Len(s) \in Nat /\ Len(t) \in Nat
  OBVIOUS
<1>3. PICK c \in Seq(E) : c = Chosen(s, P) /\ c = Chosen(s, Q)
  BY ChosenSame, ChosenType
<1>0. Associative(E)
  BY AppendConcat
<1>4. ASSUME NEW k \in 1..Len(t)
      PROVE  Chosen(whole[k], Q) =
               IF Len(s) + k \in Q THEN Append(Chosen(whole[k - 1], Q), t[k])
               ELSE Chosen(whole[k - 1], Q)
  <2>1. PICK u \in Seq(E) : u = whole[k - 1] /\ Len(u) = Len(s) + k - 1
    BY <1>1, <1>2 DEF Growing
  <2>2. PICK x \in E : x = t[k]
    OBVIOUS
  <2>3. Len(u) + 1 = Len(s) + k
    BY <1>2, <2>1
  <2>4. Chosen(Append(u, x), Q) =
          IF Len(u) + 1 \in Q THEN Append(Chosen(u, Q), x) ELSE Chosen(u, Q)
    BY ChosenAppend
  <2>5. whole[k] = Append(u, x)
    BY <1>1, <2>1, <2>2 DEF Growing
  <2> QED
    BY <2>1, <2>2, <2>3, <2>4, <2>5
<1>5. ASSUME \A i \in 1..Len(t) : Len(s) + i \in Q
      PROVE  Chosen(s \o t, Q) = c \o t
  <2> DEFINE T == {k \in 0..Len(t) : Chosen(whole[k], Q) = c \o part[k]}
  <2>1. 0 \in T
    BY <1>1, <1>2, <1>3 DEF Growing
  <2>2. ASSUME NEW k \in 1..Len(t), k - 1 \in T
        PROVE  k \in T
    <3>1. PICK v \in Seq(E) : v = part[k - 1] /\ part[k] = Append(v, t[k])
      BY <1>1, <1>2 DEF Growing
    <3>2. PICK x \in E : x = t[k]
      OBVIOUS
    <3>3. Chosen(whole[k], Q) = Append(c \o v, x)
      BY <1>4, <1>5, <2>2, <3>1, <3>2
    <3>4. Append(c \o v, x) = c \o Append(v, x)
      BY <1>0 DEF Associative
    <3>5. k \in 0..Len(t)
      OBVIOUS
    <3> QED
      BY <3>1, <3>2, <3>3, <3>4, <3>5
  <2> HIDE DEF T
  <2>3. 0..Len(t) \subseteq T
    BY <1>2, <2>1, <2>2, IntervalInSet
  <2>4. Len(t) \in T
    BY <1>2, <2>3
  <2> QED
    BY <1>1, <2>4 DEF T, Growing
<1>6. ASSUME \A i \in 1..Len(t) : Len(s) + i \notin Q
      PROVE  Chosen(s \o t, Q) = c
  <2> DEFINE T == {k \in 0..Len(t) : Chosen(whole[k], Q) = c}
  <2>1. 0 \in T
    BY <1>1, <1>2, <1>3 DEF Growing
  <2>2. ASSUME NEW k \in 1..Len(t), k - 1 \in T
        PROVE  k \in T
    BY <1>4, <1>6, <2>2
  <2> HIDE DEF T
  <2>3. 0..Len(t) \subseteq T
    BY <1>2, <2>1, <2>2, IntervalInSet
  <2>4. Len(t) \in T
    BY <1>2, <2>3
  <2> QED
    BY <1>1, <2>4 DEF T, Growing
<1> QED
  BY <1>3, <1>5, <1>6 DEF AllOrNothing

LEMMA TotalConcat ==
  ASSUME NEW s \in Seq(Int), NEW t \in Seq(Int)
  PROVE  Total(s \o t) = Total(s) + Total(t)
<1>1. PICK part, whole : Growing(Int, s, t, part, whole)
  BY ConcatGrows
<1>2. Len(t) \in Nat
  OBVIOUS
<1>3. PICK c \in Int : c = Total(s)
  BY TotalType
<1> DEFINE T == {k \in 0..Len(t) : Total(whole[k]) = c + Total(part[k])}
<1>4. 0 \in T
  BY <1>1, <1>2, <1>3, TotalEmpty DEF Growing
<1>5. ASSUME NEW k \in 1..Len(t), k - 1 \in T
      PROVE  k \in T
  <2>1. PICK u \in Seq(Int) : u = whole[k - 1]
    BY <1>1, <1>2 DEF Growing
  <2>2. PICK v \in Seq(Int) : v = part[k - 1]
    BY <1>1, <1>2 DEF Growing
  <2>3. PICK x \in Int : x = t[k]
    OBVIOUS
  <2>4. Total(Append(u, x)) = Total(u) + x /\ Total(Append(v, x)) = Total(v) + x
        /\ Total(u) \in Int /\ Total(v) \in Int
    BY TotalAppend, TotalType
  <2>5. Total(u) = c + Total(v)
    BY <1>5, <2>1, <2>2
  <2>6. whole[k] = Append(u, x) /\ part[k] = Append(v, x)
    BY <1>1, <2>1, <2>2, <2>3 DEF Growing
  <2>7. Total(whole[k]) = c + Total(part[k])
    BY <2>4, <2>5, <2>6
  <2>8. k \in 0..Len(t)
    OBVIOUS
  <2> QED
    BY <2>7, <2>8
<1> HIDE DEF T
<1>6. 0..Len(t) \subseteq T
  BY <1>2, <1>4, <1>5, IntervalInSet
<1>7. Len(t) \in T
  BY <1>2, <1>6
<1> QED
  BY <1>1, <1>3, <1>7 DEF T, Growing

\* The chosen elements c come from the first k places of s, at increasing ones,
\* which are all of those to choose.
Picks(f, c, s, places, k) ==
  /\ f \in [1..Len(c) -> 1..k]
  /\ \A i \in 1..Len(c) : f[i] \in places /\ c[i] = s[f[i]]
  /\ \A i, j \in 1..Len(c) : i < j => f[i] < f[j]
  /\ \A n \in 1..k : n \in places => \E i \in 1..Len(c) : f[i] = n

LEMMA PicksNone ==
  ASSUME NEW s, NEW places
  PROVE  \E f : Picks(f, <<>>, s, places, 0)
<1>1. PICK none : none = [i \in 1..0 |-> i]
  OBVIOUS
<1>2. Picks(none, <<>>, s, places, 0)
  BY <1>1 DEF Picks
<1> QED
  BY <1>2

LEMMA PicksNext ==
  ASSUME NEW E, NEW c \in Seq(E), NEW s, NEW places, NEW k \in Nat, NEW f,
         Picks(f, c, s, places, k), NEW x \in E, x = s[k + 1], k + 1 \in places
  PROVE  \E g : Picks(g, Append(c, x), s, places, k + 1)
<1> DEFINE d == Append(c, x)
<1>1. PICK m \in Nat : m = Len(c)
  OBVIOUS
<1>2. d \in Seq(E) /\ Len(d) = m + 1 /\ d[m + 1] = x /\ \A i \in 1..m : d[i] = c[i]
  BY <1>1
<1> HIDE DEF d
<1>3. PICK g : g = [i \in 1..m + 1 |-> IF i = m + 1 THEN k + 1 ELSE f[i]]
  OBVIOUS
<1>4. \A i \in 1..m : f[i] \in 1..k /\ f[i] \in places /\ c[i] = s[f[i]]
  BY <1>1 DEF Picks
<1>5. \A i \in 1..m + 1 : i = m + 1 \/ i \in 1..m
  BY <1>1
<1>6. g[m + 1] = k + 1 /\ \A i \in 1..m : g[i] = f[i]
  BY <1>1, <1>3
<1>7. g \in [1..Len(d) -> 1..k + 1]
  BY <1>1, <1>2, <1>3, <1>4
<1>8. \A i \in 1..Len(d) : g[i] \in places /\ d[i] = s[g[i]]
  BY <1>1, <1>2, <1>4, <1>5, <1>6
<1>9. \A i, j \in 1..Len(d) : i < j => g[i] < g[j]
  <2> SUFFICES ASSUME NEW i \in 1..m + 1, NEW j \in 1..m + 1, i < j
               PROVE  g[i] < g[j]
    BY <1>2
  <2>1. i \in 1..m
    BY <1>1
  <2>2. CASE j = m + 1
    BY <2>1, <2>2, <1>4, <1>6
  <2>3. CASE j \in 1..m
    <3>1. f[i] < f[j]
      BY <2>1, <2>3, <1>1 DEF Picks
    <3> QED
      BY <3>1, <2>1, <2>3, <1>6
  <2> QED
    BY <1>5, <2>2, <2>3
<1>10. \A n \in 1..k + 1 : n \in places => \E i \in 1..Len(d) : g[i] = n
  <2> SUFFICES ASSUME NEW n \in 1..k + 1, n \in places
               PROVE  \E i \in 1..m + 1 : g[i] = n
    BY <1>2
  <2>1. CASE n = k + 1
    <3>1. m + 1 \in 1..m + 1
      BY <1>1
    <3> QED
      BY <2>1, <3>1, <1>6
  <2>2. CASE n \in 1..k
    <3>1. PICK i \in 1..m : f[i] = n
      BY <2>2, <1>1 DEF Picks
    <3>2. i \in 1..m + 1 /\ g[i] = n
      BY <3>1, <1>1, <1>6
    <3> QED
      BY <3>2
  <2> QED
    BY <2>1, <2>2
<1>11. Picks(g, d, s, places, k + 1)
  BY <1>7, <1>8, <1>9, <1>10 DEF Picks
<1>12. \E h : Picks(h, d, s, places, k + 1)
  BY <1>11
<1> QED
  BY <1>12 DEF d

LEMMA PicksSame ==
  ASSUME NEW E, NEW c \in Seq(E), NEW s, NEW places, NEW k \in Nat, NEW f,
         Picks(f, c, s, places, k), k + 1 \notin places
  PROVE  Picks(f, c, s, places, k + 1)
<1>1. PICK m \in Nat : m = Len(c)
  OBVIOUS
<1>2. f \in [1..Len(c) -> 1..k + 1]
  BY DEF Picks
<1>3. \A n \in 1..k + 1 : n = k + 1 \/ n \in 1..k
  OBVIOUS
<1> QED
  BY <1>2, <1>3 DEF Picks

\* What is chosen is at increasing places, and nothing to choose is left out.
LEMMA ChosenPlaces ==
  ASSUME NEW E, NEW s \in Seq(E), NEW places
  PROVE  \E f : Picks(f, Chosen(s, places), s, places, Len(s))
<1>1. PICK upTo : Choosing(upTo, E, s, places)
  BY ChosenLoop
<1>2. PICK n \in Nat : n = Len(s)
  OBVIOUS
<1>3. /\ upTo \in [0..n -> Seq(E)] /\ upTo[0] = <<>> /\ Chosen(s, places) = upTo[n]
      /\ \A i \in 1..n :
           upTo[i] = IF i \in places THEN Append(upTo[i - 1], s[i]) ELSE upTo[i - 1]
      /\ \A i \in 1..n : s[i] \in E
  BY <1>1, <1>2 DEF Choosing
<1> DEFINE T == {k \in 0..n : \E f : Picks(f, upTo[k], s, places, k)}
<1>4. 0 \in T
  <2>1. \E f : Picks(f, upTo[0], s, places, 0)
    BY <1>3, PicksNone
  <2> QED
    BY <2>1
<1>5. ASSUME NEW i \in 1..n, i - 1 \in T
      PROVE  i \in T
  <2>1. PICK k \in Nat : k = i - 1
    OBVIOUS
  <2>2. k + 1 = i /\ k \in 0..n /\ upTo[k] \in Seq(E)
    BY <2>1, <1>3
  <2>3. PICK c \in Seq(E) : c = upTo[k]
    BY <2>2
  <2>4. PICK f : Picks(f, c, s, places, k)
    BY <1>5, <2>1, <2>3
  <2>5. CASE i \in places
    <3>1. PICK x \in E : x = s[i]
      BY <1>3
    <3>2. x = s[k + 1] /\ k + 1 \in places
      BY <2>2, <2>5, <3>1
    <3>3. \E g : Picks(g, Append(c, x), s, places, k + 1)
      BY <2>4, <3>2, PicksNext
    <3>4. upTo[i] = Append(c, x)
      BY <1>3, <2>1, <2>3, <2>5, <3>1
    <3>5. \E g : Picks(g, upTo[i], s, places, i)
      BY <3>3, <3>4, <2>2
    <3> QED
      BY <3>5
  <2>6. CASE i \notin places
    <3>1. Picks(f, c, s, places, k + 1)
      BY <2>2, <2>4, <2>6, PicksSame
    <3>2. upTo[i] = c
      BY <1>3, <2>1, <2>3, <2>6
    <3> QED
      BY <3>1, <3>2, <2>2
  <2> QED
    BY <2>5, <2>6
<1> HIDE DEF T
<1>6. n \in T
  <2>1. 0..n \subseteq T
    BY <1>4, <1>5, IntervalInSet
  <2> QED
    BY <1>2, <2>1
<1> QED
  BY <1>2, <1>3, <1>6 DEF T
=============================================================================

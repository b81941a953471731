--------------------------- MODULE SequenceProofs ---------------------------
(***************************************************************************)
(* Induction over data.  The induction theorems of the library take an     *)
(* operator as a parameter, which no backend instantiates; their content   *)
(* is restated here for sets, where first-order provers can use it: a set  *)
(* with zero and with the successors of its elements holds every natural.  *)
(* From it follow that a function defined by recursion exists, and what    *)
(* Subsequence computes.                                                   *)
(***************************************************************************)
EXTENDS Subsequences, SequenceTheorems, WellFoundedInduction, TLAPS

-----------------------------------------------------------------------------
(* Natural numbers. *)

(* A set of naturals that is not empty has a least element. *)
LEMMA LeastNatural ==
  ASSUME NEW S, S \subseteq Nat, S # {}
  PROVE  \E n \in S : \A m \in S : n <= m
<1>1. PICK n \in S : \A m \in S : ~(<<m, n>> \in OpToRel(<, Nat))
  BY NatLessThanWellFounded, WFMin, Zenon
<1>2. \A m \in S : ~(m < n)
  BY <1>1, Zenon DEF OpToRel
<1>. QED  BY <1>2

(* Induction up to n, for the set of the numbers that have the property. *)
LEMMA InductionUpTo ==
  ASSUME NEW n \in Nat, NEW S, 0 \in S, \A i \in 0 .. n - 1 : i \in S => i + 1 \in S
  PROVE  \A i \in 0 .. n : i \in S
<1>. DEFINE Missing == {i \in 0 .. n : i \notin S}
<1>1. SUFFICES ASSUME Missing # {} PROVE FALSE
  OBVIOUS
<1>2. Missing \subseteq Nat
  OBVIOUS
<1>. HIDE DEF Missing
<1>3. PICK m \in Missing : \A k \in Missing : m <= k
  BY <1>1, <1>2, LeastNatural, Zenon
<1>4. m \in 0 .. n /\ m \notin S /\ m # 0
  BY <1>3 DEF Missing
<1>5. m - 1 \in 0 .. n - 1 /\ ~(m <= m - 1) /\ (m - 1) + 1 = m
  BY <1>4
<1>6. m - 1 \in S
  BY <1>3, <1>5 DEF Missing
<1>. QED  BY <1>4, <1>5, <1>6

(* A bounded set of naturals that is not empty has a greatest element. *)
LEMMA GreatestNatural ==
  ASSUME NEW n \in Nat, NEW S, S \subseteq 0 .. n, S # {}
  PROVE  \E m \in S : \A k \in S : k <= m
<1>. DEFINE Mirror == {n - k : k \in S}
<1>1. Mirror \subseteq Nat /\ Mirror # {}
  <2>1. \A k \in S : n - k \in Nat
    OBVIOUS
  <2>. QED  BY <2>1, Zenon
<1>. HIDE DEF Mirror
<1>2. PICK d \in Mirror : \A e \in Mirror : d <= e
  BY <1>1, LeastNatural, Zenon
<1>3. PICK m \in S : d = n - m
  BY DEF Mirror
<1>4. ASSUME NEW k \in S PROVE k <= m
  <2>1. n - k \in Mirror
    BY DEF Mirror
  <2>2. n - m <= n - k
    BY <1>2, <1>3, <2>1
  <2>. QED  BY <2>2
<1>. QED  BY <1>4

(***************************************************************************)
(* Recursion: from its first value and the step from each one to the next, *)
(* all of them in V, a function up to n is made.                           *)
(***************************************************************************)
Follows(f, base, step, n) == f[0] = base /\ \A i \in 1 .. n : f[i] = step[i][f[i - 1]]

LEMMA Recursion ==
  ASSUME NEW V, NEW base \in V, NEW n \in Nat, NEW step \in [1 .. n -> [V -> V]]
  PROVE  \E f \in [0 .. n -> V] : Follows(f, base, step, n)
<1>. USE DEF Follows
<1>. DEFINE Reached == {m \in Nat : \E f \in [0 .. m -> V] : Follows(f, base, step, m)}
<1>1. 0 \in Reached
  <2>1. /\ [i \in 0 .. 0 |-> base] \in [0 .. 0 -> V]
        /\ Follows([i \in 0 .. 0 |-> base], base, step, 0)
    OBVIOUS
  <2>. QED  BY <2>1, Zenon
<1>2. ASSUME NEW m \in 0 .. n - 1, m \in Reached PROVE m + 1 \in Reached
  <2>1. PICK f \in [0 .. m -> V] : Follows(f, base, step, m)
    BY <1>2
  <2>2. PICK g : g = [i \in 0 .. m + 1 |-> IF i = m + 1 THEN step[m + 1][f[m]] ELSE f[i]]
    BY Zenon
  <2>3. f[m] \in V /\ m + 1 \in 1 .. n
    OBVIOUS
  <2>4. step[m + 1][f[m]] \in V
    BY <2>3
  <2>5. g \in [0 .. m + 1 -> V] /\ g[0] = base
    BY <2>1, <2>2, <2>4
  <2>6. ASSUME NEW i \in 1 .. m + 1 PROVE g[i] = step[i][g[i - 1]]
    <3>1. CASE i = m + 1
      BY <2>2, <3>1
    <3>2. CASE i # m + 1
      <4>1. i \in 1 .. m /\ i - 1 \in 0 .. m + 1 /\ i - 1 # m + 1 /\ i \in 0 .. m + 1
        BY <3>2
      <4>2. g[i] = f[i] /\ g[i - 1] = f[i - 1]
        BY <2>2, <3>2, <4>1
      <4>. QED  BY <2>1, <4>1, <4>2
    <3>. QED  BY <3>1, <3>2
  <2>7. Follows(g, base, step, m + 1)
    BY <2>5, <2>6
  <2>8. m + 1 \in Nat /\ \E h \in [0 .. m + 1 -> V] : Follows(h, base, step, m + 1)
    <3>. HIDE DEF Follows
    <3>. QED  BY <2>5, <2>7
  <2>. QED  BY <2>8
<1>3. \A i \in 0 .. n : i \in Reached
  <2>. HIDE DEF Reached
  <2>. QED  BY <1>1, <1>2, InductionUpTo, Zenon
<1>. QED  BY <1>3

(* Appending to the second of two sequences appends to both. *)
LEMMA ConcatAppend ==
  ASSUME NEW V, NEW s \in Seq(V), NEW t \in Seq(V), NEW e \in V
  PROVE  s \o Append(t, e) = Append(s \o t, e)
OBVIOUS

-----------------------------------------------------------------------------
(* Subsequence. *)

(* Its recursive definition: the function it is taken from exists. *)
Picks(f, s, at) ==
  f[0] = <<>> /\ \A i \in 1 .. Len(s) : f[i] = IF i \in at THEN Append(f[i - 1], s[i]) ELSE f[i - 1]

LEMMA SubsequenceSteps ==
  ASSUME NEW V, NEW s \in Seq(V), NEW at
  PROVE  \E f \in [0 .. Len(s) -> Seq(V)] : Picks(f, s, at) /\ f[Len(s)] = Subsequence(s, at)
<1>. DEFINE n == Len(s)
            step == [i \in 1 .. n |-> [v \in Seq(V) |-> IF i \in at THEN Append(v, s[i]) ELSE v]]
            Pick(g) == [i \in 0 .. n |->
                          IF i = 0 THEN <<>> ELSE IF i \in at THEN Append(g[i - 1], s[i]) ELSE g[i - 1]]
            pick == CHOOSE g : g = Pick(g)
<1>1. n \in Nat /\ <<>> \in Seq(V) /\ step \in [1 .. n -> [Seq(V) -> Seq(V)]]
  <2>1. \A i \in 1 .. n : s[i] \in V
    OBVIOUS
  <2>2. \A i \in 1 .. n : \A v \in Seq(V) : (IF i \in at THEN Append(v, s[i]) ELSE v) \in Seq(V)
    BY <2>1
  <2>. QED  BY <2>2
<1>2. \A i \in 1 .. n : \A v \in Seq(V) : step[i][v] = IF i \in at THEN Append(v, s[i]) ELSE v
  OBVIOUS
<1>3. Subsequence(s, at) = pick[n]
  BY DEF Subsequence
<1>. HIDE DEF step, n
<1>4. PICK f \in [0 .. n -> Seq(V)] : f[0] = <<>> /\ \A i \in 1 .. n : f[i] = step[i][f[i - 1]]
  <2>1. \E f \in [0 .. n -> Seq(V)] : Follows(f, <<>>, step, n)
    BY <1>1, Recursion, Zenon
  <2>. QED  BY <2>1, Zenon DEF Follows
<1>5. \A i \in 1 .. n : i - 1 \in 0 .. n /\ f[i - 1] \in Seq(V)
  BY <1>1
<1>6. \A i \in 1 .. n : f[i] = IF i \in at THEN Append(f[i - 1], s[i]) ELSE f[i - 1]
  BY <1>2, <1>4, <1>5, Zenon
<1>7. f = Pick(f)
  <2>1. \A i \in 0 .. n : i = 0 \/ i \in 1 .. n
    BY <1>1
  <2>2. \A i \in 0 .. n : f[i] = Pick(f)[i]
    BY <1>4, <1>6, <2>1, Zenon
  <2>3. Pick(f) = [i \in 0 .. n |-> Pick(f)[i]]
    OBVIOUS
  <2>. QED  BY <2>2, <2>3
<1>8. pick = Pick(pick)
  <2>. HIDE DEF Pick
  <2>. QED  BY <1>7, Zenon
<1>9. pick[n] = f[n]
  <2>. DEFINE Same == {i \in 0 .. n : pick[i] = f[i]}
  <2>. HIDE DEF pick
  <2>1. 0 \in Same
    BY <1>1, <1>4, <1>8
  <2>2. ASSUME NEW i \in 0 .. n - 1, i \in Same PROVE i + 1 \in Same
    <3>1. pick[i] = f[i] /\ i + 1 \in 1 .. n /\ (i + 1) - 1 = i /\ i + 1 \in 0 .. n /\ i + 1 # 0
      BY <1>1, <2>2
    <3>2. pick[i + 1] = IF i + 1 \in at THEN Append(pick[i], s[i + 1]) ELSE pick[i]
      BY <1>8, <3>1, Zenon
    <3>3. f[i + 1] = IF i + 1 \in at THEN Append(f[i], s[i + 1]) ELSE f[i]
      BY <1>6, <3>1
    <3>. QED  BY <3>1, <3>2, <3>3
  <2>3. n \in 0 .. n
    BY <1>1
  <2>. HIDE DEF Same
  <2>4. n \in Same
    BY <1>1, <2>1, <2>2, <2>3, InductionUpTo, Zenon
  <2>. QED  BY <2>4 DEF Same
<1>10. Picks(f, s, at)
  BY <1>4, <1>6 DEF Picks, n
<1>. QED  BY <1>3, <1>9, <1>10, Zenon DEF n

(* Nothing is picked from the empty sequence. *)
LEMMA SubsequenceEmpty ==
  ASSUME NEW at PROVE Subsequence(<<>>, at) = <<>>
<1>1. <<>> \in Seq(Nat) /\ Len(<<>>) = 0
  OBVIOUS
<1>2. PICK s \in Seq(Nat) : s = <<>> /\ Len(s) = 0
  BY <1>1, Zenon
<1>3. PICK f \in [0 .. Len(s) -> Seq(Nat)] : Picks(f, s, at) /\ f[Len(s)] = Subsequence(s, at)
  BY SubsequenceSteps, Zenon
<1>4. f[0] = <<>>
  BY <1>3, Zenon DEF Picks
<1>5. Subsequence(s, at) = <<>>
  BY <1>2, <1>3, <1>4, Zenon
<1>. QED  BY <1>2, <1>5, Zenon

(* The positions that are picked from a sequence of length n. *)
Positions(n, at) == Subsequence([i \in 1 .. n |-> i], at)

(* t has the elements of s at the positions pos, which are those of `at`.  *)
Selects(t, s, pos, at) ==
  /\ pos \in Seq(at \cap (1 .. Len(s)))
  /\ t = [k \in 1 .. Len(pos) |-> s[pos[k]]]
  /\ \A i \in at \cap (1 .. Len(s)) : \E k \in 1 .. Len(pos) : pos[k] = i

(***************************************************************************)
(* The elements picked are those at the positions picked, which depend on  *)
(* the length of the sequence alone.                                       *)
(***************************************************************************)
LEMMA SubsequenceAt ==
  ASSUME NEW V, NEW s \in Seq(V), NEW at
  PROVE  Selects(Subsequence(s, at), s, Positions(Len(s), at), at)
<1>. DEFINE n == Len(s)
            one == [i \in 1 .. n |-> i]
            P == at \cap (1 .. n)
<1>1. n \in Nat /\ one \in Seq(Nat) /\ Len(one) = n
  OBVIOUS
<1>2. PICK f \in [0 .. n -> Seq(V)] : Picks(f, s, at) /\ f[n] = Subsequence(s, at)
  BY SubsequenceSteps, Zenon
<1>3. PICK g \in [0 .. n -> Seq(Nat)] : Picks(g, one, at) /\ g[n] = Subsequence(one, at)
  <2>. HIDE DEF one, n
  <2>1. \E g \in [0 .. Len(one) -> Seq(Nat)] : Picks(g, one, at) /\ g[Len(one)] = Subsequence(one, at)
    BY <1>1, SubsequenceSteps, Zenon
  <2>. QED  BY <1>1, <2>1, Zenon
<1>4. /\ f[0] = <<>> /\ g[0] = <<>>
      /\ \A i \in 1 .. n : /\ f[i] = IF i \in at THEN Append(f[i - 1], s[i]) ELSE f[i - 1]
                           /\ g[i] = IF i \in at THEN Append(g[i - 1], i) ELSE g[i - 1]
  BY <1>1, <1>2, <1>3 DEF Picks
<1>. HIDE DEF n, one
<1>. DEFINE Agree(i) ==
              /\ g[i] \in Seq(P) /\ Len(f[i]) = Len(g[i])
              /\ \A k \in 1 .. Len(g[i]) : f[i][k] = s[g[i][k]]
              /\ \A j \in at \cap (1 .. i) : \E k \in 1 .. Len(g[i]) : g[i][k] = j
            Done == {i \in 0 .. n : Agree(i)}
<1>5. 0 \in Done
  <2>1. 0 \in 0 .. n /\ 1 .. 0 = {}
    BY <1>1
  <2>2. g[0] \in Seq(P) /\ Len(f[0]) = 0 /\ Len(g[0]) = 0
    BY <1>4
  <2>. QED  BY <2>1, <2>2, Zenon
<1>6. ASSUME NEW i \in 0 .. n - 1, i \in Done PROVE i + 1 \in Done
  <2>1. PICK m \in 1 .. n : m = i + 1 /\ m - 1 = i
    BY <1>1
  <2>2. PICK fi \in Seq(V), gi \in Seq(Nat) : fi = f[i] /\ gi = g[i]
    <3>1. i \in 0 .. n
      BY <1>1
    <3>. QED  BY <3>1, Zenon
  <2>3. /\ gi \in Seq(P) /\ Len(fi) = Len(gi)
        /\ \A k \in 1 .. Len(gi) : fi[k] = s[gi[k]]
        /\ \A j \in at \cap (1 .. i) : \E k \in 1 .. Len(gi) : gi[k] = j
    BY <1>6, <2>2
  <2>4. /\ f[m] = IF m \in at THEN Append(fi, s[m]) ELSE fi
        /\ g[m] = IF m \in at THEN Append(gi, m) ELSE gi
    BY <1>4, <2>1, <2>2
  <2>5. s[m] \in V
    BY DEF n
  <2>6. CASE m \notin at
    <3>1. at \cap (1 .. m) = at \cap (1 .. i)
      BY <2>1, <2>6
    <3>. QED  BY <2>1, <2>3, <2>4, <2>6, <3>1
  <2>7. CASE m \in at
    <3>. DEFINE fm == Append(fi, s[m])
                gm == Append(gi, m)
    <3>1. f[m] = fm /\ g[m] = gm /\ m \in P
      BY <2>4, <2>7
    <3>2. gm \in Seq(P) /\ Len(fm) = Len(fi) + 1 /\ Len(gm) = Len(gi) + 1
      BY <2>3, <2>5, <3>1
    <3>3. /\ \A k \in 1 .. Len(gi) : gm[k] = gi[k] /\ fm[k] = fi[k]
          /\ gm[Len(gi) + 1] = m /\ fm[Len(gi) + 1] = s[m]
      BY <2>3, <2>5
    <3>4. \A k \in 1 .. Len(gm) : k \in 1 .. Len(gi) \/ k = Len(gi) + 1
      BY <3>2
    <3>. HIDE DEF fm, gm
    <3>5. \A k \in 1 .. Len(gm) : fm[k] = s[gm[k]]
      BY <2>3, <3>3, <3>4, Zenon
    <3>6. ASSUME NEW j \in at \cap (1 .. m) PROVE \E k \in 1 .. Len(gm) : gm[k] = j
      <4>1. CASE j = m
        <5>1. Len(gi) + 1 \in 1 .. Len(gm)
          BY <3>2
        <5>. QED  BY <3>3, <4>1, <5>1, Zenon
      <4>2. CASE j # m
        <5>1. j \in at \cap (1 .. i)
          BY <2>1, <4>2
        <5>2. PICK k \in 1 .. Len(gi) : gi[k] = j
          BY <2>3, <5>1
        <5>3. k \in 1 .. Len(gm)
          BY <3>2
        <5>. QED  BY <3>3, <5>2, <5>3, Zenon
      <4>. QED  BY <4>1, <4>2
    <3>7. Agree(m)
      BY <2>3, <3>1, <3>2, <3>5, <3>6
    <3>. QED  BY <2>1, <3>7
  <2>. QED  BY <2>6, <2>7
<1>7. Agree(n)
  <2>1. n \in Done
    <3>1. n \in 0 .. n
      BY <1>1
    <3>. HIDE DEF Done
    <3>. QED  BY <1>1, <1>5, <1>6, <3>1, InductionUpTo, Zenon
  <2>. QED  BY <2>1
<1>8. g[n] = Positions(n, at)
  BY <1>3 DEF Positions, one
<1>9. Subsequence(s, at) = [k \in 1 .. Len(g[n]) |-> s[g[n][k]]]
  <2>1. Subsequence(s, at) \in Seq(V)
    BY <1>1, <1>2
  <2>2. Len(Subsequence(s, at)) = Len(g[n])
    BY <1>2, <1>7
  <2>3. \A k \in 1 .. Len(g[n]) : Subsequence(s, at)[k] = s[g[n][k]]
    BY <1>2, <1>7
  <2>. QED  BY <2>1, <2>2, <2>3
<1>. QED  BY <1>7, <1>8, <1>9, Zenon DEF n, Selects

(* What an element appended adds to a subsequence. *)
Grows(s, e, at, more) ==
  /\ Len(s) + 1 \in more => Subsequence(Append(s, e), more) = Append(Subsequence(s, at), e)
  /\ Len(s) + 1 \notin more => Subsequence(Append(s, e), more) = Subsequence(s, at)

LEMMA SubsequenceAppend ==
  ASSUME NEW V, NEW s \in Seq(V), NEW e \in V, NEW at, NEW more,
         \A i \in 1 .. Len(s) : i \in more <=> i \in at
  PROVE  Grows(s, e, at, more)
<1>. DEFINE n == Len(s)
            t == Append(s, e)
<1>1. /\ n \in Nat /\ t \in Seq(V) /\ Len(t) = n + 1 /\ t[n + 1] = e
      /\ \A i \in 1 .. n : t[i] = s[i]
  OBVIOUS
<1>2. PICK f \in [0 .. n -> Seq(V)] : Picks(f, s, at) /\ f[n] = Subsequence(s, at)
  BY SubsequenceSteps, Zenon
<1>. HIDE DEF t
<1>3. PICK g \in [0 .. n + 1 -> Seq(V)] : Picks(g, t, more) /\ g[n + 1] = Subsequence(t, more)
  <2>1. \E g \in [0 .. Len(t) -> Seq(V)] : Picks(g, t, more) /\ g[Len(t)] = Subsequence(t, more)
    BY <1>1, SubsequenceSteps, Zenon
  <2>. QED  BY <1>1, <2>1, Zenon
<1>4. /\ f[0] = <<>> /\ g[0] = <<>>
      /\ \A i \in 1 .. n : f[i] = IF i \in at THEN Append(f[i - 1], s[i]) ELSE f[i - 1]
      /\ \A i \in 1 .. n + 1 : g[i] = IF i \in more THEN Append(g[i - 1], t[i]) ELSE g[i - 1]
  BY <1>1, <1>2, <1>3 DEF Picks
<1>. DEFINE Same == {i \in 0 .. n : f[i] = g[i]}
<1>5. 0 \in Same
  BY <1>1, <1>4
<1>6. ASSUME NEW i \in 0 .. n - 1, i \in Same PROVE i + 1 \in Same
  <2>1. PICK m \in 1 .. n : m = i + 1 /\ m - 1 = i /\ m \in 1 .. n + 1 /\ m \in 0 .. n
    BY <1>1
  <2>2. f[m] = IF m \in at THEN Append(f[i], s[m]) ELSE f[i]
    BY <1>4, <2>1
  <2>3. g[m] = IF m \in more THEN Append(g[i], t[m]) ELSE g[i]
    BY <1>4, <2>1
  <2>. QED  BY <1>1, <1>6, <2>1, <2>2, <2>3
<1>7. f[n] = g[n]
  <2>1. n \in 0 .. n
    BY <1>1
  <2>. HIDE DEF Same, n
  <2>2. n \in Same
    BY <1>1, <1>5, <1>6, <2>1, InductionUpTo, Zenon
  <2>. QED  BY <2>2 DEF Same
<1>8. g[n + 1] = IF n + 1 \in more THEN Append(g[n], e) ELSE g[n]
  <2>1. n + 1 \in 1 .. n + 1 /\ (n + 1) - 1 = n
    BY <1>1
  <2>. QED  BY <1>1, <1>4, <2>1
<1>. QED  BY <1>2, <1>3, <1>7, <1>8, Zenon DEF n, t, Grows

(* What is picked up to a position is a prefix of what is picked in all. *)
LEMMA PicksPrefix ==
  ASSUME NEW V, NEW s \in Seq(V), NEW at, NEW f \in [0 .. Len(s) -> Seq(V)], Picks(f, s, at),
         NEW k \in 0 .. Len(s)
  PROVE  /\ Len(f[k]) <= Len(f[Len(s)])
         /\ \A j \in 1 .. Len(f[k]) : f[k][j] = f[Len(s)][j]
<1>. DEFINE n == Len(s)
            Grown == {i \in 0 .. n : k <= i => /\ Len(f[k]) <= Len(f[i])
                                               /\ \A j \in 1 .. Len(f[k]) : f[k][j] = f[i][j]}
<1>1. n \in Nat
  OBVIOUS
<1>2. 0 \in Grown
  <2>1. k <= 0 => k = 0
    OBVIOUS
  <2>2. f[k] \in Seq(V)
    OBVIOUS
  <2>. QED  BY <1>1, <2>1, <2>2
<1>3. ASSUME NEW i \in 0 .. n - 1, i \in Grown PROVE i + 1 \in Grown
  <2>1. PICK m \in 1 .. n : m = i + 1 /\ m - 1 = i /\ m \in 0 .. n
    BY <1>1
  <2>2. PICK fi \in Seq(V), fk \in Seq(V) : fi = f[i] /\ fk = f[k]
    <3>1. i \in 0 .. n
      BY <1>1
    <3>. QED  BY <3>1, Zenon
  <2>3. f[m] = IF m \in at THEN Append(fi, s[m]) ELSE fi
    BY <2>1, <2>2 DEF Picks
  <2>4. s[m] \in V
    OBVIOUS
  <2>5. CASE k <= i
    <3>1. Len(fk) <= Len(fi) /\ \A j \in 1 .. Len(fk) : fk[j] = fi[j]
      BY <1>3, <2>2, <2>5
    <3>2. Len(fk) <= Len(f[m]) /\ \A j \in 1 .. Len(fk) : fk[j] = f[m][j]
      BY <2>2, <2>3, <2>4, <3>1
    <3>. QED  BY <2>1, <2>2, <3>2
  <2>6. CASE ~(k <= i)
    <3>1. k <= m => k = m
      BY <2>1, <2>6
    <3>. QED  BY <2>1, <2>2, <3>1
  <2>. QED  BY <2>5, <2>6
<1>4. n \in Grown
  <2>1. n \in 0 .. n
    BY <1>1
  <2>. HIDE DEF Grown, n
  <2>. QED  BY <1>1, <1>2, <1>3, <2>1, InductionUpTo, Zenon
<1>. QED  BY <1>1, <1>4
-----------------------------------------------------------------------------
(* Framing. *)

LEMMA FunctionIsSeq ==
  ASSUME NEW V, NEW n \in Nat, NEW f \in [1 .. n -> V]
  PROVE  f \in Seq(V) /\ Len(f) = n
OBVIOUS

(* Concatenation, by a name that can be left unexpanded. *)
Cat(s, t) == s \o t

LEMMA CatFacts ==
  ASSUME NEW V
  PROVE  /\ \A s, t \in Seq(V) : Cat(s, t) \in Seq(V) /\ Len(Cat(s, t)) = Len(s) + Len(t)
         /\ \A s, t, u \in Seq(V) : Cat(Cat(s, t), u) = Cat(s, Cat(t, u))
         /\ \A s, t, u \in Seq(V) : Cat(s, t) = Cat(s, u) => t = u
         /\ \A s \in Seq(V) : Cat(s, <<>>) = s
         /\ \A s, t \in Seq(V) : Cat(s, t) = <<>> => s = <<>> /\ t = <<>>
         /\ \A s, t \in Seq(V) : \A i \in 1 .. Len(s) : Cat(s, t)[i] = s[i]
<1>1. \A s, t \in Seq(V) : Cat(s, t) \in Seq(V) /\ Len(Cat(s, t)) = Len(s) + Len(t)
  BY DEF Cat
<1>2. \A s, t, u \in Seq(V) : Cat(Cat(s, t), u) = Cat(s, Cat(t, u))
  BY DEF Cat
<1>3. \A s, t, u \in Seq(V) : Cat(s, t) = Cat(s, u) => t = u
  BY ConcatSimplifications, Zenon DEF Cat
<1>4. \A s \in Seq(V) : Cat(s, <<>>) = s
  BY DEF Cat
<1>5. \A s, t \in Seq(V) : Cat(s, t) = <<>> => s = <<>> /\ t = <<>>
  BY DEF Cat
<1>6. \A s, t \in Seq(V) : \A i \in 1 .. Len(s) : Cat(s, t)[i] = s[i]
  BY DEF Cat
<1>. QED  BY <1>1, <1>2, <1>3, <1>4, <1>5, <1>6, Zenon

(* The two parts of a concatenation. *)
Splits(s, t) ==
  /\ \A n \in 1 .. Len(s) : SubSeq(Cat(s, t), 1, n) = SubSeq(s, 1, n)
  /\ SubSeq(Cat(s, t), 1, Len(s)) = s
  /\ SubSeq(Cat(s, t), Len(s) + 1, Len(Cat(s, t))) = t

LEMMA CatSplits ==
  ASSUME NEW V, NEW s \in Seq(V), NEW t \in Seq(V)
  PROVE  Splits(s, t)
BY DEF Cat, Splits

(* Any sequence is the concatenation of its parts. *)
LEMMA CatSubSeqs ==
  ASSUME NEW V, NEW s \in Seq(V), NEW n \in 0 .. Len(s)
  PROVE  /\ SubSeq(s, 1, n) \in Seq(V) /\ SubSeq(s, n + 1, Len(s)) \in Seq(V)
         /\ Len(SubSeq(s, 1, n)) = n /\ \A i \in 1 .. n : SubSeq(s, 1, n)[i] = s[i]
         /\ Cat(SubSeq(s, 1, n), SubSeq(s, n + 1, Len(s))) = s
<1>1. Len(s) \in Nat /\ \A i \in 1 .. Len(s) : s[i] \in V
  OBVIOUS
<1>2. /\ SubSeq(s, 1, n) \in Seq(V) /\ SubSeq(s, n + 1, Len(s)) \in Seq(V)
      /\ Len(SubSeq(s, 1, n)) = n /\ \A i \in 1 .. n : SubSeq(s, 1, n)[i] = s[i]
  BY <1>1, SubSeqProperties
<1>3. 1 \in 1 .. Len(s) + 1 /\ n \in (1 - 1) .. Len(s) /\ Len(s) \in n .. Len(s)
  BY <1>1
<1>4. SubSeq(s, 1, n) \o SubSeq(s, n + 1, Len(s)) = SubSeq(s, 1, Len(s))
  BY <1>3, ConcatAdjacentSubSeq, Zenon
<1>5. SubSeq(s, 1, Len(s)) = s
  BY SubSeqFull, Zenon
<1>. QED  BY <1>2, <1>4, <1>5, Zenon DEF Cat

(* The longer of two beginnings of a sequence begins with the shorter one. *)
LEMMA Split ==
  ASSUME NEW V, NEW a \in Seq(V), NEW b \in Seq(V), NEW c \in Seq(V), NEW d \in Seq(V),
         Cat(a, b) = Cat(c, d), Len(c) <= Len(a)
  PROVE  \E x \in Seq(V) : a = Cat(c, x) /\ Cat(x, b) = d
<1>1. Len(a) \in Nat /\ Len(c) \in Nat
  BY LenProperties, Zenon
<1>2. Len(c) \in 0 .. Len(a)
  BY <1>1
<1>3. PICK x \in Seq(V), y \in Seq(V) : /\ a = Cat(y, x) /\ Len(y) = Len(c)
                                       /\ \A i \in 1 .. Len(c) : y[i] = a[i]
  <2>. DEFINE y == SubSeq(a, 1, Len(c))
              x == SubSeq(a, Len(c) + 1, Len(a))
  <2>1. /\ x \in Seq(V) /\ y \in Seq(V) /\ Cat(y, x) = a /\ Len(y) = Len(c)
        /\ \A i \in 1 .. Len(c) : y[i] = a[i]
    BY <1>2, CatSubSeqs, Zenon
  <2>. QED  BY <2>1, Zenon
<1>4. y = c
  <2>1. \A i \in 1 .. Len(c) : i \in 1 .. Len(a)
    BY <1>1
  <2>2. ASSUME NEW i \in 1 .. Len(c) PROVE y[i] = c[i]
    <3>1. \A s, t \in Seq(V) : \A k \in 1 .. Len(s) : Cat(s, t)[k] = s[k]
      BY CatFacts, Zenon
    <3>2. Cat(a, b)[i] = a[i]
      BY <2>1, <3>1, Zenon
    <3>3. Cat(c, d)[i] = c[i]
      BY <3>1, Zenon
    <3>. QED  BY <1>3, <3>2, <3>3, Zenon
  <2>. QED  BY <1>3, <2>2, SeqEqual, Zenon
<1>5. Cat(c, Cat(x, b)) = Cat(c, d) /\ Cat(x, b) \in Seq(V)
  BY <1>3, <1>4, CatFacts
<1>. QED  BY <1>3, <1>4, <1>5, CatFacts

(***************************************************************************)
(* Where a buffer is cut: after the shortest of its beginnings in Ends, 0  *)
(* if none is.                                                             *)
(***************************************************************************)
EndsIn(buf, Ends) == {n \in 1 .. Len(buf) : SubSeq(buf, 1, n) \in Ends}

LeastOf(S) == IF S = {} THEN 0 ELSE CHOOSE n \in S : \A m \in S : n <= m

FirstEnd(buf, Ends) == LeastOf(EndsIn(buf, Ends))

LEMMA FirstEndIs ==
  ASSUME NEW V, NEW buf \in Seq(V), NEW Ends
  PROVE  /\ FirstEnd(buf, Ends) \in 0 .. Len(buf)
         /\ FirstEnd(buf, Ends) # 0 => FirstEnd(buf, Ends) \in EndsIn(buf, Ends)
         /\ \A n \in EndsIn(buf, Ends) : FirstEnd(buf, Ends) # 0 /\ FirstEnd(buf, Ends) <= n
<1>. DEFINE S == EndsIn(buf, Ends)
<1>1. S \subseteq 1 .. Len(buf) /\ Len(buf) \in Nat /\ S \subseteq Nat
  BY DEF EndsIn
<1>. HIDE DEF S
<1>2. CASE S = {}
  <2>1. FirstEnd(buf, Ends) = 0
    BY <1>2, Zenon DEF S, FirstEnd, LeastOf
  <2>. QED  BY <1>1, <1>2, <2>1 DEF S
<1>3. CASE S # {}
  <2>1. \E n \in S : \A m \in S : n <= m
    BY <1>1, <1>3, LeastNatural, Zenon
  <2>2. FirstEnd(buf, Ends) = CHOOSE n \in S : \A m \in S : n <= m
    BY <1>3, Zenon DEF S, FirstEnd, LeastOf
  <2>3. PICK n \in S : n = FirstEnd(buf, Ends) /\ \A m \in S : n <= m
    BY <2>1, <2>2, Zenon
  <2>. QED  BY <1>1, <2>3 DEF S
<1>. QED  BY <1>2, <1>3, Zenon

(* What follows a beginning does not matter for it. *)
LEMMA EndsInConcat ==
  ASSUME NEW V, NEW a \in Seq(V), NEW b \in Seq(V), NEW Ends, NEW n \in 1 .. Len(a)
  PROVE  n \in EndsIn(Cat(a, b), Ends) <=> n \in EndsIn(a, Ends)
<1>1. 1 \in 1 .. Len(a) /\ n \in 1 .. Len(Cat(a, b))
  <2>1. Len(Cat(a, b)) = Len(a) + Len(b)
    BY CatFacts
  <2>. QED  BY <2>1, LenProperties
<1>2. SubSeq(Cat(a, b), 1, n) = SubSeq(a, 1, n)
  <2>1. Splits(a, b)
    BY CatSplits, Zenon
  <2>. QED  BY <2>1, Zenon DEF Splits
<1>. QED  BY <1>1, <1>2, Zenon DEF EndsIn

(* A message that ends where its bytes do, ends there whatever follows. *)
LEMMA WholeMessage ==
  ASSUME NEW V, NEW a \in Seq(V), NEW b \in Seq(V), NEW Ends,
         a # <<>>, FirstEnd(a, Ends) = Len(a)
  PROVE  FirstEnd(Cat(a, b), Ends) = Len(a)
<1>. DEFINE n == Len(a)
            e == FirstEnd(Cat(a, b), Ends)
<1>1. n \in 1 .. n
  BY EmptySeq
<1>2. Cat(a, b) \in Seq(V)
  BY CatFacts
<1>3. n \in EndsIn(a, Ends) /\ \A m \in EndsIn(a, Ends) : n <= m
  BY <1>1, FirstEndIs
<1>4. n \in EndsIn(Cat(a, b), Ends)
  BY <1>1, <1>3, EndsInConcat, Zenon
<1>5. e # 0 /\ e <= n /\ e \in EndsIn(Cat(a, b), Ends) /\ e \in 0 .. Len(Cat(a, b))
  BY <1>2, <1>4, FirstEndIs, Zenon
<1>. HIDE DEF e
<1>6. e \in 1 .. n
  BY <1>1, <1>5
<1>7. e \in EndsIn(a, Ends)
  BY <1>5, <1>6, EndsInConcat, Zenon
<1>8. n <= e
  BY <1>3, <1>7, Zenon
<1>. QED  BY <1>1, <1>6, <1>8 DEF e

(* A part of a message does not end, if the whole does not or ends with its last byte. *)
LEMMA PartialMessage ==
  ASSUME NEW V, NEW a \in Seq(V), NEW b \in Seq(V), NEW Ends, b # <<>>,
         FirstEnd(Cat(a, b), Ends) \in {0, Len(Cat(a, b))}
  PROVE  FirstEnd(a, Ends) = 0
<1>. DEFINE e == FirstEnd(a, Ends)
<1>1. SUFFICES ASSUME e # 0 PROVE FALSE
  BY Zenon
<1>2. e \in EndsIn(a, Ends) /\ e \in 0 .. Len(a)
  BY <1>1, FirstEndIs, Zenon
<1>. HIDE DEF e
<1>3. e \in 1 .. Len(a)
  BY <1>2 DEF EndsIn
<1>4. e \in EndsIn(Cat(a, b), Ends)
  BY <1>2, <1>3, EndsInConcat, Zenon
<1>5. Cat(a, b) \in Seq(V) /\ Len(Cat(a, b)) = Len(a) + Len(b)
  BY CatFacts
<1>6. FirstEnd(Cat(a, b), Ends) # 0 /\ FirstEnd(Cat(a, b), Ends) <= e
  BY <1>4, <1>5, FirstEndIs, Zenon
<1>7. Len(b) \in Nat \ {0} /\ Len(a) \in Nat
  BY EmptySeq, LenProperties, Zenon
<1>. QED  BY <1>3, <1>5, <1>6, <1>7

(***************************************************************************)
(* When something ends in a buffer that begins with a message or begins    *)
(* it, the message does.                                                   *)
(***************************************************************************)
LEMMA FirstMessage ==
  ASSUME NEW V, NEW e \in Seq(V), NEW rest \in Seq(V), NEW Ends, e # <<>>,
         FirstEnd(e, Ends) = Len(e) \/ (rest = <<>> /\ FirstEnd(e, Ends) = 0),
         NEW buf \in Seq(V), NEW wire \in Seq(V), Cat(buf, wire) = Cat(e, rest),
         FirstEnd(buf, Ends) # 0
  PROVE  FirstEnd(buf, Ends) = Len(e) /\ \E x \in Seq(V) : buf = Cat(e, x) /\ Cat(x, wire) = rest
<1>1. Len(e) \in Nat /\ Len(buf) \in Nat
  BY LenProperties, Zenon
<1>2. ~(Len(buf) < Len(e))
  <2>1. SUFFICES ASSUME Len(buf) < Len(e) PROVE FALSE
    BY Zenon
  <2>2. Len(buf) <= Len(e)
    BY <1>1, <2>1
  <2>3. PICK x \in Seq(V) : e = Cat(buf, x)
    BY <2>2, Split
  <2>4. x # <<>>
    BY <1>1, <2>1, <2>3, CatFacts
  <2>5. FirstEnd(Cat(buf, x), Ends) \in {0, Len(Cat(buf, x))}
    BY <2>3, Zenon
  <2>. QED  BY <2>4, <2>5, PartialMessage, Zenon
<1>3. PICK x \in Seq(V) : buf = Cat(e, x) /\ Cat(x, wire) = rest
  <2>1. Len(e) <= Len(buf)
    BY <1>1, <1>2
  <2>. QED  BY <2>1, Split
<1>4. FirstEnd(e, Ends) = Len(e)
  <2>1. SUFFICES ASSUME rest = <<>>, FirstEnd(e, Ends) = 0 PROVE FALSE
    BY Zenon
  <2>2. x = <<>>
    BY <1>3, <2>1, CatFacts
  <2>3. buf = e
    BY <1>3, <2>2, CatFacts
  <2>. QED  BY <2>1, <2>3, Zenon
<1>5. FirstEnd(buf, Ends) = Len(e)
  BY <1>3, <1>4, WholeMessage, Zenon
<1>. QED  BY <1>3, <1>5, Zenon

(* What JoinLast computes. *)
LEMMA JoinLastSteps ==
  ASSUME NEW V, NEW E \in Seq(Seq(V))
  PROVE  /\ JoinLast(E) \in [0 .. Len(E) -> Seq(V)] /\ JoinLast(E)[0] = <<>>
         /\ \A i \in 1 .. Len(E) : JoinLast(E)[i] = Cat(E[Len(E) + 1 - i], JoinLast(E)[i - 1])
<1>. DEFINE Join(g) == [i \in 0 .. Len(E) |->
                          IF i = 0 THEN <<>> ELSE E[Len(E) + 1 - i] \o g[i - 1]]
            last == CHOOSE g : g = Join(g)
<1>1. JoinLast(E) = last
  BY Zenon DEF JoinLast
<1>2. PICK n \in Nat : n = Len(E)
  BY LenProperties, Zenon
<1>3. \A i \in 1 .. n : n + 1 - i \in 1 .. n /\ i - 1 \in 0 .. n
  BY <1>2
<1>4. \A i \in 1 .. n : E[n + 1 - i] \in Seq(V)
  BY <1>2, <1>3, ElementOfSeq, Zenon
<1>. DEFINE step == [i \in 1 .. n |-> [v \in Seq(V) |-> E[n + 1 - i] \o v]]
<1>5. <<>> \in Seq(V) /\ step \in [1 .. n -> [Seq(V) -> Seq(V)]]
  <2>1. \A i \in 1 .. n : \A v \in Seq(V) : E[n + 1 - i] \o v \in Seq(V)
    BY <1>4, CatFacts, Zenon DEF Cat
  <2>2. \A i \in 1 .. n : [v \in Seq(V) |-> E[n + 1 - i] \o v] \in [Seq(V) -> Seq(V)]
    BY <2>1, Zenon
  <2>. QED  BY <2>2, EmptySeq, Zenon
<1>6. \A i \in 1 .. n : \A v \in Seq(V) : step[i][v] = E[n + 1 - i] \o v
  BY Zenon
<1>. HIDE DEF step
<1>7. PICK f \in [0 .. n -> Seq(V)] : Follows(f, <<>>, step, n)
  BY <1>5, Recursion, Zenon
<1>8. f[0] = <<>> /\ \A i \in 1 .. n : f[i] = E[n + 1 - i] \o f[i - 1]
  BY <1>3, <1>6, <1>7, Zenon DEF Follows
<1>9. f = Join(f)
  <2>1. \A i \in 0 .. n : i = 0 \/ (i \in 1 .. n /\ i # 0)
    BY <1>2
  <2>2. \A i \in 0 .. n : f[i] = IF i = 0 THEN <<>> ELSE E[n + 1 - i] \o f[i - 1]
    BY <1>8, <2>1, Zenon
  <2>3. Join(f) = [i \in 0 .. n |-> IF i = 0 THEN <<>> ELSE E[n + 1 - i] \o f[i - 1]]
    BY <1>2, Zenon
  <2>. QED  BY <2>2, <2>3, Zenon
<1>10. last = Join(last)
  <2>. HIDE DEF Join
  <2>. QED  BY <1>9, Zenon
<1>11. \A i \in 0 .. n : last[i] = f[i]
  <2>. DEFINE Same == {i \in 0 .. n : last[i] = f[i]}
  <2>0. /\ \A i \in 0 .. n : last[i] = IF i = 0 THEN <<>> ELSE E[n + 1 - i] \o last[i - 1]
    <3>. HIDE DEF last
    <3>. QED  BY <1>2, <1>10, Zenon
  <2>. HIDE DEF last
  <2>1. 0 \in Same
    <3>1. 0 \in 0 .. n
      BY <1>2
    <3>. QED  BY <1>8, <2>0, <3>1, Zenon
  <2>2. ASSUME NEW i \in 0 .. n - 1, i \in Same PROVE i + 1 \in Same
    <3>1. last[i] = f[i] /\ i + 1 \in 1 .. n /\ (i + 1) - 1 = i /\ i + 1 \in 0 .. n /\ i + 1 # 0
      BY <1>2, <2>2
    <3>2. last[i + 1] = E[n + 1 - (i + 1)] \o last[i]
      BY <2>0, <3>1, Zenon
    <3>3. f[i + 1] = E[n + 1 - (i + 1)] \o f[i]
      BY <1>8, <3>1, Zenon
    <3>. QED  BY <3>1, <3>2, <3>3, Zenon
  <2>. HIDE DEF Same
  <2>3. \A i \in 0 .. n : i \in Same
    BY <2>1, <2>2, InductionUpTo, Zenon
  <2>. QED  BY <2>3, Zenon DEF Same
<1>12. last = f
  <2>1. last = [i \in 0 .. n |-> last[i]]
    <3>1. Join(last) = [i \in 0 .. n |-> IF i = 0 THEN <<>> ELSE E[n + 1 - i] \o last[i - 1]]
      <4>. HIDE DEF last
      <4>. QED  BY <1>2, Zenon
    <3>. HIDE DEF last, Join
    <3>. QED  BY <1>10, <3>1, Zenon
  <2>. HIDE DEF last
  <2>. QED  BY <1>11, <2>1, Zenon
<1>. QED  BY <1>1, <1>2, <1>8, <1>12, Zenon DEF Cat

(***************************************************************************)
(* A client sends the parts E, of which each ends where its bytes do; only *)
(* the last one may have no end.  L has the bytes of its last parts.       *)
(***************************************************************************)
Parts(E, L, Ends, V) ==
  /\ E \in Seq(Seq(V)) /\ L \in [0 .. Len(E) -> Seq(V)]
  /\ L[0] = <<>>
  /\ \A i \in 1 .. Len(E) : L[i] = Cat(E[Len(E) + 1 - i], L[i - 1])
  /\ \A i \in 1 .. Len(E) :
       /\ E[i] # <<>>
       /\ FirstEnd(E[i], Ends) = Len(E[i]) \/ (i = Len(E) /\ FirstEnd(E[i], Ends) = 0)

(***************************************************************************)
(* With k parts taken and some bytes of the others read into buf, either   *)
(* nothing ends in buf or exactly the next part does.                      *)
(***************************************************************************)
NextIs(buf, wire, E, L, k, end, V) ==
  /\ k < Len(E) /\ E[k + 1] \in Seq(V) /\ end = Len(E[k + 1])
  /\ \E x \in Seq(V) : buf = Cat(E[k + 1], x) /\ Cat(x, wire) = L[Len(E) - (k + 1)]

LEMMA NextPart ==
  ASSUME NEW V, NEW E, NEW L, NEW Ends, Parts(E, L, Ends, V),
         NEW buf \in Seq(V), NEW wire \in Seq(V), NEW k \in 0 .. Len(E), Cat(buf, wire) = L[Len(E) - k],
         FirstEnd(buf, Ends) # 0
  PROVE  NextIs(buf, wire, E, L, k, FirstEnd(buf, Ends), V)
<1>1. PICK N \in Nat : N = Len(E) /\ E \in Seq(Seq(V)) /\ L \in [0 .. N -> Seq(V)]
  BY LenProperties, Zenon DEF Parts
<1>2. k \in 0 .. N /\ Cat(buf, wire) = L[N - k]
  BY <1>1, Zenon
<1>3. k < N
  <2>1. SUFFICES ASSUME k = N PROVE FALSE
    BY <1>2
  <2>2. N - k = 0
    BY <2>1
  <2>3. Cat(buf, wire) = <<>>
    BY <1>2, <2>2, Zenon DEF Parts
  <2>4. buf = <<>>
    BY <2>3, CatFacts
  <2>5. Len(buf) = 0 /\ FirstEnd(buf, Ends) \in 0 .. Len(buf)
    BY <2>4, FirstEndIs, Zenon
  <2>. QED  BY <2>5
<1>4. PICK j \in 1 .. N : j = N - k
  BY <1>2, <1>3
<1>5. j - 1 = N - (k + 1) /\ N + 1 - j = k + 1 /\ j - 1 \in 0 .. N /\ k + 1 \in 1 .. N
  BY <1>2, <1>3, <1>4
<1>6. PICK e \in Seq(V), rest \in Seq(V) : e = E[k + 1] /\ rest = L[j - 1]
  <2>1. E[k + 1] \in Seq(V)
    BY <1>1, <1>5, ElementOfSeq, Zenon
  <2>. QED  BY <1>1, <1>5, <2>1, Zenon
<1>7. Cat(buf, wire) = Cat(e, rest)
  BY <1>1, <1>2, <1>4, <1>5, <1>6, Zenon DEF Parts
<1>8. e # <<>> /\ (FirstEnd(e, Ends) = Len(e) \/ (k + 1 = N /\ FirstEnd(e, Ends) = 0))
  BY <1>1, <1>5, <1>6, Zenon DEF Parts
<1>9. k + 1 = N => rest = <<>>
  <2>1. k + 1 = N => j - 1 = 0
    BY <1>2, <1>4
  <2>. QED  BY <1>6, <2>1, Zenon DEF Parts
<1>10. FirstEnd(buf, Ends) = Len(e) /\ \E x \in Seq(V) : buf = Cat(e, x) /\ Cat(x, wire) = rest
  BY <1>7, <1>8, <1>9, FirstMessage
<1>. QED  BY <1>1, <1>3, <1>5, <1>6, <1>10, Zenon DEF NextIs

(* With all bytes taken, all parts are. *)
LEMMA AllParts ==
  ASSUME NEW V, NEW E, NEW L, NEW Ends, Parts(E, L, Ends, V),
         NEW k \in 0 .. Len(E), L[Len(E) - k] = <<>>
  PROVE  k = Len(E)
<1>1. PICK N \in Nat : N = Len(E) /\ E \in Seq(Seq(V)) /\ L \in [0 .. N -> Seq(V)]
  BY LenProperties, Zenon DEF Parts
<1>2. k \in 0 .. N /\ L[N - k] = <<>>
  BY <1>1, Zenon
<1>3. SUFFICES ASSUME k < N PROVE FALSE
  <2>1. k < N \/ k = N
    BY <1>2
  <2>. QED  BY <1>1, <2>1, Zenon
<1>4. PICK j \in 1 .. N : j = N - k
  BY <1>2, <1>3
<1>5. N + 1 - j = k + 1 /\ j - 1 \in 0 .. N /\ k + 1 \in 1 .. N
  BY <1>2, <1>3, <1>4
<1>6. L[j] = Cat(E[k + 1], L[j - 1]) /\ E[k + 1] # <<>> /\ L[j - 1] \in Seq(V)
  BY <1>1, <1>4, <1>5, Zenon DEF Parts
<1>7. E[k + 1] \in Seq(V)
  BY <1>1, <1>5, ElementOfSeq, Zenon
<1>8. Cat(E[k + 1], L[j - 1]) = <<>>
  BY <1>2, <1>4, <1>6, Zenon
<1>. QED  BY <1>6, <1>7, <1>8, CatFacts, Zenon
=============================================================================

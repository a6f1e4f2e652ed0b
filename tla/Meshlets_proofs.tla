-------------------------- MODULE Meshlets_proofs --------------------------
(***************************************************************************)
(* Proofs about the meshlets of a mesh, for every mesh, every order the    *)
(* library may take its triangles in, and any limits: the triangles the    *)
(* shader emits are those of the mesh, and it reads inside the arrays.     *)
(***************************************************************************)
EXTENDS Meshlets, SequenceTheorems, FiniteSetTheorems, WellFoundedInduction, TLAPS

(* Counting up                                                             *)

(* A set of numbers that is not empty has a least element. *)
LEMMA LeastNumber ==
  ASSUME NEW T \in SUBSET Nat, T # {}
  PROVE  \E x \in T : \A y \in T : x <= y
<1> DEFINE U == {0 .. x : x \in T}
<1>1. U \subseteq FiniteSubsetsOf(Nat)
  <2>1. \A x \in T : IsFiniteSet(0 .. x)
    BY FS_Interval
  <2> QED BY <2>1 DEF FiniteSubsetsOf
<1>2. U # {}
  OBVIOUS
<1>3. PICK u \in U : \A v \in U : <<v, u>> \notin StrictSubsetOrdering(Nat)
  <2> HIDE DEF U
  <2> QED BY <1>1, <1>2, FS_StrictSubsetOrderingWellFounded, WFMin
<1>4. PICK x \in T : u = 0 .. x
  OBVIOUS
<1>5. ASSUME NEW y \in T, y < x
      PROVE  FALSE
  <2>1. 0 .. y \in U /\ 0 .. y \subseteq 0 .. x /\ x \notin 0 .. y /\ x \in 0 .. x
    BY <1>5
  <2>2. <<0 .. y, 0 .. x>> \notin StrictSubsetOrdering(Nat)
    BY <1>3, <1>4, <2>1
  <2> QED BY <2>1, <2>2 DEF StrictSubsetOrdering
<1> QED BY <1>5

(* A set that begins at 0 and goes on from each number below m holds them all. *)
LEMMA CountUp ==
  ASSUME NEW m \in Nat, NEW A, 0 \in A, \A n \in 0 .. m - 1 : n \in A => n + 1 \in A
  PROVE  0 .. m \subseteq A
<1> DEFINE T == {n \in 0 .. m : n \notin A}
<1>1. SUFFICES ASSUME T # {} PROVE FALSE
  OBVIOUS
<1>2. PICK x \in T : \A y \in T : x <= y
  <2>1. T \in SUBSET Nat
    OBVIOUS
  <2> HIDE DEF T
  <2> QED BY <1>1, <2>1, LeastNumber
<1>3. x # 0 /\ x - 1 \in 0 .. m - 1 /\ x - 1 \notin T
  BY <1>2
<1> QED BY <1>3
----------------------------------------------------------------------------
(* Sequences of sequences, one after the other                             *)

(* The turns of FlattenSeq's loop over the first n sequences. *)
Turns(f, seqs, n) ==
  /\ f = [i \in 1 .. n |-> f[i]]
  /\ \A i \in 1 .. n : f[i] = IF i = 1 THEN seqs[i] ELSE f[i - 1] \o seqs[i]

LEMMA TurnsExist ==
  ASSUME NEW seqs, NEW n \in Nat
  PROVE  \E f : Turns(f, seqs, n)
<1> DEFINE A == {k \in Nat : \E f : Turns(f, seqs, k)}
<1>1. 0 \in A
  <2>1. PICK f : f = [i \in 1 .. 0 |-> 0]
    OBVIOUS
  <2>2. Turns(f, seqs, 0)
    BY <2>1 DEF Turns
  <2> QED BY <2>2
<1>2. ASSUME NEW k \in 0 .. n - 1, k \in A PROVE k + 1 \in A
  <2>1. PICK f : Turns(f, seqs, k)
    BY <1>2
  <2>2. PICK g : g = [i \in 1 .. k + 1 |->
                        IF i <= k THEN f[i] ELSE IF i = 1 THEN seqs[i] ELSE f[i - 1] \o seqs[i]]
    OBVIOUS
  <2>3. \A i \in 1 .. k : g[i] = f[i]
    BY <2>2
  <2>4. g[k + 1] = IF k + 1 = 1 THEN seqs[k + 1] ELSE f[k] \o seqs[k + 1]
    BY <2>2
  <2>5. g = [i \in 1 .. k + 1 |-> g[i]]
    BY <2>2
  <2>6. ASSUME NEW i \in 1 .. k + 1
        PROVE  g[i] = IF i = 1 THEN seqs[i] ELSE g[i - 1] \o seqs[i]
    <3>1. CASE i <= k
      <4>0. i \in 1 .. k
        BY <3>1
      <4>1. f[i] = IF i = 1 THEN seqs[i] ELSE f[i - 1] \o seqs[i]
        BY <2>1, <4>0 DEF Turns
      <4>2. i # 1 => g[i - 1] = f[i - 1]
        BY <2>3, <3>1
      <4> QED BY <2>3, <3>1, <4>1, <4>2
    <3>2. CASE i = k + 1
      <4>1. k # 0 => g[k] = f[k]
        BY <2>3
      <4> QED BY <2>4, <3>2, <4>1
    <3> QED BY <3>1, <3>2
  <2>7. Turns(g, seqs, k + 1)
    BY <2>5, <2>6 DEF Turns
  <2> QED BY <2>7
<1>3. 0 .. n \subseteq A
  <2> HIDE DEF A
  <2> QED BY <1>1, <1>2, CountUp
<1> QED BY <1>3

SameUpTo(r, s, n) == \A i \in 1 .. n : r[i] = s[i]

(* They can be made in one way. *)
LEMMA TurnsAgree ==
  ASSUME NEW r, NEW s, NEW n \in Nat, NEW f, NEW g, Turns(f, r, n), Turns(g, s, n + 1),
         SameUpTo(r, s, n)
  PROVE  \A i \in 1 .. n : f[i] = g[i]
<1> DEFINE A == {i \in 0 .. n : i > 0 => f[i] = g[i]}
<1>1. 0 \in A
  OBVIOUS
<1>2. ASSUME NEW k \in 0 .. n - 1, k \in A PROVE k + 1 \in A
  <2>0. k + 1 \in 1 .. n /\ k + 1 \in 1 .. n + 1 /\ (k + 1) - 1 = k
    OBVIOUS
  <2>1. f[k + 1] = IF k + 1 = 1 THEN r[k + 1] ELSE f[k] \o r[k + 1]
    BY <2>0 DEF Turns
  <2>2. g[k + 1] = IF k + 1 = 1 THEN s[k + 1] ELSE g[k] \o s[k + 1]
    BY <2>0 DEF Turns
  <2>3. r[k + 1] = s[k + 1] /\ (k > 0 => f[k] = g[k])
    BY <1>2, <2>0 DEF SameUpTo
  <2>4. f[k + 1] = g[k + 1]
    BY <2>1, <2>2, <2>3
  <2> QED BY <2>4
<1>3. 0 .. n \subseteq A
  <2> HIDE DEF A
  <2> QED BY <1>1, <1>2, CountUp
<1> QED BY <1>3

LEMMA FlattenTurns ==
  ASSUME NEW seqs, Len(seqs) \in Nat \ {0}
  PROVE  \E f : Turns(f, seqs, Len(seqs)) /\ FlattenSeq(seqs) = f[Len(seqs)]
<1> DEFINE n == Len(seqs)
           flatten == CHOOSE f : f = [i \in 1 .. n |-> IF i = 1 THEN seqs[i] ELSE f[i - 1] \o seqs[i]]
<1>1. \E f : f = [i \in 1 .. n |-> IF i = 1 THEN seqs[i] ELSE f[i - 1] \o seqs[i]]
  <2>1. PICK f : Turns(f, seqs, n)
    BY TurnsExist
  <2>2. f = [i \in 1 .. n |-> IF i = 1 THEN seqs[i] ELSE f[i - 1] \o seqs[i]]
    BY <2>1 DEF Turns
  <2> QED BY <2>2
<1>2. flatten = [i \in 1 .. n |-> IF i = 1 THEN seqs[i] ELSE flatten[i - 1] \o seqs[i]]
  BY <1>1
<1>3. FlattenSeq(seqs) = flatten[n]
  BY DEF FlattenSeq
<1>4. Turns(flatten, seqs, n)
  <2> HIDE DEF flatten
  <2> QED BY <1>2 DEF Turns
<1> QED BY <1>3, <1>4

(* What the first n of some sequences come to. *)
Joined(seqs, n) == FlattenSeq(SubSeq(seqs, 1, n))

LEMMA JoinedNext ==
  ASSUME NEW S, NEW seqs \in Seq(Seq(S))
  PROVE  /\ Joined(seqs, 0) = <<>>
         /\ Joined(seqs, Len(seqs)) = FlattenSeq(seqs)
         /\ Len(seqs) > 0 => Joined(seqs, 1) = seqs[1]
         /\ \A n \in 1 .. Len(seqs) - 1 : Joined(seqs, n + 1) = Joined(seqs, n) \o seqs[n + 1]
<1>1. Len(seqs) \in Nat /\ \A i \in 1 .. Len(seqs) : seqs[i] \in Seq(S)
  BY LenProperties, ElementOfSeq
<1>2. \A n \in 0 .. Len(seqs) : /\ Len(SubSeq(seqs, 1, n)) = n
                                /\ \A i \in 1 .. n : SubSeq(seqs, 1, n)[i] = seqs[i]
  <2> SUFFICES ASSUME NEW n \in 0 .. Len(seqs)
               PROVE  /\ Len(SubSeq(seqs, 1, n)) = n
                      /\ \A i \in 1 .. n : SubSeq(seqs, 1, n)[i] = seqs[i]
    OBVIOUS
  <2>1. 1 \in Int /\ n \in Int /\ \A i \in 1 .. n : seqs[i] \in Seq(S)
    BY <1>1
  <2>2. /\ Len(SubSeq(seqs, 1, n)) = IF 1 <= n THEN n - 1 + 1 ELSE 0
        /\ \A i \in 1 .. n - 1 + 1 : SubSeq(seqs, 1, n)[i] = seqs[1 + i - 1]
    BY <2>1, SubSeqProperties
  <2> QED BY <1>1, <2>2
<1>3. Joined(seqs, 0) = <<>>
  <2>1. SubSeq(seqs, 1, 0) = <<>>
    BY SubSeqEmpty
  <2> QED BY <2>1, <1>1, <1>2 DEF Joined, FlattenSeq
<1>4. Joined(seqs, Len(seqs)) = FlattenSeq(seqs)
  BY SubSeqFull DEF Joined
<1>5. \A n \in 1 .. Len(seqs) :
         \E f : Turns(f, SubSeq(seqs, 1, n), n) /\ Joined(seqs, n) = f[n]
  <2> SUFFICES ASSUME NEW n \in 1 .. Len(seqs)
               PROVE  \E f : Turns(f, SubSeq(seqs, 1, n), n) /\ Joined(seqs, n) = f[n]
    OBVIOUS
  <2>1. Len(SubSeq(seqs, 1, n)) = n /\ n \in Nat \ {0}
    BY <1>1, <1>2
  <2> QED BY <2>1, FlattenTurns DEF Joined
<1>6. ASSUME Len(seqs) > 0 PROVE Joined(seqs, 1) = seqs[1]
  <2>1. PICK f : Turns(f, SubSeq(seqs, 1, 1), 1) /\ Joined(seqs, 1) = f[1]
    BY <1>1, <1>5, <1>6
  <2>2. f[1] = SubSeq(seqs, 1, 1)[1]
    BY <2>1 DEF Turns
  <2> QED BY <1>1, <1>2, <1>6, <2>1, <2>2
<1>7. ASSUME NEW n \in 1 .. Len(seqs) - 1
      PROVE  Joined(seqs, n + 1) = Joined(seqs, n) \o seqs[n + 1]
  <2>0. n \in 1 .. Len(seqs) /\ n + 1 \in 1 .. Len(seqs) /\ n \in Nat /\ n + 1 \in n .. n + 1
        /\ n + 1 \in 1 .. n + 1 /\ n + 1 # 1 /\ (n + 1) - 1 = n
    BY <1>1
  <2>1. PICK f : Turns(f, SubSeq(seqs, 1, n), n) /\ Joined(seqs, n) = f[n]
    BY <1>5, <2>0
  <2>2. PICK g : Turns(g, SubSeq(seqs, 1, n + 1), n + 1) /\ Joined(seqs, n + 1) = g[n + 1]
    BY <1>5, <2>0
  <2>3. SameUpTo(SubSeq(seqs, 1, n), SubSeq(seqs, 1, n + 1), n)
    <3>1. /\ \A i \in 1 .. n : SubSeq(seqs, 1, n)[i] = seqs[i]
          /\ \A i \in 1 .. n + 1 : SubSeq(seqs, 1, n + 1)[i] = seqs[i]
      BY <1>1, <1>2, <2>0
    <3>2. \A i \in 1 .. n : i \in 1 .. n + 1
      BY <2>0
    <3> QED BY <3>1, <3>2 DEF SameUpTo
  <2>4. f[n] = g[n]
    BY <2>0, <2>1, <2>2, <2>3, TurnsAgree
  <2>5. g[n + 1] = g[n] \o SubSeq(seqs, 1, n + 1)[n + 1]
    BY <2>0, <2>2 DEF Turns
  <2>6. SubSeq(seqs, 1, n + 1)[n + 1] = seqs[n + 1]
    BY <1>1, <1>2, <2>0
  <2> QED BY <2>1, <2>2, <2>4, <2>5, <2>6
<1> QED BY <1>3, <1>4, <1>6, <1>7

List(s, S) == s \in Seq(S)
Lists(seqs, S) == seqs \in Seq(Seq(S))

LEMMA ListsLength ==
  ASSUME NEW S, NEW seqs, Lists(seqs, S)
  PROVE  /\ Len(seqs) \in Nat
         /\ \A i \in 1 .. Len(seqs) : List(seqs[i], S) /\ Len(seqs[i]) \in Nat
         /\ List(Joined(seqs, 0), S) /\ Len(Joined(seqs, 0)) = 0
<1>1. seqs \in Seq(Seq(S))
  BY DEF Lists
<1>2. Len(seqs) \in Nat
  BY <1>1, LenProperties
<1>3. ASSUME NEW i \in 1 .. Len(seqs) PROVE List(seqs[i], S) /\ Len(seqs[i]) \in Nat
  <2>1. seqs[i] \in Seq(S)
    BY <1>1, ElementOfSeq
  <2> QED BY <2>1, LenProperties DEF List
<1>4. Joined(seqs, 0) = <<>>
  BY <1>1, JoinedNext
<1> QED BY <1>2, <1>3, <1>4, EmptySeq DEF List

LEMMA JoinedStep ==
  ASSUME NEW S, NEW seqs, Lists(seqs, S), NEW k \in Nat, k < Len(seqs), List(Joined(seqs, k), S)
  PROVE  /\ List(Joined(seqs, k + 1), S)
         /\ Len(Joined(seqs, k)) \in Nat /\ Len(seqs[k + 1]) \in Nat
         /\ Len(Joined(seqs, k + 1)) = Len(Joined(seqs, k)) + Len(seqs[k + 1])
         /\ \A i \in 1 .. Len(Joined(seqs, k)) : Joined(seqs, k + 1)[i] = Joined(seqs, k)[i]
         /\ \A j \in 1 .. Len(seqs[k + 1]) :
               Joined(seqs, k + 1)[Len(Joined(seqs, k)) + j] = seqs[k + 1][j]
<1>1. PICK a \in Seq(S) : a = Joined(seqs, k)
  BY DEF List
<1>2. k + 1 \in 1 .. Len(seqs)
  BY ListsLength
<1>3. PICK b \in Seq(S) : b = seqs[k + 1]
  BY <1>2, ListsLength DEF List
<1>4. Joined(seqs, k + 1) = a \o b
  <2>1. CASE k = 0
    <3>1. Joined(seqs, 1) = seqs[1] /\ Joined(seqs, 0) = <<>>
      BY <1>2, <2>1, JoinedNext DEF Lists
    <3>2. <<>> \o b = b
      BY ConcatEmptySeq
    <3> QED BY <1>1, <1>3, <2>1, <3>1, <3>2
  <2>2. CASE k # 0
    <3>1. k \in 1 .. Len(seqs) - 1
      BY <1>2, <2>2
    <3> QED BY <1>1, <1>3, <3>1, JoinedNext DEF Lists
  <2> QED BY <2>1, <2>2
<1>5. /\ a \o b \in Seq(S) /\ Len(a) \in Nat /\ Len(b) \in Nat
      /\ Len(a \o b) = Len(a) + Len(b)
      /\ \A i \in 1 .. Len(a) + Len(b) : (a \o b)[i] = IF i <= Len(a) THEN a[i] ELSE b[i - Len(a)]
  BY ConcatProperties, LenProperties
<1>6. ASSUME NEW i \in 1 .. Len(a) PROVE (a \o b)[i] = a[i]
  <2>1. i \in 1 .. Len(a) + Len(b) /\ i <= Len(a)
    BY <1>5
  <2> QED BY <1>5, <2>1
<1>7. ASSUME NEW j \in 1 .. Len(b) PROVE (a \o b)[Len(a) + j] = b[j]
  <2>1. PICK i : i = Len(a) + j
    OBVIOUS
  <2>2. i \in 1 .. Len(a) + Len(b) /\ ~(i <= Len(a)) /\ i - Len(a) = j
    BY <1>5, <2>1
  <2> QED BY <1>5, <2>1, <2>2
<1> QED BY <1>1, <1>3, <1>4, <1>5, <1>6, <1>7 DEF List

(* The parts are in the whole, each from where those before it end. *)
PartsIn(seqs, k) ==
  \A i \in 1 .. k : \A j \in 1 .. Len(seqs[i]) :
    /\ Len(Joined(seqs, i - 1)) + j \in 1 .. Len(Joined(seqs, k))
    /\ Joined(seqs, k)[Len(Joined(seqs, i - 1)) + j] = seqs[i][j]
SumsOf(seqs, k) ==
  \A i \in 1 .. k : Len(Joined(seqs, i)) = Len(Joined(seqs, i - 1)) + Len(seqs[i])

LEMMA JoinedParts ==
  ASSUME NEW S, NEW seqs, Lists(seqs, S)
  PROVE  \A n \in 0 .. Len(seqs) : /\ List(Joined(seqs, n), S) /\ Len(Joined(seqs, n)) \in Nat
                                   /\ PartsIn(seqs, n) /\ SumsOf(seqs, n)
<1>0. Len(seqs) \in Nat
  BY ListsLength
<1> DEFINE A == {k \in 0 .. Len(seqs) : List(Joined(seqs, k), S) /\ PartsIn(seqs, k) /\ SumsOf(seqs, k)}
<1>2. 0 \in A
  <2>1. PartsIn(seqs, 0) /\ SumsOf(seqs, 0)
    BY DEF PartsIn, SumsOf
  <2>2. List(Joined(seqs, 0), S) /\ 0 \in 0 .. Len(seqs)
    BY <1>0, ListsLength
  <2> QED BY <2>1, <2>2
<1>3. ASSUME NEW k \in 0 .. Len(seqs) - 1, k \in A PROVE k + 1 \in A
  <2>1. k \in Nat /\ k < Len(seqs) /\ k + 1 \in 0 .. Len(seqs) /\ (k + 1) - 1 = k
    BY <1>0
  <2>2. List(Joined(seqs, k), S) /\ PartsIn(seqs, k) /\ SumsOf(seqs, k)
    BY <1>3
  <2>3. /\ List(Joined(seqs, k + 1), S)
        /\ Len(Joined(seqs, k)) \in Nat /\ Len(seqs[k + 1]) \in Nat
        /\ Len(Joined(seqs, k + 1)) = Len(Joined(seqs, k)) + Len(seqs[k + 1])
        /\ \A i \in 1 .. Len(Joined(seqs, k)) : Joined(seqs, k + 1)[i] = Joined(seqs, k)[i]
        /\ \A j \in 1 .. Len(seqs[k + 1]) :
              Joined(seqs, k + 1)[Len(Joined(seqs, k)) + j] = seqs[k + 1][j]
    BY <2>1, <2>2, JoinedStep
  <2>4. SumsOf(seqs, k + 1)
    <3> SUFFICES ASSUME NEW i \in 1 .. k + 1
                 PROVE  Len(Joined(seqs, i)) = Len(Joined(seqs, i - 1)) + Len(seqs[i])
      BY DEF SumsOf
    <3>1. CASE i = k + 1
      BY <2>1, <2>3, <3>1
    <3>2. CASE i # k + 1
      <4>1. i \in 1 .. k
        BY <3>2
      <4> QED BY <2>2, <4>1 DEF SumsOf
    <3> QED BY <3>1, <3>2
  <2>5. PartsIn(seqs, k + 1)
    <3> SUFFICES ASSUME NEW i \in 1 .. k + 1, NEW j \in 1 .. Len(seqs[i])
                 PROVE  /\ Len(Joined(seqs, i - 1)) + j \in 1 .. Len(Joined(seqs, k + 1))
                        /\ Joined(seqs, k + 1)[Len(Joined(seqs, i - 1)) + j] = seqs[i][j]
      BY DEF PartsIn
    <3>1. CASE i = k + 1
      <4>1. j \in 1 .. Len(seqs[k + 1]) /\ i - 1 = k
        BY <2>1, <3>1
      <4>2. Len(Joined(seqs, k)) + j \in 1 .. Len(Joined(seqs, k + 1))
        BY <2>3, <4>1
      <4> QED BY <2>3, <3>1, <4>1, <4>2
    <3>2. CASE i # k + 1
      <4>1. i \in 1 .. k
        BY <3>2
      <4>2. PICK x : x = Len(Joined(seqs, i - 1)) + j
        OBVIOUS
      <4>3. x \in 1 .. Len(Joined(seqs, k)) /\ Joined(seqs, k)[x] = seqs[i][j]
        BY <2>2, <4>1, <4>2 DEF PartsIn
      <4>4. x \in 1 .. Len(Joined(seqs, k + 1))
        BY <2>3, <4>3
      <4> QED BY <2>3, <4>2, <4>3, <4>4
    <3> QED BY <3>1, <3>2
  <2> QED BY <2>1, <2>3, <2>4, <2>5
<1>4. 0 .. Len(seqs) \subseteq A
  <2> HIDE DEF A
  <2> QED BY <1>0, <1>2, <1>3, CountUp
<1> QED BY <1>4, LenProperties DEF List

(* One more sequence is added at the end of the others. *)
LEMMA FlattenAppend ==
  ASSUME NEW S, NEW seqs, Lists(seqs, S), NEW s, List(s, S)
  PROVE  /\ Lists(Append(seqs, s), S) /\ Len(Append(seqs, s)) = Len(seqs) + 1
         /\ List(FlattenSeq(seqs), S) /\ List(FlattenSeq(Append(seqs, s)), S)
         /\ FlattenSeq(Append(seqs, s)) = FlattenSeq(seqs) \o s
<1>1. PICK r : r = Append(seqs, s)
  OBVIOUS
<1>2. PICK n \in Nat : n = Len(seqs)
  BY ListsLength
<1>3. /\ Lists(r, S) /\ Len(r) = n + 1
      /\ \A i \in 1 .. n : r[i] = seqs[i]
      /\ r[n + 1] = s
  BY <1>1, <1>2, AppendProperties DEF Lists, List
<1>4. Joined(r, n) = Joined(seqs, n)
  <2>1. \A i \in 1 .. n : seqs[i] \in Seq(S) /\ r[i] \in Seq(S) /\ r[i] = seqs[i]
    BY <1>2, <1>3, ListsLength DEF List
  <2>2. /\ SubSeq(r, 1, n) \in Seq(Seq(S)) /\ SubSeq(seqs, 1, n) \in Seq(Seq(S))
        /\ Len(SubSeq(r, 1, n)) = n /\ Len(SubSeq(seqs, 1, n)) = n
        /\ \A i \in 1 .. n : SubSeq(r, 1, n)[i] = r[i] /\ SubSeq(seqs, 1, n)[i] = seqs[i]
    <3>1. 1 \in Int /\ n \in Int
      OBVIOUS
    <3>2. /\ SubSeq(r, 1, n) \in Seq(Seq(S))
          /\ Len(SubSeq(r, 1, n)) = IF 1 <= n THEN n - 1 + 1 ELSE 0
          /\ \A i \in 1 .. n - 1 + 1 : SubSeq(r, 1, n)[i] = r[1 + i - 1]
      BY <2>1, <3>1, SubSeqProperties
    <3>3. /\ SubSeq(seqs, 1, n) \in Seq(Seq(S))
          /\ Len(SubSeq(seqs, 1, n)) = IF 1 <= n THEN n - 1 + 1 ELSE 0
          /\ \A i \in 1 .. n - 1 + 1 : SubSeq(seqs, 1, n)[i] = seqs[1 + i - 1]
      BY <2>1, <3>1, SubSeqProperties
    <3> QED BY <3>2, <3>3
  <2>3. SubSeq(r, 1, n) = SubSeq(seqs, 1, n)
    BY <2>1, <2>2, SeqEqual
  <2> QED BY <2>3 DEF Joined
<1>5. FlattenSeq(seqs) = Joined(seqs, n) /\ FlattenSeq(r) = Joined(r, n + 1)
  BY <1>2, <1>3, JoinedNext DEF Lists
<1>6. List(Joined(seqs, n), S) /\ List(Joined(r, n + 1), S)
  <2>1. n \in 0 .. Len(seqs) /\ n + 1 \in 0 .. Len(r)
    BY <1>2, <1>3
  <2>2. List(Joined(seqs, n), S)
    BY <2>1, JoinedParts
  <2> QED BY <1>3, <2>1, <2>2, JoinedParts
<1>7. Joined(r, n + 1) = Joined(r, n) \o s
  <2>1. CASE n = 0
    <3>1. r \in Seq(Seq(S)) /\ s \in Seq(S) /\ Len(r) > 0
      BY <1>3 DEF Lists, List
    <3>2. Joined(r, 1) = r[1] /\ Joined(r, 0) = <<>>
      BY <3>1, JoinedNext
    <3>3. <<>> \o s = s
      BY <3>1, ConcatEmptySeq
    <3>4. Joined(r, n + 1) = s /\ Joined(r, n) = <<>>
      BY <1>3, <2>1, <3>2
    <3> QED BY <3>3, <3>4
  <2>2. CASE n # 0
    <3>1. n \in 1 .. Len(r) - 1
      BY <1>3, <2>2
    <3> QED BY <1>3, <3>1, JoinedNext DEF Lists
  <2> QED BY <2>1, <2>2
<1> QED BY <1>1, <1>2, <1>3, <1>4, <1>5, <1>6, <1>7
----------------------------------------------------------------------------
(* The groups a mesh is cut into                                           *)

Triangle == [1 .. 3 -> Nat]

LEMMA AddedTriangle ==
  ASSUME NEW groups, Lists(groups, Triangle), NEW t \in Triangle
  PROVE  /\ Lists(AddTriangle(groups, t), Triangle)
         /\ FlattenSeq(AddTriangle(groups, t)) = FlattenSeq(groups) \o <<t>>
<1>0. List(<<t>>, Triangle)
  BY DEF List
<1>1. CASE AddTriangle(groups, t) = Append(groups, <<t>>)
  BY <1>0, <1>1, FlattenAppend
<1>2. CASE AddTriangle(groups, t) # Append(groups, <<t>>)
  <2>1. groups # <<>> /\ AddTriangle(groups, t) = Append(Front(groups), Append(Last(groups), t))
    BY <1>2 DEF AddTriangle
  <2>2. PICK front \in Seq(Seq(Triangle)), last \in Seq(Triangle) : groups = Append(front, last)
    BY <2>1, SequenceEmptyOrAppend DEF Lists
  <2>3. Front(groups) = front /\ Last(groups) = last
    BY <2>2 DEF Front, Last
  <2>4. Append(last, t) = last \o <<t>> /\ Append(last, t) \in Seq(Triangle)
    BY AppendIsConcat, AppendProperties
  <2>5. Lists(front, Triangle) /\ List(last, Triangle) /\ List(Append(last, t), Triangle)
    BY <2>4 DEF Lists, List
  <2>6. /\ Lists(Append(front, Append(last, t)), Triangle)
        /\ FlattenSeq(Append(front, Append(last, t))) = FlattenSeq(front) \o Append(last, t)
        /\ List(FlattenSeq(front), Triangle)
    BY <2>5, FlattenAppend
  <2>7. FlattenSeq(groups) = FlattenSeq(front) \o last
    BY <2>2, <2>5, FlattenAppend
  <2>8. FlattenSeq(front) \o (last \o <<t>>) = (FlattenSeq(front) \o last) \o <<t>>
    BY <2>6, <1>0, ConcatAssociative DEF List
  <2> QED BY <2>1, <2>3, <2>4, <2>6, <2>7, <2>8
<1> QED BY <1>1, <1>2

(* A group keeps both limits, and has no more than three vertices a triangle. *)
GoodGroup(group) ==
  /\ List(group, Triangle) /\ Len(group) \in 1 .. MaxTriangles
  /\ IsFiniteSet(MeshVertices(group)) /\ MeshVertices(group) \subseteq Nat
  /\ Cardinality(MeshVertices(group)) \in 1 .. MaxVertices
  /\ Cardinality(MeshVertices(group)) <= 3 * Len(group)

(* A group is left behind when it has as much as the bound counts on. *)
Full(group) == Len(group) = MaxTriangles \/ 3 * Len(group) >= MaxVertices - 2

LEMMA TriangleVertices ==
  ASSUME NEW t \in Triangle
  PROVE  /\ IsFiniteSet(ToSet(t)) /\ ToSet(t) \subseteq Nat /\ Cardinality(ToSet(t)) \in 1 .. 3
         /\ \A c \in 1 .. 3 : t[c] \in ToSet(t)
<1>1. ToSet(t) = {t[1], t[2], t[3]} /\ DOMAIN t = 1 .. 3 /\ {t[1], t[2], t[3]} \subseteq Nat
  BY DEF ToSet, Triangle
<1>2. IsFiniteSet({t[1]}) /\ Cardinality({t[1]}) = 1
  BY FS_Singleton
<1>3. /\ IsFiniteSet({t[1]} \cup {t[2]})
      /\ Cardinality({t[1]} \cup {t[2]}) = IF t[2] \in {t[1]} THEN 1 ELSE 2
  <2>1. PICK one : one = {t[1]}
    OBVIOUS
  <2>2. /\ IsFiniteSet(one \cup {t[2]})
        /\ Cardinality(one \cup {t[2]}) = IF t[2] \in one THEN Cardinality(one) ELSE Cardinality(one) + 1
    BY <1>2, <2>1, FS_AddElement
  <2> QED BY <1>2, <2>1, <2>2
<1>4. /\ IsFiniteSet({t[1]} \cup {t[2]} \cup {t[3]})
      /\ Cardinality({t[1]} \cup {t[2]} \cup {t[3]})
           = IF t[3] \in {t[1]} \cup {t[2]} THEN Cardinality({t[1]} \cup {t[2]})
             ELSE Cardinality({t[1]} \cup {t[2]}) + 1
  BY <1>3, FS_AddElement
<1>5. ToSet(t) = {t[1]} \cup {t[2]} \cup {t[3]}
  BY <1>1
<1>6. Cardinality(ToSet(t)) \in 1 .. 3
  BY <1>3, <1>4, <1>5
<1> QED BY <1>1, <1>4, <1>5, <1>6 DEF ToSet

LEMMA MoreVertices ==
  ASSUME NEW group, List(group, Triangle), NEW t \in Triangle
  PROVE  /\ MeshVertices(Append(group, t)) = MeshVertices(group) \cup ToSet(t)
         /\ MeshVertices(<<t>>) = ToSet(t)
<1>1. PICK g : g = Append(group, t)
  OBVIOUS
<1>2. /\ DOMAIN g = 1 .. Len(group) + 1 /\ DOMAIN group = 1 .. Len(group) /\ Len(group) \in Nat
      /\ \A i \in 1 .. Len(group) : g[i] = group[i]
      /\ g[Len(group) + 1] = t
  <2>1. g \in Seq(Triangle) /\ Len(g) = Len(group) + 1
    BY <1>1, AppendProperties DEF List
  <2> QED BY <1>1, <2>1, AppendProperties, LenProperties DEF List
<1>3. MeshVertices(g) \subseteq MeshVertices(group) \cup ToSet(t)
  <2> SUFFICES ASSUME NEW i \in DOMAIN g, NEW v \in ToSet(g[i])
               PROVE  v \in MeshVertices(group) \cup ToSet(t)
    BY DEF MeshVertices
  <2>1. CASE i = Len(group) + 1
    BY <1>2, <2>1
  <2>2. CASE i # Len(group) + 1
    <3>1. i \in DOMAIN group /\ g[i] = group[i]
      BY <1>2, <2>2
    <3> QED BY <3>1 DEF MeshVertices
  <2> QED BY <2>1, <2>2
<1>4. MeshVertices(group) \subseteq MeshVertices(g)
  <2> SUFFICES ASSUME NEW i \in DOMAIN group, NEW v \in ToSet(group[i])
               PROVE  v \in MeshVertices(g)
    BY DEF MeshVertices
  <2>1. i \in DOMAIN g /\ g[i] = group[i]
    BY <1>2
  <2> QED BY <2>1 DEF MeshVertices
<1>5. ToSet(t) \subseteq MeshVertices(g)
  <2>1. Len(group) + 1 \in DOMAIN g
    BY <1>2
  <2> QED BY <1>2, <2>1 DEF MeshVertices
<1>6. MeshVertices(<<t>>) = ToSet(t)
  <2>1. DOMAIN <<t>> = {1} /\ <<t>>[1] = t
    OBVIOUS
  <2> QED BY <2>1 DEF MeshVertices
<1> QED BY <1>1, <1>3, <1>4, <1>5, <1>6

LEMMA GroupGrows ==
  ASSUME NEW t \in Triangle
  PROVE  /\ GoodGroup(<<t>>) /\ Len(<<t>>) = 1
         /\ \A group : GoodGroup(group) =>
              /\ Fits(group, t) => GoodGroup(Append(group, t)) /\ Len(Append(group, t)) = Len(group) + 1
              /\ ~Fits(group, t) => Full(group)
<1> USE MeshletAssumption
<1>1. GoodGroup(<<t>>) /\ Len(<<t>>) = 1
  <2>1. List(<<t>>, Triangle) /\ Len(<<t>>) = 1
    BY DEF List
  <2>2. MeshVertices(<<t>>) = ToSet(t)
    BY <2>1, MoreVertices
  <2> QED BY <2>1, <2>2, TriangleVertices DEF GoodGroup
<1>2. ASSUME NEW group, GoodGroup(group)
      PROVE  /\ Fits(group, t) => GoodGroup(Append(group, t)) /\ Len(Append(group, t)) = Len(group) + 1
             /\ ~Fits(group, t) => Full(group)
  <2>1. /\ List(Append(group, t), Triangle) /\ Len(Append(group, t)) = Len(group) + 1
        /\ List(group, Triangle) /\ Len(group) \in 1 .. MaxTriangles
    BY <1>2, AppendProperties DEF GoodGroup, List
  <2>2. PICK U : U = MeshVertices(group)
    OBVIOUS
  <2>3. PICK V : V = ToSet(t)
    OBVIOUS
  <2>4. MeshVertices(Append(group, t)) = U \cup V
    BY <2>1, <2>2, <2>3, MoreVertices
  <2>5. /\ IsFiniteSet(U) /\ U \subseteq Nat /\ Cardinality(U) \in 1 .. MaxVertices
        /\ Cardinality(U) <= 3 * Len(group)
    BY <1>2, <2>2 DEF GoodGroup
  <2>6. IsFiniteSet(V) /\ V \subseteq Nat /\ Cardinality(V) \in 1 .. 3
    BY <2>3, TriangleVertices
  <2>7. /\ IsFiniteSet(U \cup V) /\ Cardinality(U \cup V) \in Nat
        /\ Cardinality(U \cup V) <= Cardinality(U) + 3 /\ Cardinality(U \cup V) >= Cardinality(U)
    <3>1. /\ IsFiniteSet(U \cup V)
          /\ Cardinality(U \cup V) = Cardinality(U) + Cardinality(V) - Cardinality(U \cap V)
      BY <2>5, <2>6, FS_Union
    <3>2. Cardinality(U \cap V) \in Nat /\ Cardinality(U \cup V) \in Nat
      <4>1. IsFiniteSet(U \cap V)
        BY <2>5, FS_Subset
      <4> QED BY <3>1, <4>1, FS_CardinalityType
    <3>3. Cardinality(U) <= Cardinality(U \cup V)
      BY <3>1, FS_Subset
    <3> QED BY <2>5, <2>6, <3>1, <3>2, <3>3
  <2>8. ASSUME Fits(group, t) PROVE GoodGroup(Append(group, t))
    BY <2>1, <2>4, <2>5, <2>6, <2>7, <2>8 DEF GoodGroup, Fits
  <2>9. ASSUME ~Fits(group, t) PROVE Full(group)
    BY <2>1, <2>4, <2>5, <2>7, <2>9 DEF Full, Fits
  <2> QED BY <2>1, <2>8, <2>9
<1> QED BY <1>1, <1>2

(* Every group keeps the limits, all but the last are full, and so many       *)
(* triangles make at least this many groups.                                  *)
CutInv(groups, n) ==
  /\ Lists(groups, Triangle)
  /\ \A i \in 1 .. Len(groups) : GoodGroup(groups[i])
  /\ IF n = 0 THEN groups = <<>>
     ELSE /\ Len(groups) > 0
          /\ 3 * MaxTriangles <= MaxVertices - 2 =>
               n >= (Len(groups) - 1) * MaxTriangles + Len(groups[Len(groups)])
          /\ 3 * MaxTriangles > MaxVertices - 2 =>
               3 * n >= (Len(groups) - 1) * (MaxVertices - 2) + 3 * Len(groups[Len(groups)])

LEMMA AddKeepsCut ==
  ASSUME NEW groups, NEW n \in Nat, CutInv(groups, n), NEW t \in Triangle
  PROVE  CutInv(AddTriangle(groups, t), n + 1)
<1> USE MeshletAssumption
<1>1. Lists(AddTriangle(groups, t), Triangle)
  BY AddedTriangle DEF CutInv
<1>2. CASE groups = <<>>
  <2>1. AddTriangle(groups, t) = Append(<<>>, <<t>>) /\ Append(<<>>, <<t>>) = <<<<t>>>>
    BY <1>2 DEF AddTriangle
  <2>2. PICK r : r = AddTriangle(groups, t)
    OBVIOUS
  <2>3. Len(r) = 1 /\ r[1] = <<t>>
    BY <2>1, <2>2
  <2>4. \A i \in 1 .. Len(r) : GoodGroup(r[i])
    BY <2>3, GroupGrows
  <2>5. Len(<<t>>) = 1
    OBVIOUS
  <2>6. CutInv(r, n + 1)
    BY <1>1, <2>2, <2>3, <2>4, <2>5 DEF CutInv
  <2> QED BY <2>2, <2>6
<1>3. CASE groups # <<>>
  <2>1. PICK front \in Seq(Seq(Triangle)), last \in Seq(Triangle) : groups = Append(front, last)
    BY <1>3, SequenceEmptyOrAppend DEF CutInv, Lists
  <2>2. PICK k \in Nat : k = Len(front)
    BY <2>1, LenProperties
  <2>3. /\ Len(groups) = k + 1 /\ groups[k + 1] = last
        /\ \A i \in 1 .. k : groups[i] = front[i]
    BY <2>1, <2>2, AppendProperties
  <2>4. Front(groups) = front /\ Last(groups) = last
    BY <2>1 DEF Front, Last
  <2>5. GoodGroup(last) /\ \A i \in 1 .. k : GoodGroup(front[i])
    BY <2>2, <2>3 DEF CutInv
  <2>6. Len(last) \in Nat /\ Len(last) <= MaxTriangles
    BY <2>5 DEF GoodGroup
  <2>7. /\ n # 0
        /\ 3 * MaxTriangles <= MaxVertices - 2 => n >= k * MaxTriangles + Len(last)
        /\ 3 * MaxTriangles > MaxVertices - 2 => 3 * n >= k * (MaxVertices - 2) + 3 * Len(last)
    BY <1>3, <2>2, <2>3 DEF CutInv
  <2>8. CASE Fits(last, t)
    <3>1. PICK grown \in Seq(Triangle) : grown = Append(last, t)
      BY AppendProperties
    <3>2. GoodGroup(grown) /\ Len(grown) = Len(last) + 1
      BY <2>5, <2>8, <3>1, GroupGrows
    <3>3. PICK r : r = Append(front, grown)
      OBVIOUS
    <3>4. AddTriangle(groups, t) = r
      BY <1>3, <2>4, <2>8, <3>1, <3>3 DEF AddTriangle
    <3>5. Len(r) = k + 1 /\ r[k + 1] = grown /\ \A i \in 1 .. k : r[i] = front[i]
      BY <2>1, <2>2, <3>1, <3>3, AppendProperties
    <3>6. \A i \in 1 .. Len(r) : GoodGroup(r[i])
      BY <2>2, <2>5, <3>2, <3>5
    <3>7. n + 1 # 0 /\ Len(r) > 0 /\ Len(r) - 1 = k /\ r[Len(r)] = grown
      BY <2>2, <3>5
    <3>8. 3 * MaxTriangles <= MaxVertices - 2 => n + 1 >= k * MaxTriangles + Len(grown)
      BY <2>6, <2>7, <3>2
    <3>9. 3 * MaxTriangles > MaxVertices - 2 => 3 * (n + 1) >= k * (MaxVertices - 2) + 3 * Len(grown)
      BY <2>6, <2>7, <3>2
    <3>10. CutInv(r, n + 1)
      BY <1>1, <3>4, <3>6, <3>7, <3>8, <3>9 DEF CutInv
    <3> QED BY <3>4, <3>10
  <2>9. CASE ~Fits(last, t)
    <3>1. Full(last)
      BY <2>5, <2>9, GroupGrows
    <3>2. PICK new : new = <<t>>
      OBVIOUS
    <3>3. GoodGroup(new) /\ Len(new) = 1
      BY <3>2, GroupGrows
    <3>4. PICK r : r = Append(groups, new)
      OBVIOUS
    <3>5. AddTriangle(groups, t) = r
      BY <1>3, <2>4, <2>9, <3>2, <3>4 DEF AddTriangle
    <3>6. Len(r) = k + 2 /\ r[k + 2] = new /\ \A i \in 1 .. k + 1 : r[i] = groups[i]
      <4>1. groups \in Seq(Seq(Triangle)) /\ new \in Seq(Triangle)
        BY <3>3 DEF CutInv, Lists, GoodGroup, List
      <4>2. /\ Len(r) = Len(groups) + 1 /\ r[Len(groups) + 1] = new
            /\ \A i \in 1 .. Len(groups) : r[i] = groups[i]
        BY <3>4, <4>1, AppendProperties
      <4> QED BY <2>2, <2>3, <4>2
    <3>7. \A i \in 1 .. Len(r) : GoodGroup(r[i])
      <4> SUFFICES ASSUME NEW i \in 1 .. k + 2 PROVE GoodGroup(r[i])
        BY <3>6
      <4>1. CASE i = k + 2
        BY <3>3, <3>6, <4>1
      <4>2. CASE i # k + 2
        <5>1. i \in 1 .. k + 1 /\ i \in 1 .. Len(groups)
          BY <2>2, <2>3, <4>2
        <5> QED BY <3>6, <5>1 DEF CutInv
      <4> QED BY <4>1, <4>2
    <3>8. n + 1 # 0 /\ Len(r) > 0 /\ Len(r) - 1 = k + 1 /\ r[Len(r)] = new
      BY <2>2, <3>6
    <3>9. 3 * MaxTriangles <= MaxVertices - 2 => n + 1 >= (k + 1) * MaxTriangles + Len(new)
      <4> HAVE 3 * MaxTriangles <= MaxVertices - 2
      <4>1. Len(last) = MaxTriangles
        BY <2>6, <3>1 DEF Full
      <4>2. (k + 1) * MaxTriangles = k * MaxTriangles + MaxTriangles
        BY <2>2
      <4> QED BY <2>7, <3>3, <4>1, <4>2
    <3>10. 3 * MaxTriangles > MaxVertices - 2 =>
             3 * (n + 1) >= (k + 1) * (MaxVertices - 2) + 3 * Len(new)
      <4> HAVE 3 * MaxTriangles > MaxVertices - 2
      <4>1. 3 * Len(last) >= MaxVertices - 2
        BY <3>1 DEF Full
      <4>2. (k + 1) * (MaxVertices - 2) = k * (MaxVertices - 2) + (MaxVertices - 2)
        BY <2>2
      <4> QED BY <2>7, <3>3, <4>1, <4>2
    <3>11. CutInv(r, n + 1)
      BY <1>1, <3>5, <3>7, <3>8, <3>9, <3>10 DEF CutInv
    <3> QED BY <3>5, <3>11
  <2> QED BY <2>8, <2>9
<1> QED BY <1>2, <1>3

(* The triangles are taken one by one. *)
Cuts(f, order, n) ==
  /\ f = [i \in 0 .. n |-> f[i]]
  /\ \A i \in 0 .. n : f[i] = IF i = 0 THEN <<>> ELSE AddTriangle(f[i - 1], order[i])

LEMMA CutsExist ==
  ASSUME NEW order, NEW n \in Nat
  PROVE  \E f : Cuts(f, order, n)
<1> DEFINE A == {k \in Nat : \E f : Cuts(f, order, k)}
<1>1. 0 \in A
  <2>1. PICK f : f = [i \in 0 .. 0 |-> <<>>]
    OBVIOUS
  <2>2. Cuts(f, order, 0)
    BY <2>1 DEF Cuts
  <2> QED BY <2>2
<1>2. ASSUME NEW k \in 0 .. n - 1, k \in A PROVE k + 1 \in A
  <2>1. PICK f : Cuts(f, order, k)
    BY <1>2
  <2>2. PICK g : g = [i \in 0 .. k + 1 |-> IF i <= k THEN f[i] ELSE AddTriangle(f[k], order[k + 1])]
    OBVIOUS
  <2>3. \A i \in 0 .. k : g[i] = f[i]
    BY <2>2
  <2>4. g[k + 1] = AddTriangle(f[k], order[k + 1])
    BY <2>2
  <2>5. g = [i \in 0 .. k + 1 |-> g[i]]
    BY <2>2
  <2>6. ASSUME NEW i \in 0 .. k + 1
        PROVE  g[i] = IF i = 0 THEN <<>> ELSE AddTriangle(g[i - 1], order[i])
    <3>1. CASE i <= k
      <4>0. i \in 0 .. k
        BY <3>1
      <4>1. f[i] = IF i = 0 THEN <<>> ELSE AddTriangle(f[i - 1], order[i])
        BY <2>1, <4>0 DEF Cuts
      <4>2. i # 0 => g[i - 1] = f[i - 1]
        BY <2>3, <3>1
      <4> QED BY <2>3, <4>0, <4>1, <4>2
    <3>2. CASE i = k + 1
      <4>1. g[k] = f[k] /\ (k + 1) - 1 = k /\ k + 1 # 0
        BY <2>3
      <4> QED BY <2>4, <3>2, <4>1
    <3> QED BY <3>1, <3>2
  <2>7. Cuts(g, order, k + 1)
    BY <2>5, <2>6 DEF Cuts
  <2> QED BY <2>7
<1>3. 0 .. n \subseteq A
  <2> HIDE DEF A
  <2> QED BY <1>1, <1>2, CountUp
<1> QED BY <1>3

(* The groups hold the triangles in their order. *)
LEMMA CutGroups ==
  ASSUME NEW order, List(order, Triangle)
  PROVE  /\ CutInv(CutIntoGroups(order), Len(order))
         /\ FlattenSeq(CutIntoGroups(order)) = order
<1>0. order \in Seq(Triangle) /\ Len(order) \in Nat
  BY LenProperties DEF List
<1>1. PICK n \in Nat : n = Len(order)
  BY <1>0
<1> DEFINE cut == CHOOSE f : f = [i \in 0 .. n |-> IF i = 0 THEN <<>> ELSE AddTriangle(f[i - 1], order[i])]
<1>2. \E f : f = [i \in 0 .. n |-> IF i = 0 THEN <<>> ELSE AddTriangle(f[i - 1], order[i])]
  <2>1. PICK f : Cuts(f, order, n)
    BY CutsExist
  <2>2. f = [i \in 0 .. n |-> IF i = 0 THEN <<>> ELSE AddTriangle(f[i - 1], order[i])]
    BY <2>1 DEF Cuts
  <2> QED BY <2>2
<1>3. cut = [i \in 0 .. n |-> IF i = 0 THEN <<>> ELSE AddTriangle(cut[i - 1], order[i])]
  BY <1>2
<1>4. CutIntoGroups(order) = cut[n]
  BY <1>1 DEF CutIntoGroups
<1> HIDE DEF cut
<1>5. cut[0] = <<>> /\ \A k \in 0 .. n - 1 : cut[k + 1] = AddTriangle(cut[k], order[k + 1])
  <2>1. cut[0] = <<>>
    BY <1>3
  <2>2. ASSUME NEW k \in 0 .. n - 1 PROVE cut[k + 1] = AddTriangle(cut[k], order[k + 1])
    <3>1. k + 1 \in 0 .. n /\ k + 1 # 0 /\ (k + 1) - 1 = k
      OBVIOUS
    <3> QED BY <1>3, <3>1
  <2> QED BY <2>1, <2>2
<1> DEFINE A == {k \in 0 .. n : CutInv(cut[k], k) /\ FlattenSeq(cut[k]) = SubSeq(order, 1, k)}
<1>6. 0 \in A
  <2>1. Lists(<<>>, Triangle) /\ Len(<<>>) = 0
    BY EmptySeq DEF Lists
  <2>2. FlattenSeq(<<>>) = <<>>
    BY <2>1 DEF FlattenSeq
  <2>3. SubSeq(order, 1, 0) = <<>>
    BY SubSeqEmpty
  <2>4. \A i \in 1 .. Len(<<>>) : GoodGroup(<<>>[i])
    BY <2>1
  <2>5. CutInv(<<>>, 0)
    BY <2>1, <2>4 DEF CutInv
  <2>6. CutInv(cut[0], 0) /\ FlattenSeq(cut[0]) = SubSeq(order, 1, 0)
    BY <1>5, <2>2, <2>3, <2>5
  <2> QED BY <2>6
<1>7. ASSUME NEW k \in 0 .. n - 1, k \in A PROVE k + 1 \in A
  <2>1. CutInv(cut[k], k) /\ FlattenSeq(cut[k]) = SubSeq(order, 1, k) /\ k \in Nat
    BY <1>7
  <2>2. PICK t \in Triangle : t = order[k + 1]
    BY <1>0, <1>1, ElementOfSeq
  <2>3. cut[k + 1] = AddTriangle(cut[k], t)
    BY <1>5, <2>2
  <2>4. CutInv(cut[k + 1], k + 1)
    BY <2>1, <2>3, AddKeepsCut
  <2>5. FlattenSeq(cut[k + 1]) = SubSeq(order, 1, k) \o <<t>>
    BY <2>1, <2>3, AddedTriangle DEF CutInv
  <2>6. SubSeq(order, 1, k + 1) = SubSeq(order, 1, k) \o <<t>>
    <3>1. 1 \in 1 .. Len(order) /\ k + 1 \in 1 .. Len(order) /\ (k + 1) - 1 = k
      BY <1>1
    <3>2. SubSeq(order, 1, k + 1) = SubSeq(order, 1, (k + 1) - 1) \o <<order[k + 1]>>
      BY <1>0, <3>1, SubSeqRecursiveSecond
    <3> QED BY <2>2, <3>1, <3>2
  <2>7. k + 1 \in 0 .. n
    OBVIOUS
  <2> QED BY <2>4, <2>5, <2>6, <2>7
<1>8. 0 .. n \subseteq A
  <2> HIDE DEF A
  <2> QED BY <1>6, <1>7, CountUp
<1>9. CutInv(cut[n], n) /\ FlattenSeq(cut[n]) = SubSeq(order, 1, n)
  BY <1>8
<1>10. SubSeq(order, 1, n) = order
  BY <1>0, <1>1, SubSeqFull
<1> QED BY <1>1, <1>4, <1>9, <1>10

(* A mesh of so many triangles makes no more groups than the arrays have room for. *)
LEMMA DivAtLeast ==
  ASSUME NEW a \in Nat, NEW k \in Nat, NEW d \in Nat, d > 0, a >= (k - 1) * d + 1
  PROVE  CeilingOf(a, d) \in Nat /\ CeilingOf(a, d) >= k
<1>1. PICK x \in Nat : x = a + d - 1
  OBVIOUS
<1>2. x >= k * d
  BY <1>1
<1>3. PICK q \in Nat, r \in 0 .. d - 1 : x = d * q + r /\ x \div d = q
  BY <1>1
<1>4. ASSUME q < k PROVE FALSE
  <2>1. PICK e \in Nat : k = q + 1 + e
    BY <1>4
  <2>2. k * d = q * d + d + e * d /\ e * d >= 0
    BY <2>1
  <2> QED BY <1>2, <1>3, <2>2
<1> QED BY <1>1, <1>3, <1>4 DEF CeilingOf

LEMMA GroupsInBound ==
  ASSUME NEW mesh, NEW groups, Len(mesh.triangles) \in Nat, CutInv(groups, Len(mesh.triangles))
  PROVE  /\ meshlet_build_meshlets_bound(mesh) \in Nat
         /\ Len(groups) <= meshlet_build_meshlets_bound(mesh)
<1> USE MeshletAssumption
<1>1. PICK n \in Nat : n = Len(mesh.triangles)
  OBVIOUS
<1>2. PICK k \in Nat : k = Len(groups)
  BY ListsLength DEF CutInv
<1>3. PICK b : b = CeilingOf(3 * n, MaxVertices - 2)
  OBVIOUS
<1>4. PICK c : c = CeilingOf(n, MaxTriangles)
  OBVIOUS
<1>5. meshlet_build_meshlets_bound(mesh) = IF b > c THEN b ELSE c
  BY <1>1, <1>3, <1>4 DEF meshlet_build_meshlets_bound
<1>6. b \in Nat /\ c \in Nat
  BY <1>3, <1>4 DEF CeilingOf
<1>7. CASE n = 0
  <2>1. k = 0
    BY <1>1, <1>2, <1>7 DEF CutInv
  <2> QED BY <1>2, <1>5, <1>6, <2>1
<1>8. CASE n # 0
  <2>1. /\ k > 0
        /\ 3 * MaxTriangles <= MaxVertices - 2 => n >= (k - 1) * MaxTriangles + Len(groups[k])
        /\ 3 * MaxTriangles > MaxVertices - 2 => 3 * n >= (k - 1) * (MaxVertices - 2) + 3 * Len(groups[k])
    BY <1>1, <1>2, <1>8 DEF CutInv
  <2>2. Len(groups[k]) \in Nat /\ Len(groups[k]) >= 1
    <3>1. GoodGroup(groups[k])
      BY <1>2, <2>1 DEF CutInv
    <3> QED BY <3>1 DEF GoodGroup
  <2>3. CASE 3 * MaxTriangles <= MaxVertices - 2
    <3>1. n >= (k - 1) * MaxTriangles + 1
      <4>1. PICK l \in Nat : l = Len(groups[k]) /\ l >= 1
        BY <2>2
      <4>2. n >= (k - 1) * MaxTriangles + l
        BY <2>1, <2>3, <4>1
      <4>3. PICK m \in Int : m = (k - 1) * MaxTriangles
        OBVIOUS
      <4>4. n >= m + l
        BY <4>2, <4>3
      <4>5. n >= m + 1
        BY <4>1, <4>4
      <4> QED BY <4>3, <4>5
    <3>2. c >= k
      BY <1>4, <3>1, DivAtLeast
    <3> QED BY <1>2, <1>5, <1>6, <3>2
  <2>4. CASE 3 * MaxTriangles > MaxVertices - 2
    <3>1. 3 * n \in Nat /\ MaxVertices - 2 \in Nat /\ MaxVertices - 2 > 0
          /\ 3 * n >= (k - 1) * (MaxVertices - 2) + 1
      <4>1. PICK l \in Nat : l = Len(groups[k]) /\ l >= 1
        BY <2>2
      <4>2. 3 * n >= (k - 1) * (MaxVertices - 2) + 3 * l
        BY <2>1, <2>4, <4>1
      <4>3. PICK m \in Int : m = (k - 1) * (MaxVertices - 2)
        OBVIOUS
      <4>4. 3 * n >= m + 3 * l
        BY <4>2, <4>3
      <4>5. 3 * n >= m + 1
        BY <4>1, <4>4
      <4> QED BY <2>1, <4>3, <4>5
    <3>2. b >= k
      BY <1>3, <3>1, DivAtLeast
    <3> QED BY <1>2, <1>5, <1>6, <3>2
  <2> QED BY <2>3, <2>4
<1> QED BY <1>7, <1>8
----------------------------------------------------------------------------
(* What is written of one group                                            *)

LEMMA SequenceOfSet ==
  ASSUME NEW S, IsFiniteSet(S)
  PROVE  /\ SetToSeq(S) \in Seq(S) /\ Len(SetToSeq(S)) = Cardinality(S) /\ Cardinality(S) \in Nat
         /\ \A x \in S : \E i \in 1 .. Cardinality(S) : SetToSeq(S)[i] = x
<1>1. PICK n \in Nat : n = Cardinality(S)
  BY FS_CardinalityType
<1>2. \E f \in [1 .. n -> S] : IsInjective(f)
  <2>1. PICK f : f \in Bijection(1 .. n, S)
    BY <1>1, FS_CardinalityType DEF ExistsBijection
  <2> QED BY <2>1 DEF Bijection, Injection
<1>3. PICK f : f = SetToSeq(S)
  OBVIOUS
<1>4. f \in [1 .. n -> S] /\ IsInjective(f)
  BY <1>1, <1>2, <1>3 DEF SetToSeq
<1>5. f \in Surjection(1 .. n, S)
  <2>1. f \in Injection(1 .. n, S)
    BY <1>4 DEF Injection
  <2>2. IsFiniteSet(1 .. n) /\ Cardinality(1 .. n) = n
    BY FS_Interval
  <2> QED BY <1>1, <2>1, <2>2, FS_Injection
<1>6. \A x \in S : \E i \in 1 .. n : f[i] = x
  BY <1>5 DEF Surjection
<1>7. f \in Seq(S) /\ Len(f) = n
  BY <1>4
<1> QED BY <1>1, <1>3, <1>6, <1>7

LEMMA LocalNumbers ==
  ASSUME NEW group, GoodGroup(group)
  PROVE  /\ List(LocalVertices(group), Nat) /\ Len(LocalVertices(group)) \in 1 .. MaxVertices
         /\ \A v \in MeshVertices(group) :
              /\ LocalNumber(group, v) \in Nat /\ LocalNumber(group, v) < Len(LocalVertices(group))
              /\ LocalVertices(group)[LocalNumber(group, v) + 1] = v
<1>1. PICK S : S = MeshVertices(group)
  OBVIOUS
<1>2. /\ IsFiniteSet(S) /\ S \subseteq Nat /\ Cardinality(S) \in 1 .. MaxVertices
  BY <1>1 DEF GoodGroup
<1>3. PICK s : s = SetToSeq(S)
  OBVIOUS
<1>4. PICK n \in Nat : n = Cardinality(S)
  BY <1>2, FS_CardinalityType
<1>5. s \in Seq(S) /\ Len(s) = n /\ \A x \in S : \E i \in 1 .. n : s[i] = x
  BY <1>2, <1>3, <1>4, SequenceOfSet
<1>6. LocalVertices(group) = s
  BY <1>1, <1>3 DEF LocalVertices
<1>7. List(s, Nat)
  BY <1>2, <1>5, SeqMonotonic DEF List
<1>8. DOMAIN s = 1 .. n
  BY <1>5, LenProperties
<1>9. ASSUME NEW v \in S
      PROVE  LocalNumber(group, v) \in Nat /\ LocalNumber(group, v) < n /\ s[LocalNumber(group, v) + 1] = v
  <2>1. PICK i : i = CHOOSE j \in DOMAIN s : s[j] = v
    OBVIOUS
  <2>2. i \in 1 .. n /\ s[i] = v
    BY <1>5, <1>8, <2>1
  <2>3. LocalNumber(group, v) = i - 1
    BY <1>6, <2>1 DEF LocalNumber
  <2>4. (i - 1) + 1 = i
    BY <2>2
  <2> QED BY <2>2, <2>3, <2>4
<1> QED BY <1>1, <1>2, <1>4, <1>5, <1>6, <1>7, <1>9

LEMMA LocalBytes ==
  ASSUME NEW group, GoodGroup(group)
  PROVE  /\ List(LocalTriangles(group), Nat)
         /\ Len(LocalTriangles(group)) = RoundUp(3 * Len(group))
         /\ \A t \in 1 .. Len(group) : \A c \in 1 .. 3 :
              /\ group[t][c] \in MeshVertices(group)
              /\ LocalTriangles(group)[3 * (t - 1) + c] = LocalNumber(group, group[t][c])
<1>1. PICK n \in Nat : n = Len(group)
  BY DEF GoodGroup
<1>2. PICK m \in Nat : m = RoundUp(3 * n)
  BY DEF RoundUp
<1>3. m >= 3 * n
  BY <1>2 DEF RoundUp
<1>4. ASSUME NEW t \in 1 .. n, NEW c \in 1 .. 3
      PROVE  group[t][c] \in MeshVertices(group)
  <2>1. group[t] \in Triangle /\ DOMAIN group = 1 .. n
    BY <1>1, ElementOfSeq, LenProperties DEF GoodGroup, List
  <2>2. group[t][c] \in ToSet(group[t])
    BY <2>1, TriangleVertices
  <2> QED BY <2>1, <2>2 DEF MeshVertices
<1>5. PICK s : s = LocalTriangles(group)
  OBVIOUS
<1>6. s = [b \in 1 .. m |-> IF b > 3 * n THEN 0
                            ELSE LocalNumber(group, group[((b - 1) \div 3) + 1][((b - 1) % 3) + 1])]
  BY <1>1, <1>2, <1>5 DEF LocalTriangles
<1>7. ASSUME NEW b \in 1 .. m
      PROVE  s[b] \in Nat
  <2>1. CASE b > 3 * n
    BY <1>6, <2>1
  <2>2. CASE ~(b > 3 * n)
    <3>1. PICK t \in 1 .. n, c \in 1 .. 3 : t = ((b - 1) \div 3) + 1 /\ c = ((b - 1) % 3) + 1
      BY <2>2
    <3>2. s[b] = LocalNumber(group, group[t][c])
      BY <1>6, <2>2, <3>1
    <3>3. group[t][c] \in MeshVertices(group)
      BY <1>4
    <3> QED BY <3>2, <3>3, LocalNumbers
  <2> QED BY <2>1, <2>2
<1>8. s \in Seq(Nat) /\ Len(s) = m
  <2>1. s \in [1 .. m -> Nat]
    BY <1>6, <1>7
  <2> QED BY <2>1
<1>9. ASSUME NEW t \in 1 .. n, NEW c \in 1 .. 3
      PROVE  s[3 * (t - 1) + c] = LocalNumber(group, group[t][c])
  <2>1. PICK b \in 1 .. m : b = 3 * (t - 1) + c
    BY <1>3
  <2>2. ~(b > 3 * n) /\ ((b - 1) \div 3) + 1 = t /\ ((b - 1) % 3) + 1 = c
    BY <2>1
  <2>3. s[b] = LocalNumber(group, group[t][c])
    BY <1>6, <2>2
  <2> QED BY <2>1, <2>3
<1> QED BY <1>1, <1>2, <1>4, <1>5, <1>8, <1>9 DEF List
----------------------------------------------------------------------------
(* What is written of all groups, one after the other                      *)

VerticesOf(groups) == [i \in DOMAIN groups |-> LocalVertices(groups[i])]
TrianglesOf(groups) == [i \in DOMAIN groups |-> LocalTriangles(groups[i])]

GoodGroups(groups) == Lists(groups, Triangle) /\ \A i \in 1 .. Len(groups) : GoodGroup(groups[i])

LEMMA WordsOfGroup ==
  ASSUME NEW n \in 1 .. MaxTriangles
  PROVE  /\ RoundUp(3 * n) \in Nat /\ RoundUp(3 * n) <= 3 * MaxTriangles
         /\ RoundUp(3 * n) >= 3 * n /\ RoundUp(3 * n) % 4 = 0
<1>1. PICK q \in Nat : MaxTriangles = 4 * q
  BY MeshletAssumption
<1> QED BY <1>1 DEF RoundUp

LEMMA WrittenLists ==
  ASSUME NEW groups, GoodGroups(groups)
  PROVE  /\ Len(groups) \in Nat /\ DOMAIN groups = 1 .. Len(groups)
         /\ Lists(VerticesOf(groups), Nat) /\ Len(VerticesOf(groups)) = Len(groups)
         /\ Lists(TrianglesOf(groups), Nat) /\ Len(TrianglesOf(groups)) = Len(groups)
         /\ \A i \in 1 .. Len(groups) :
              /\ VerticesOf(groups)[i] = LocalVertices(groups[i])
              /\ TrianglesOf(groups)[i] = LocalTriangles(groups[i])
<1>1. PICK k \in Nat : k = Len(groups)
  BY ListsLength DEF GoodGroups
<1>2. DOMAIN groups = 1 .. k
  BY <1>1, LenProperties DEF GoodGroups, Lists
<1>3. PICK v, t : v = VerticesOf(groups) /\ t = TrianglesOf(groups)
  OBVIOUS
<1>4. /\ v = [i \in 1 .. k |-> LocalVertices(groups[i])]
      /\ t = [i \in 1 .. k |-> LocalTriangles(groups[i])]
  BY <1>2, <1>3 DEF VerticesOf, TrianglesOf
<1>5. \A i \in 1 .. k : LocalVertices(groups[i]) \in Seq(Nat) /\ LocalTriangles(groups[i]) \in Seq(Nat)
  BY <1>1, LocalNumbers, LocalBytes DEF GoodGroups, List
<1>6. v \in [1 .. k -> Seq(Nat)] /\ t \in [1 .. k -> Seq(Nat)]
  BY <1>4, <1>5
<1>7. v \in Seq(Seq(Nat)) /\ Len(v) = k /\ t \in Seq(Seq(Nat)) /\ Len(t) = k
  BY <1>6
<1> QED BY <1>1, <1>2, <1>3, <1>4, <1>7 DEF Lists

(* The arrays have room, and every meshlet's bytes begin at a word. *)
LEMMA WrittenSizes ==
  ASSUME NEW groups, GoodGroups(groups)
  PROVE  \A i \in 0 .. Len(groups) :
           /\ Len(Joined(VerticesOf(groups), i)) \in Nat
           /\ Len(Joined(VerticesOf(groups), i)) <= i * MaxVertices
           /\ Len(Joined(TrianglesOf(groups), i)) \in Nat
           /\ Len(Joined(TrianglesOf(groups), i)) <= i * (3 * MaxTriangles)
           /\ Len(Joined(TrianglesOf(groups), i)) % 4 = 0
<1>1. PICK k \in Nat : k = Len(groups)
  BY WrittenLists
<1>2. PICK v, t : v = VerticesOf(groups) /\ t = TrianglesOf(groups)
  OBVIOUS
<1>3. Lists(v, Nat) /\ Len(v) = k /\ Lists(t, Nat) /\ Len(t) = k
  BY <1>1, <1>2, WrittenLists
<1> DEFINE Sized(i) == /\ Len(Joined(v, i)) \in Nat /\ Len(Joined(v, i)) <= i * MaxVertices
                       /\ Len(Joined(t, i)) \in Nat /\ Len(Joined(t, i)) <= i * (3 * MaxTriangles)
                       /\ Len(Joined(t, i)) % 4 = 0
           A == {i \in 0 .. k : Sized(i)}
<1>4. 0 \in A
  <2>1. Len(Joined(v, 0)) = 0 /\ Len(Joined(t, 0)) = 0
    BY <1>3, ListsLength
  <2> QED BY <2>1, MeshletAssumption
<1>5. ASSUME NEW i \in 0 .. k - 1, i \in A PROVE i + 1 \in A
  <2>1. i + 1 \in 0 .. k /\ i + 1 \in 1 .. k /\ (i + 1) - 1 = i
    OBVIOUS
  <2>2. GoodGroup(groups[i + 1])
    BY <1>1, <2>1 DEF GoodGroups
  <2>3. PICK x \in Nat : x = Len(v[i + 1]) /\ x <= MaxVertices
    BY <1>1, <1>2, <2>1, <2>2, WrittenLists, LocalNumbers, MeshletAssumption
  <2>4. PICK y \in Nat : y = Len(t[i + 1]) /\ y <= 3 * MaxTriangles /\ y % 4 = 0
    <3>1. t[i + 1] = LocalTriangles(groups[i + 1])
      BY <1>1, <1>2, <2>1, WrittenLists
    <3>2. Len(t[i + 1]) = RoundUp(3 * Len(groups[i + 1])) /\ Len(groups[i + 1]) \in 1 .. MaxTriangles
      BY <2>2, <3>1, LocalBytes DEF GoodGroup
    <3> QED BY <3>2, WordsOfGroup
  <2>5. /\ Len(Joined(v, i + 1)) = Len(Joined(v, i)) + x
        /\ Len(Joined(t, i + 1)) = Len(Joined(t, i)) + y
    <3>1. SumsOf(v, k) /\ SumsOf(t, k)
      BY <1>3, JoinedParts
    <3> QED BY <2>1, <2>3, <2>4, <3>1 DEF SumsOf
  <2>6. Sized(i)
    BY <1>5
  <2>7. PICK a \in Nat, b \in Nat : a = Len(Joined(v, i)) /\ b = Len(Joined(t, i))
    BY <2>6
  <2>8. a <= i * MaxVertices /\ b <= i * (3 * MaxTriangles) /\ b % 4 = 0
    BY <2>6, <2>7
  <2>9. /\ (i + 1) * MaxVertices = i * MaxVertices + MaxVertices
        /\ (i + 1) * (3 * MaxTriangles) = i * (3 * MaxTriangles) + 3 * MaxTriangles
    BY MeshletAssumption
  <2>10. a + x \in Nat /\ a + x <= (i + 1) * MaxVertices
    BY <2>3, <2>8, <2>9, MeshletAssumption
  <2>11. b + y \in Nat /\ b + y <= (i + 1) * (3 * MaxTriangles)
    BY <2>4, <2>8, <2>9, MeshletAssumption
  <2>12. (b + y) % 4 = 0
    <3>1. ASSUME NEW z \in Nat, z % 4 = 0 PROVE \E q \in Nat : z = 4 * q
      BY <3>1
    <3>2. PICK p \in Nat : b = 4 * p
      BY <2>8, <3>1
    <3>3. y % 4 = 0
      BY <2>4
    <3>4. PICK q \in Nat : y = 4 * q
      BY <3>1, <3>3
    <3>5. b + y = 4 * (p + q)
      BY <3>2, <3>4
    <3> QED BY <3>5
  <2>13. Sized(i + 1)
    BY <2>5, <2>7, <2>10, <2>11, <2>12
  <2> QED BY <2>1, <2>13
<1>6. 0 .. k \subseteq A
  <2> HIDE DEF A
  <2> QED BY <1>4, <1>5, CountUp
<1> QED BY <1>1, <1>2, <1>6

(* What the engine keeps of the library's work: nothing is lost on the way. *)
Described(groups) ==
  [i \in 1 .. Len(groups) |->
    [vertexOffset   |-> Len(Joined(VerticesOf(groups), i - 1)),
     triangleOffset |-> Len(Joined(TrianglesOf(groups), i - 1)),
     vertexCount    |-> Len(LocalVertices(groups[i])),
     triangleCount  |-> Len(groups[i])]]

LEMMA LibraryBuilds ==
  ASSUME NEW order, GoodGroups(CutIntoGroups(order))
  PROVE  meshlet_build_meshlets(order) =
           [vertices  |-> FlattenSeq(VerticesOf(CutIntoGroups(order))),
            triangles |-> FlattenSeq(TrianglesOf(CutIntoGroups(order))),
            meshlets  |-> Described(CutIntoGroups(order))]
<1>1. PICK groups : groups = CutIntoGroups(order)
  OBVIOUS
<1>2. PICK v, t : v = VerticesOf(groups) /\ t = TrianglesOf(groups)
  OBVIOUS
<1>3. DOMAIN groups = 1 .. Len(groups) /\ \A i \in 1 .. Len(groups) : v[i] = LocalVertices(groups[i])
  BY <1>1, <1>2, WrittenLists
<1>4. meshlet_build_meshlets(order) =
        [vertices  |-> FlattenSeq(v), triangles |-> FlattenSeq(t),
         meshlets  |-> [i \in DOMAIN groups |->
           [vertexOffset |-> Len(FlattenSeq(SubSeq(v, 1, i - 1))),
            triangleOffset |-> Len(FlattenSeq(SubSeq(t, 1, i - 1))),
            vertexCount |-> Len(v[i]), triangleCount |-> Len(groups[i])]]]
  BY <1>1, <1>2 DEF meshlet_build_meshlets, VerticesOf, TrianglesOf
<1>5. [i \in DOMAIN groups |->
           [vertexOffset |-> Len(FlattenSeq(SubSeq(v, 1, i - 1))),
            triangleOffset |-> Len(FlattenSeq(SubSeq(t, 1, i - 1))),
            vertexCount |-> Len(v[i]), triangleCount |-> Len(groups[i])]] = Described(groups)
  BY <1>2, <1>3 DEF Described, Joined
<1> QED BY <1>1, <1>2, <1>4, <1>5

(* A list that fits an array is read back from it as it was written. *)
LEMMA WrittenBack ==
  ASSUME NEW values, List(values, Nat), NEW mesh, NEW perMeshlet,
         meshlet_build_meshlets_bound(mesh) * perMeshlet \in Nat,
         Len(values) <= meshlet_build_meshlets_bound(mesh) * perMeshlet
  PROVE  SubSeq(Written(mesh, perMeshlet, values), 1, Len(values)) = values
<1>1. values \in Seq(Nat)
  BY DEF List
<1>2. PICK n \in Nat : n = Len(values)
  BY <1>1, LenProperties
<1>3. PICK w : w = Written(mesh, perMeshlet, values)
  OBVIOUS
<1>4. ASSUME NEW i \in 1 .. n PROVE w[i] = values[i] /\ values[i] \in Nat
  <2>1. values[i] \in Nat
    BY <1>1, <1>2, ElementOfSeq
  <2>2. i \in 1 .. meshlet_build_meshlets_bound(mesh) * perMeshlet /\ i <= Len(values)
    BY <1>2
  <2> QED BY <1>3, <2>1, <2>2 DEF Written
<1>5. \A i \in 1 .. n : w[i] \in Nat
  BY <1>4
<1>6. /\ SubSeq(w, 1, n) \in Seq(Nat)
      /\ Len(SubSeq(w, 1, n)) = IF 1 <= n THEN n - 1 + 1 ELSE 0
      /\ \A i \in 1 .. n - 1 + 1 : SubSeq(w, 1, n)[i] = w[1 + i - 1]
  <2>1. 1 \in Int /\ n \in Int
    OBVIOUS
  <2> QED BY <1>5, <2>1, SubSeqProperties
<1>7. Len(SubSeq(w, 1, n)) = Len(values)
  BY <1>2, <1>6
<1>8. \A i \in 1 .. n : SubSeq(w, 1, n)[i] = values[i]
  BY <1>4, <1>6
<1>9. SubSeq(w, 1, n) = values
  BY <1>1, <1>2, <1>6, <1>7, <1>8, SeqEqual
<1> QED BY <1>2, <1>3, <1>9

(* A mesh the program may be given: a list of triangles of vertex numbers. *)
GoodMesh(mesh) == List(mesh.triangles, Triangle)

LEMMA Groups ==
  ASSUME NEW mesh, NEW order, GoodMesh(mesh), List(order, Triangle),
         Len(order) = Len(mesh.triangles), IsValidMesh(mesh)
  PROVE  /\ GoodGroups(CutIntoGroups(order)) /\ Len(CutIntoGroups(order)) > 0
         /\ FlattenSeq(CutIntoGroups(order)) = order
         /\ meshlet_build_meshlets_bound(mesh) \in Nat
         /\ Len(CutIntoGroups(order)) <= meshlet_build_meshlets_bound(mesh)
<1>1. Len(mesh.triangles) \in Nat /\ Len(mesh.triangles) # 0
  BY EmptySeq DEF GoodMesh, List, IsValidMesh
<1>2. CutInv(CutIntoGroups(order), Len(mesh.triangles)) /\ FlattenSeq(CutIntoGroups(order)) = order
  BY CutGroups
<1> QED BY <1>1, <1>2, GroupsInBound DEF CutInv, GoodGroups

(* The counts of a meshlet survive the narrowing, so nothing is changed by it. *)
LEMMA DescribedMeshlets ==
  ASSUME NEW groups, GoodGroups(groups)
  PROVE  /\ DOMAIN Described(groups) = 1 .. Len(groups) /\ Len(Described(groups)) = Len(groups)
         /\ [i \in DOMAIN Described(groups) |-> Narrowed(Described(groups)[i])] = Described(groups)
<1>1. PICK k \in Nat : k = Len(groups)
  BY WrittenLists
<1>2. PICK d : d = Described(groups)
  OBVIOUS
<1>3. d = [i \in 1 .. k |->
             [vertexOffset   |-> Len(Joined(VerticesOf(groups), i - 1)),
              triangleOffset |-> Len(Joined(TrianglesOf(groups), i - 1)),
              vertexCount    |-> Len(LocalVertices(groups[i])),
              triangleCount  |-> Len(groups[i])]]
  BY <1>1, <1>2 DEF Described
<1>4. DOMAIN d = 1 .. k
  BY <1>3
<1>5. Len(d) = k
  <2>1. d \in [1 .. k -> {d[i] : i \in 1 .. k}]
    BY <1>3
  <2> QED BY <2>1
<1>6. ASSUME NEW i \in 1 .. k PROVE Narrowed(d[i]) = d[i]
  <2>1. GoodGroup(groups[i])
    BY <1>1 DEF GoodGroups
  <2>2. PICK a \in Nat : a = Len(LocalVertices(groups[i])) /\ a <= MaxVertices
    BY <2>1, LocalNumbers, MeshletAssumption
  <2>3. PICK b \in Nat : b = Len(groups[i]) /\ b <= MaxTriangles
    BY <2>1, MeshletAssumption DEF GoodGroup
  <2>4. a % CountLimit = a /\ b % CountLimit = b
    <3>1. CountLimit \in Nat /\ a < CountLimit /\ b < CountLimit
      BY <2>2, <2>3, MeshletAssumption
    <3> QED BY <3>1
  <2>5. PICK x, y : d[i] = [vertexOffset |-> x, triangleOffset |-> y, vertexCount |-> a, triangleCount |-> b]
    BY <1>3, <2>2, <2>3
  <2>6. PICK m : m = [vertexOffset |-> x, triangleOffset |-> y, vertexCount |-> a, triangleCount |-> b]
    OBVIOUS
  <2>7. m.vertexCount % CountLimit = a /\ m.triangleCount % CountLimit = b
    BY <2>4, <2>6
  <2>8. Narrowed(m) = [m EXCEPT !.vertexCount = a, !.triangleCount = b]
    BY <2>7 DEF Narrowed
  <2>9. [m EXCEPT !.vertexCount = a, !.triangleCount = b] = m
    <3>1. m \in [vertexOffset : {x}, triangleOffset : {y}, vertexCount : {a}, triangleCount : {b}]
      BY <2>6
    <3> QED BY <3>1
  <2> QED BY <2>5, <2>6, <2>8, <2>9
<1>7. [i \in 1 .. k |-> Narrowed(d[i])] = [i \in 1 .. k |-> d[i]]
  BY <1>6
<1>8. [i \in 1 .. k |-> d[i]] = d
  BY <1>3
<1> QED BY <1>1, <1>2, <1>4, <1>5, <1>7, <1>8

(* The sizes read from the last meshlet are those of the lists. *)
LEMMA Totals ==
  ASSUME NEW groups, GoodGroups(groups), Len(groups) > 0, NEW built, built.meshlets = Described(groups)
  PROVE  /\ TotalVertices(built) = Len(FlattenSeq(VerticesOf(groups)))
         /\ TotalTriangles(built) = Len(FlattenSeq(TrianglesOf(groups)))
         /\ List(FlattenSeq(VerticesOf(groups)), Nat)
         /\ List(FlattenSeq(TrianglesOf(groups)), Nat)
<1>1. PICK k \in Nat : k = Len(groups) /\ k > 0
  BY WrittenLists
<1>2. PICK v, t : v = VerticesOf(groups) /\ t = TrianglesOf(groups)
  OBVIOUS
<1>3. /\ Lists(v, Nat) /\ Len(v) = k /\ Lists(t, Nat) /\ Len(t) = k
      /\ v[k] = LocalVertices(groups[k]) /\ t[k] = LocalTriangles(groups[k])
  BY <1>1, <1>2, WrittenLists
<1>4. FlattenSeq(v) = Joined(v, k) /\ FlattenSeq(t) = Joined(t, k)
  BY <1>3, JoinedNext DEF Lists
<1>5. /\ List(Joined(v, k), Nat) /\ List(Joined(t, k), Nat)
      /\ SumsOf(v, k) /\ SumsOf(t, k)
  BY <1>1, <1>3, JoinedParts
<1>6. /\ Len(Joined(v, k)) = Len(Joined(v, k - 1)) + Len(v[k])
      /\ Len(Joined(t, k)) = Len(Joined(t, k - 1)) + Len(t[k])
  <2>1. k \in 1 .. k
    BY <1>1
  <2> QED BY <1>5, <2>1 DEF SumsOf
<1>7. Len(t[k]) = RoundUp(3 * Len(groups[k]))
  <2>1. GoodGroup(groups[k])
    BY <1>1 DEF GoodGroups
  <2> QED BY <1>3, <2>1, LocalBytes
<1>8. PICK d : d = Described(groups)
  OBVIOUS
<1>9. /\ d[k].vertexOffset = Len(Joined(v, k - 1)) /\ d[k].vertexCount = Len(v[k])
      /\ d[k].triangleOffset = Len(Joined(t, k - 1)) /\ d[k].triangleCount = Len(groups[k])
  BY <1>1, <1>2, <1>3, <1>8 DEF Described
<1>10. Last(built.meshlets) = d[k]
  BY <1>1, <1>8, DescribedMeshlets DEF Last
<1>11. TotalVertices(built) = Len(Joined(v, k)) /\ TotalTriangles(built) = Len(Joined(t, k))
  BY <1>6, <1>7, <1>9, <1>10 DEF TotalVertices, TotalTriangles
<1> QED BY <1>2, <1>4, <1>5, <1>11

LEMMA Generated ==
  ASSUME NEW mesh, NEW order, GoodMesh(mesh), List(order, Triangle),
         Len(order) = Len(mesh.triangles), IsValidMesh(mesh)
  PROVE  GenerateMeshlets(mesh, order) =
           [meshlets |-> Described(CutIntoGroups(order)), bounds |-> Len(CutIntoGroups(order)),
            vertexIndices |-> FlattenSeq(VerticesOf(CutIntoGroups(order))),
            primitiveIndices |-> FlattenSeq(TrianglesOf(CutIntoGroups(order)))]
<1>1. PICK groups : groups = CutIntoGroups(order)
  OBVIOUS
<1>2. PICK bound \in Nat : bound = meshlet_build_meshlets_bound(mesh)
  BY Groups
<1>3. GoodGroups(groups) /\ Len(groups) > 0 /\ Len(groups) <= bound
  BY <1>1, <1>2, Groups
<1>4. PICK k \in Nat : k = Len(groups) /\ k > 0 /\ k <= bound
  BY <1>3, WrittenLists
<1>5. PICK v, t : v = FlattenSeq(VerticesOf(groups)) /\ t = FlattenSeq(TrianglesOf(groups))
  OBVIOUS
<1>6. PICK built : built = meshlet_build_meshlets(order)
  OBVIOUS
<1>7. built = [vertices |-> v, triangles |-> t, meshlets |-> Described(groups)]
  BY <1>1, <1>3, <1>5, <1>6, LibraryBuilds
<1>8. built.vertices = v /\ built.triangles = t /\ built.meshlets = Described(groups)
  BY <1>7
<1>9. TotalVertices(built) = Len(v) /\ TotalTriangles(built) = Len(t) /\ List(v, Nat) /\ List(t, Nat)
  BY <1>3, <1>5, <1>8, Totals
<1>10. Len(v) <= k * MaxVertices /\ Len(t) <= k * (3 * MaxTriangles) /\ Len(v) \in Nat /\ Len(t) \in Nat
  <2>1. k \in 0 .. Len(groups)
    BY <1>4
  <2>2. /\ v = Joined(VerticesOf(groups), k) /\ t = Joined(TrianglesOf(groups), k)
    BY <1>3, <1>4, <1>5, WrittenLists, JoinedNext DEF Lists
  <2> QED BY <1>3, <1>4, <2>1, <2>2, WrittenSizes
<1>11. /\ bound * MaxVertices \in Nat /\ Len(v) <= bound * MaxVertices
       /\ bound * (3 * MaxTriangles) \in Nat /\ Len(t) <= bound * (3 * MaxTriangles)
  <2>1. PICK e \in Nat : bound = k + e
    BY <1>4
  <2>2. PICK x \in Nat, y \in Nat : x = MaxVertices /\ y = 3 * MaxTriangles
    BY MeshletAssumption
  <2>3. bound * x = k * x + e * x /\ bound * y = k * y + e * y
    BY <2>1
  <2>4. e * x \in Nat /\ e * y \in Nat /\ k * x \in Nat /\ k * y \in Nat
    OBVIOUS
  <2>5. Len(v) <= k * x /\ Len(t) <= k * y
    BY <1>10, <2>2
  <2>6. Len(v) <= bound * x /\ Len(t) <= bound * y /\ bound * x \in Nat /\ bound * y \in Nat
    BY <1>10, <2>3, <2>4, <2>5
  <2> QED BY <2>2, <2>6
<1>12. SubSeq(Written(mesh, MaxVertices, v), 1, TotalVertices(built)) = v
  BY <1>2, <1>9, <1>11, WrittenBack
<1>13. SubSeq(Written(mesh, 3 * MaxTriangles, t), 1, TotalTriangles(built)) = t
  BY <1>2, <1>9, <1>11, WrittenBack
<1>14. built.meshlets # <<>> /\ Len(built.meshlets) = k
  BY <1>3, <1>4, <1>8, DescribedMeshlets
<1>15. [i \in DOMAIN built.meshlets |-> Narrowed(built.meshlets[i])] = Described(groups)
  BY <1>3, <1>8, DescribedMeshlets
<1>16. GenerateMeshletsRaw(mesh, order) =
         [meshlets |-> Described(groups), bounds |-> k, vertexIndices |-> v, primitiveIndices |-> t]
  BY <1>6, <1>8, <1>12, <1>13, <1>14, <1>15 DEF GenerateMeshletsRaw
<1> QED BY <1>1, <1>4, <1>5, <1>16 DEF GenerateMeshlets
----------------------------------------------------------------------------
(* What the shader reads                                                   *)

DataOf(groups) ==
  [meshlets |-> Described(groups), bounds |-> Len(groups),
   vertexIndices |-> FlattenSeq(VerticesOf(groups)),
   primitiveIndices |-> FlattenSeq(TrianglesOf(groups))]

(* Both arrays are lists of numbers, the bytes whole words. *)
LEMMA FlattenedWords ==
  ASSUME NEW groups, GoodGroups(groups)
  PROVE  /\ Len(DataOf(groups).vertexIndices) \in Nat
         /\ Len(DataOf(groups).primitiveIndices) \in Nat
         /\ Len(DataOf(groups).primitiveIndices) % 4 = 0
<1>1. PICK k \in Nat : k = Len(groups)
  BY WrittenLists
<1>2. /\ FlattenSeq(VerticesOf(groups)) = Joined(VerticesOf(groups), k)
      /\ FlattenSeq(TrianglesOf(groups)) = Joined(TrianglesOf(groups), k)
  BY <1>1, WrittenLists, JoinedNext DEF Lists
<1>3. k \in 0 .. Len(groups)
  BY <1>1
<1> QED BY <1>2, <1>3, WrittenSizes DEF DataOf

(* A meshlet's own lists are at its offsets, inside the arrays. *)
Placed(data, meshlet, vertices, bytes, n) ==
  /\ meshlet.vertexOffset \in Nat /\ meshlet.triangleOffset \in Nat
  /\ meshlet.triangleOffset % 4 = 0
  /\ meshlet.vertexCount = Len(vertices) /\ meshlet.triangleCount = n
  /\ \A j \in 1 .. Len(vertices) :
       /\ meshlet.vertexOffset + j \in 1 .. Len(data.vertexIndices)
       /\ data.vertexIndices[meshlet.vertexOffset + j] = vertices[j]
  /\ \A j \in 1 .. Len(bytes) :
       /\ meshlet.triangleOffset + j \in 1 .. Len(data.primitiveIndices)
       /\ data.primitiveIndices[meshlet.triangleOffset + j] = bytes[j]

LEMMA MeshletIn ==
  ASSUME NEW groups, GoodGroups(groups), NEW i \in 1 .. Len(groups)
  PROVE  Placed(DataOf(groups), DataOf(groups).meshlets[i], LocalVertices(groups[i]),
                LocalTriangles(groups[i]), Len(groups[i]))
<1>1. PICK k \in Nat : k = Len(groups) /\ i \in 1 .. k
  BY WrittenLists
<1>2. PICK v, t : v = VerticesOf(groups) /\ t = TrianglesOf(groups)
  OBVIOUS
<1>3. /\ Lists(v, Nat) /\ Len(v) = k /\ Lists(t, Nat) /\ Len(t) = k
      /\ v[i] = LocalVertices(groups[i]) /\ t[i] = LocalTriangles(groups[i])
  BY <1>1, <1>2, WrittenLists
<1>4. PICK V, T : V = FlattenSeq(v) /\ T = FlattenSeq(t)
  OBVIOUS
<1>5. V = Joined(v, k) /\ T = Joined(t, k)
  BY <1>3, <1>4, JoinedNext DEF Lists
<1>6. PartsIn(v, k) /\ PartsIn(t, k)
  BY <1>1, <1>3, JoinedParts
<1>7. PICK a \in Nat, b \in Nat : a = Len(Joined(v, i - 1)) /\ b = Len(Joined(t, i - 1)) /\ b % 4 = 0
  <2>1. i - 1 \in 0 .. Len(groups)
    BY <1>1
  <2> QED BY <1>2, <2>1, WrittenSizes
<1>8. \A j \in 1 .. Len(v[i]) : a + j \in 1 .. Len(V) /\ V[a + j] = v[i][j]
  BY <1>1, <1>5, <1>6, <1>7 DEF PartsIn
<1>9. \A j \in 1 .. Len(t[i]) : b + j \in 1 .. Len(T) /\ T[b + j] = t[i][j]
  BY <1>1, <1>5, <1>6, <1>7 DEF PartsIn
<1>10. PICK meshlet : meshlet = Described(groups)[i]
  OBVIOUS
<1>11. /\ meshlet.vertexOffset = a /\ meshlet.triangleOffset = b
       /\ meshlet.vertexCount = Len(v[i]) /\ meshlet.triangleCount = Len(groups[i])
  BY <1>1, <1>2, <1>3, <1>7, <1>10 DEF Described
<1>12. DataOf(groups).meshlets[i] = meshlet
  BY <1>10 DEF DataOf
<1>13. DataOf(groups).vertexIndices = V /\ DataOf(groups).primitiveIndices = T
  BY <1>2, <1>4 DEF DataOf
<1>14. PICK data : data = DataOf(groups)
  OBVIOUS
<1>15. \A j \in 1 .. Len(v[i]) : /\ meshlet.vertexOffset + j \in 1 .. Len(data.vertexIndices)
                                 /\ data.vertexIndices[meshlet.vertexOffset + j] = v[i][j]
  BY <1>8, <1>11, <1>13, <1>14
<1>16. \A j \in 1 .. Len(t[i]) : /\ meshlet.triangleOffset + j \in 1 .. Len(data.primitiveIndices)
                                 /\ data.primitiveIndices[meshlet.triangleOffset + j] = t[i][j]
  BY <1>9, <1>11, <1>13, <1>14
<1>17. Placed(data, meshlet, v[i], t[i], Len(groups[i]))
  BY <1>7, <1>11, <1>15, <1>16 DEF Placed
<1> QED BY <1>3, <1>12, <1>14, <1>17

(* A triangle of a meshlet is the triangle of its group, and every word it is *)
(* read from is inside.                                                       *)
LEMMA TriangleRead ==
  ASSUME NEW groups, GoodGroups(groups), NEW i \in 1 .. Len(groups), NEW t \in 1 .. Len(groups[i])
  PROVE  /\ MeshTriangle(DataOf(groups), DataOf(groups).meshlets[i], t - 1) = groups[i][t]
         /\ \A c \in 1 .. 3 : UnpackTriangle(DataOf(groups), DataOf(groups).meshlets[i], t - 1)[c]
                                < DataOf(groups).meshlets[i].vertexCount
         /\ \A w \in WordsRead(DataOf(groups).meshlets[i], t - 1) :
              4 * w + 4 <= Len(DataOf(groups).primitiveIndices)
<1>1. PICK group : group = groups[i]
  OBVIOUS
<1>2. GoodGroup(group)
  BY <1>1 DEF GoodGroups
<1>3. PICK n \in Nat : n = Len(group) /\ n \in 1 .. MaxTriangles /\ t \in 1 .. n
  BY <1>1, <1>2, MeshletAssumption DEF GoodGroup
<1>4. PICK data : data = DataOf(groups)
  OBVIOUS
<1>5. PICK lv, lt : lv = LocalVertices(group) /\ lt = LocalTriangles(group)
  OBVIOUS
<1>6. PICK meshlet : meshlet = data.meshlets[i] /\ Placed(data, meshlet, lv, lt, n)
  BY <1>1, <1>3, <1>4, <1>5, MeshletIn
<1>7. PICK a \in Nat, b \in Nat : a = meshlet.vertexOffset /\ b = meshlet.triangleOffset /\ b % 4 = 0
  BY <1>6 DEF Placed
<1>8. PICK m \in Nat : m = Len(lt) /\ m = RoundUp(3 * n) /\ m >= 3 * n
  BY <1>2, <1>3, <1>5, LocalBytes, WordsOfGroup
<1>9. Len(lv) \in Nat
  BY <1>2, <1>5, LocalNumbers, MeshletAssumption
<1>10. \A c \in 1 .. 3 :
         \E x \in Nat : /\ x < Len(lv) /\ lv[x + 1] = group[t][c]
                        /\ UnpackTriangle(data, meshlet, t - 1)[c] = x
  <2> SUFFICES ASSUME NEW c \in 1 .. 3
               PROVE  \E x \in Nat : /\ x < Len(lv) /\ lv[x + 1] = group[t][c]
                                     /\ UnpackTriangle(data, meshlet, t - 1)[c] = x
    OBVIOUS
  <2>1. PICK x : x = LocalNumber(group, group[t][c])
    OBVIOUS
  <2>2. group[t][c] \in MeshVertices(group) /\ lt[3 * (t - 1) + c] = x
    BY <1>2, <1>3, <1>5, <2>1, LocalBytes
  <2>3. x \in Nat /\ x < Len(lv) /\ lv[x + 1] = group[t][c]
    BY <1>2, <1>5, <2>1, <2>2, LocalNumbers
  <2>4. PICK j \in Nat : j = 3 * (t - 1) + c
    BY <1>3
  <2>5. j \in 1 .. m
    BY <1>3, <1>8, <2>4
  <2>6. data.primitiveIndices[b + j] = x
    BY <1>6, <1>7, <1>8, <2>2, <2>4, <2>5 DEF Placed
  <2>7. TriangleByte(meshlet, t - 1) + c = b + j
    BY <1>3, <1>7, <2>4 DEF TriangleByte
  <2>8. UnpackTriangle(data, meshlet, t - 1)[c] = x
    BY <2>6, <2>7 DEF UnpackTriangle
  <2> QED BY <2>3, <2>8
<1>11. MeshTriangle(data, meshlet, t - 1) = group[t]
  <2>1. \A c \in 1 .. 3 :
          data.vertexIndices[a + UnpackTriangle(data, meshlet, t - 1)[c] + 1] = group[t][c]
    <3> SUFFICES ASSUME NEW c \in 1 .. 3
                 PROVE  data.vertexIndices[a + UnpackTriangle(data, meshlet, t - 1)[c] + 1] = group[t][c]
      OBVIOUS
    <3>1. PICK x \in Nat : /\ x < Len(lv) /\ lv[x + 1] = group[t][c]
                           /\ UnpackTriangle(data, meshlet, t - 1)[c] = x
      BY <1>10
    <3>2. PICK j \in 1 .. Len(lv) : j = x + 1
      BY <1>9, <3>1
    <3>3. data.vertexIndices[a + j] = lv[j]
      BY <1>6, <1>7 DEF Placed
    <3>4. a + x + 1 = a + j
      BY <3>2
    <3>5. data.vertexIndices[a + x + 1] = lv[j] /\ lv[j] = group[t][c]
      BY <3>1, <3>2, <3>3, <3>4
    <3> QED BY <3>1, <3>5
  <2>2. MeshTriangle(data, meshlet, t - 1) = [c \in 1 .. 3 |-> group[t][c]]
    BY <1>7, <2>1 DEF MeshTriangle
  <2>3. group[t] \in Triangle
    BY <1>2, <1>3, ElementOfSeq DEF GoodGroup, List
  <2> QED BY <2>2, <2>3 DEF Triangle
<1>12. \A c \in 1 .. 3 : UnpackTriangle(data, meshlet, t - 1)[c] < meshlet.vertexCount
  BY <1>6, <1>10 DEF Placed
<1>13. ASSUME NEW w \in WordsRead(meshlet, t - 1)
       PROVE  4 * w + 4 <= Len(data.primitiveIndices)
  <2>1. PICK byte \in Nat : byte = b + 3 * (t - 1)
    BY <1>3
  <2>2. \/ w = byte \div 4
        \/ byte % 4 >= 2 /\ w = (byte \div 4) + 1
    BY <1>7, <2>1, <1>13 DEF WordsRead, TriangleByte
  <2>3. byte + 3 <= b + 3 * n
    BY <1>3, <2>1
  <2>4. PICK q \in Nat : b = 4 * q
    BY <1>7
  <2>5. w \in Nat /\ 4 * w + 4 <= b + m
    BY <1>3, <1>8, <2>2, <2>3, <2>4 DEF RoundUp
  <2>6. m \in 1 .. m
    BY <1>3, <1>8
  <2>7. b + m \in 1 .. Len(data.primitiveIndices)
    BY <1>6, <1>7, <1>8, <2>6 DEF Placed
  <2>8. Len(data.primitiveIndices) \in Nat
    BY <1>4, FlattenedWords
  <2> QED BY <2>5, <2>7, <2>8
<1> QED BY <1>1, <1>4, <1>6, <1>11, <1>12, <1>13

(* Every read is inside, and the shader emits the groups one after the other. *)
LEMMA DataReadable ==
  ASSUME NEW groups, GoodGroups(groups)
  PROVE  /\ ReadsInside(DataOf(groups))
         /\ PrimitiveIndexBufferSize(DataOf(groups)) <= Len(DataOf(groups).primitiveIndices)
         /\ ShaderTriangles(DataOf(groups)) = FlattenSeq(groups)
<1>1. PICK k \in Nat : k = Len(groups)
  BY WrittenLists
<1>2. PICK data : data = DataOf(groups)
  OBVIOUS
<1>3. DOMAIN data.meshlets = 1 .. k
  <2>1. data.meshlets = Described(groups)
    BY <1>2 DEF DataOf
  <2> QED BY <1>1, <2>1, DescribedMeshlets
<1>4. ASSUME NEW i \in 1 .. k, NEW meshlet, meshlet = data.meshlets[i]
      PROVE  /\ meshlet.vertexOffset + meshlet.vertexCount <= Len(data.vertexIndices)
             /\ meshlet.triangleCount = Len(groups[i])
  <2>1. PICK lv, lt : lv = LocalVertices(groups[i]) /\ lt = LocalTriangles(groups[i])
    OBVIOUS
  <2>2. Placed(data, meshlet, lv, lt, Len(groups[i]))
    BY <1>1, <1>2, <1>4, <2>1, MeshletIn
  <2>3. PICK n \in Nat : n = Len(lv) /\ n \in 1 .. n
    <3>1. GoodGroup(groups[i])
      BY <1>1 DEF GoodGroups
    <3>2. Len(lv) \in 1 .. MaxVertices
      BY <2>1, <3>1, LocalNumbers
    <3> QED BY <3>2, MeshletAssumption
  <2>4. meshlet.vertexOffset + n \in 1 .. Len(data.vertexIndices) /\ meshlet.vertexCount = n
    BY <2>2, <2>3 DEF Placed
  <2>5. Len(data.vertexIndices) \in Nat /\ meshlet.vertexOffset \in Nat
    BY <1>2, <2>2, FlattenedWords DEF Placed
  <2>6. PICK x : x = meshlet.vertexOffset + n
    OBVIOUS
  <2>7. x <= Len(data.vertexIndices)
    BY <2>4, <2>5, <2>6
  <2> QED BY <2>2, <2>4, <2>6, <2>7 DEF Placed
<1>5. ASSUME NEW i \in 1 .. k, NEW meshlet, meshlet = data.meshlets[i],
             NEW t \in 0 .. meshlet.triangleCount - 1
      PROVE  /\ \A w \in WordsRead(meshlet, t) : 4 * w + 4 <= Len(data.primitiveIndices)
             /\ \A c \in 1 .. 3 : UnpackTriangle(data, meshlet, t)[c] < meshlet.vertexCount
  <2>1. meshlet.triangleCount = Len(groups[i]) /\ Len(groups[i]) \in Nat
    <3>1. GoodGroup(groups[i])
      BY <1>1 DEF GoodGroups
    <3> QED BY <1>4, <1>5, <3>1, MeshletAssumption DEF GoodGroup
  <2>2. PICK u : u = t + 1
    OBVIOUS
  <2>3. u \in 1 .. Len(groups[i]) /\ u - 1 = t
    BY <2>1, <2>2
  <2>4. i \in 1 .. Len(groups)
    BY <1>1
  <2>5. /\ \A c \in 1 .. 3 : UnpackTriangle(data, meshlet, u - 1)[c] < meshlet.vertexCount
        /\ \A w \in WordsRead(meshlet, u - 1) : 4 * w + 4 <= Len(data.primitiveIndices)
    BY <1>2, <1>5, <2>3, <2>4, TriangleRead
  <2> QED BY <2>3, <2>5
<1>6. ReadsInside(data)
  BY <1>3, <1>4, <1>5 DEF ReadsInside
<1>7. PrimitiveIndexBufferSize(data) <= Len(data.primitiveIndices)
  <2>1. PICK n \in Nat : n = Len(data.primitiveIndices) /\ n % 4 = 0
    BY <1>2, FlattenedWords
  <2>2. RoundUp(n) = n
    <3>1. n % 4 = 0
      BY <2>1
    <3> QED BY <3>1 DEF RoundUp
  <2> QED BY <2>1, <2>2 DEF PrimitiveIndexBufferSize
<1>8. ASSUME NEW i \in 1 .. k
      PROVE  [t \in 1 .. data.meshlets[i].triangleCount |-> MeshTriangle(data, data.meshlets[i], t - 1)]
                = groups[i]
  <2>1. PICK meshlet : meshlet = data.meshlets[i]
    OBVIOUS
  <2>2. PICK n : n = Len(groups[i])
    OBVIOUS
  <2>3. meshlet.triangleCount = n /\ i \in 1 .. Len(groups)
    BY <1>1, <1>4, <2>1, <2>2
  <2>4. \A t \in 1 .. n : MeshTriangle(data, meshlet, t - 1) = groups[i][t]
    BY <1>2, <2>1, <2>2, <2>3, TriangleRead
  <2>5. groups[i] = [t \in 1 .. n |-> groups[i][t]]
    <3>1. groups[i] \in Seq(Triangle)
      BY <2>3 DEF GoodGroups, GoodGroup, List
    <3>2. groups[i] \in [1 .. n -> Triangle]
      BY <2>2, <3>1, LenProperties
    <3> QED BY <3>2
  <2>6. [t \in 1 .. n |-> MeshTriangle(data, meshlet, t - 1)] = [t \in 1 .. n |-> groups[i][t]]
    BY <2>4
  <2> QED BY <2>1, <2>3, <2>5, <2>6
<1>9. ShaderTriangles(data) = FlattenSeq(groups)
  <2>1. [i \in DOMAIN data.meshlets |->
           [t \in 1 .. data.meshlets[i].triangleCount |-> MeshTriangle(data, data.meshlets[i], t - 1)]]
          = [i \in 1 .. k |-> groups[i]]
    BY <1>3, <1>8
  <2>2. groups = [i \in 1 .. k |-> groups[i]]
    <3>1. groups \in [1 .. k -> Seq(Triangle)]
      BY <1>1, LenProperties DEF GoodGroups, Lists
    <3> QED BY <3>1
  <2> QED BY <2>1, <2>2 DEF ShaderTriangles
<1> QED BY <1>2, <1>6, <1>7, <1>9

(* Triangles in another order are the same triangles. *)
LEMMA Reordered ==
  ASSUME NEW s, List(s, Triangle), NEW p \in SetToSeqs(DOMAIN s), NEW order,
         order = [i \in DOMAIN s |-> s[p[i]]]
  PROVE  List(order, Triangle) /\ Len(order) = Len(s) /\ SameTriangles(order, s)
<1>1. PICK n \in Nat : n = Len(s)
  BY LenProperties DEF List
<1>2. DOMAIN s = 1 .. n /\ \A i \in 1 .. n : s[i] \in Triangle
  BY <1>1, LenProperties, ElementOfSeq DEF List
<1>3. IsFiniteSet(1 .. n) /\ Cardinality(1 .. n) = n
  BY FS_Interval
<1>4. p \in [1 .. n -> 1 .. n] /\ \A i, j \in 1 .. n : i # j => p[i] # p[j]
  BY <1>2, <1>3 DEF SetToSeqs
<1>5. \A j \in 1 .. n : \E i \in 1 .. n : p[i] = j
  <2>1. p \in Injection(1 .. n, 1 .. n)
    BY <1>4 DEF Injection, IsInjective
  <2>2. p \in Surjection(1 .. n, 1 .. n)
    BY <1>3, <2>1, FS_Injection
  <2> QED BY <2>2 DEF Surjection
<1>6. order \in [1 .. n -> Triangle] /\ \A i \in 1 .. n : order[i] = s[p[i]]
  BY <1>2, <1>4
<1>7. order \in Seq(Triangle) /\ Len(order) = n /\ DOMAIN order = 1 .. n
  BY <1>6
<1>8. ASSUME NEW x
      PROVE  Cardinality({i \in DOMAIN order : order[i] = x}) = Cardinality({i \in DOMAIN s : s[i] = x})
  <2>1. PICK I : I = {i \in 1 .. n : order[i] = x}
    OBVIOUS
  <2>2. PICK J : J = {i \in 1 .. n : s[i] = x}
    OBVIOUS
  <2>3. PICK q : q = [i \in I |-> p[i]]
    OBVIOUS
  <2>4. q \in [I -> J]
    BY <1>4, <1>6, <2>1, <2>2, <2>3
  <2>5. q \in Injection(I, J)
    <3>1. \A a, b \in I : q[a] = q[b] => a = b
      BY <1>4, <2>1, <2>3
    <3>2. DOMAIN q = I
      BY <2>4
    <3> QED BY <2>4, <3>1, <3>2 DEF Injection, IsInjective
  <2>6. \A j \in J : \E i \in I : q[i] = j
    <3> SUFFICES ASSUME NEW j \in J PROVE \E i \in I : q[i] = j
      OBVIOUS
    <3>1. PICK i \in 1 .. n : p[i] = j
      BY <1>5, <2>2
    <3>2. i \in I
      BY <1>6, <2>1, <2>2, <3>1
    <3> QED BY <2>3, <3>1, <3>2
  <2>7. q \in Surjection(I, J)
    BY <2>4, <2>6 DEF Surjection
  <2>8. ExistsBijection(I, J)
    BY <2>5, <2>7 DEF ExistsBijection, Bijection
  <2>9. IsFiniteSet(I)
    BY <1>3, <2>1, FS_Subset
  <2>10. Cardinality(J) = Cardinality(I)
    BY <2>8, <2>9, FS_Bijection
  <2> QED BY <1>2, <1>7, <2>1, <2>2, <2>10
<1> QED BY <1>1, <1>7, <1>8 DEF List, SameTriangles
----------------------------------------------------------------------------
(* Whatever order the library takes the triangles of a mesh in, and wherever it *)
(* cuts them: the meshlets the engine makes of a mesh are described, every read *)
(* of the shader and of the copy to the GPU is inside the arrays, and the       *)
(* triangles emitted are those of the mesh (meshlet.cpp:126-165, meshlet.ixx:108, *)
(* meshlet_common.slang:117).                                                   *)
THEOREM MeshletsOfMesh ==
  ASSUME NEW mesh, GoodMesh(mesh), IsValidMesh(mesh),
         NEW p \in SetToSeqs(DOMAIN mesh.triangles), NEW order,
         order = [i \in DOMAIN mesh.triangles |-> mesh.triangles[p[i]]]
  PROVE  /\ IsValidMeshlets(GenerateMeshlets(mesh, order))
         /\ Len(GenerateMeshlets(mesh, order).meshlets) \in Nat \ {0}
         /\ ReadsInside(GenerateMeshlets(mesh, order))
         /\ PrimitiveIndexBufferSize(GenerateMeshlets(mesh, order))
              <= Len(GenerateMeshlets(mesh, order).primitiveIndices)
         /\ SameTriangles(ShaderTriangles(GenerateMeshlets(mesh, order)), mesh.triangles)
<1>1. List(order, Triangle) /\ Len(order) = Len(mesh.triangles) /\ SameTriangles(order, mesh.triangles)
  BY Reordered DEF GoodMesh
<1>2. PICK groups : groups = CutIntoGroups(order)
  OBVIOUS
<1>3. GoodGroups(groups) /\ Len(groups) > 0 /\ FlattenSeq(groups) = order
  BY <1>1, <1>2, Groups
<1>4. GenerateMeshlets(mesh, order) = DataOf(groups)
  BY <1>1, <1>2, Generated DEF DataOf
<1>5. IsValidMeshlets(DataOf(groups)) /\ Len(DataOf(groups).meshlets) \in Nat \ {0}
  <2>1. DataOf(groups).meshlets = Described(groups) /\ DataOf(groups).bounds = Len(groups)
    BY DEF DataOf
  <2>2. Len(Described(groups)) = Len(groups) /\ Len(Described(groups)) \in Nat \ {0}
    BY <1>3, DescribedMeshlets, WrittenLists
  <2>3. Described(groups) # <<>>
    BY <2>2
  <2> QED BY <2>1, <2>2, <2>3 DEF IsValidMeshlets
<1> QED BY <1>1, <1>3, <1>4, <1>5, DataReadable
=============================================================================

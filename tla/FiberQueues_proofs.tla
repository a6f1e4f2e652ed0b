------------------------- MODULE FiberQueues_proofs -------------------------
(***************************************************************************)
(* Proofs about where the fibers are, for every number of threads and      *)
(* fibers: a fiber is in one place at a time, a thread always has its      *)
(* dispatcher, and a fiber that requires a thread runs on no other.        *)
(***************************************************************************)
EXTENDS FiberAlgorithm_proofs, FiniteSetTheorems

-----------------------------------------------------------------------------
(* Queues *)

(* A context joins a queue. *)
LEMMA Joined ==
    ASSUME NEW S, NEW s \in Seq(S), NEW c \in S
    PROVE  /\ \A d : Contains(Append(s, c), d) <=> Contains(s, d) \/ d = c
           /\ IsInjective(s) /\ ~Contains(s, c) => IsInjective(Append(s, c))
<1> DEFINE r == Append(s, c)
<1>1. /\ Len(s) \in Nat /\ DOMAIN s = 1 .. Len(s)
      /\ Len(r) = Len(s) + 1 /\ DOMAIN r = 1 .. Len(s) + 1
      /\ \A i \in 1 .. Len(s) : r[i] = s[i]
      /\ r[Len(s) + 1] = c
  BY AppendProperties, LenProperties
<1> HIDE DEF r
<1>2. Len(s) + 1 \in 1 .. Len(s) + 1 /\ 1 .. Len(s) \subseteq 1 .. Len(s) + 1
  BY <1>1
<1>3. ASSUME NEW i \in 1 .. Len(s) + 1, i # Len(s) + 1
      PROVE  i \in 1 .. Len(s)
  BY <1>1, <1>3
<1>4. ASSUME NEW d
      PROVE  Contains(r, d) <=> Contains(s, d) \/ d = c
  BY <1>1, <1>2, <1>3 DEF Contains
<1>5. ASSUME IsInjective(s), ~Contains(s, c)
      PROVE  IsInjective(r)
  <2> SUFFICES ASSUME NEW i \in 1 .. Len(s) + 1, NEW j \in 1 .. Len(s) + 1, r[i] = r[j]
               PROVE  i = j
    BY <1>1 DEF IsInjective
  <2> QED BY <1>1, <1>3, <1>5 DEF IsInjective, Contains
<1> QED BY <1>4, <1>5 DEF r

(* The front leaves a queue. *)
LEMMA Left ==
    ASSUME NEW S, NEW s \in Seq(S), s # << >>, IsInjective(s)
    PROVE  /\ Contains(s, Head(s))
           /\ \A d : Contains(Tail(s), d) <=> Contains(s, d) /\ d # Head(s)
           /\ IsInjective(Tail(s))
<1> DEFINE r == Tail(s)
<1>1. /\ Len(s) \in Nat /\ DOMAIN s = 1 .. Len(s) /\ 1 \in 1 .. Len(s)
      /\ Len(r) = Len(s) - 1 /\ DOMAIN r = 1 .. Len(s) - 1
      /\ \A i \in 1 .. Len(s) - 1 : r[i] = s[i + 1]
      /\ Head(s) = s[1]
  <2>1. Len(s) \in Nat /\ DOMAIN s = 1 .. Len(s) /\ Len(s) # 0 /\ Head(s) = s[1]
    BY LenProperties, EmptySeq
  <2>2. Tail(s) \in Seq(S) /\ Len(r) = Len(s) - 1 /\ \A i \in 1 .. Len(r) : r[i] = s[i + 1]
    BY HeadTailProperties
  <2>3. DOMAIN r = 1 .. Len(r)
    BY <2>2, LenProperties
  <2> QED BY <2>1, <2>2, <2>3
<1> HIDE DEF r
<1>2. \A i \in 1 .. Len(s) - 1 : i + 1 \in 1 .. Len(s) /\ i + 1 # 1
  BY <1>1
<1>3. \A i \in 1 .. Len(s) : i # 1 => i - 1 \in 1 .. Len(s) - 1 /\ (i - 1) + 1 = i
  BY <1>1
<1>4. ASSUME NEW d
      PROVE  Contains(r, d) <=> Contains(s, d) /\ d # Head(s)
  <2>1. ASSUME NEW i \in 1 .. Len(s) - 1, r[i] = d
        PROVE  Contains(s, d) /\ d # Head(s)
    BY <1>1, <1>2, <2>1 DEF Contains, IsInjective
  <2>2. ASSUME NEW i \in 1 .. Len(s), s[i] = d, d # Head(s)
        PROVE  Contains(r, d)
    BY <1>1, <1>3, <2>2 DEF Contains
  <2> QED BY <1>1, <2>1, <2>2 DEF Contains
<1>5. IsInjective(r)
  <2> SUFFICES ASSUME NEW i \in 1 .. Len(s) - 1, NEW j \in 1 .. Len(s) - 1, r[i] = r[j]
               PROVE  i = j
    BY <1>1 DEF IsInjective
  <2>1. i + 1 = j + 1
    BY <1>1, <1>2 DEF IsInjective
  <2> QED BY <1>1, <2>1
<1>6. Contains(s, Head(s))
  BY <1>1 DEF Contains
<1> QED BY <1>4, <1>5, <1>6 DEF r

(* A context is taken out of a queue. *)
LEMMA TakenOut ==
    ASSUME NEW S, NEW s \in Seq(S), NEW i \in DOMAIN s, IsInjective(s)
    PROVE  /\ \A d : Contains(RemoveAt(s, i), d) <=> Contains(s, d) /\ d # s[i]
           /\ IsInjective(RemoveAt(s, i))
<1> DEFINE r == RemoveAt(s, i)
           n == Len(s) - 1
<1>1. Len(s) \in Nat /\ DOMAIN s = 1 .. Len(s) /\ i \in 1 .. Len(s)
  BY LenProperties
<1>2. /\ Len(r) = n /\ DOMAIN r = 1 .. n
      /\ \A j \in 1 .. n : r[j] = IF j < i THEN s[j] ELSE s[j + 1]
  <2> DEFINE a == SubSeq(s, 1, i - 1)
             b == SubSeq(s, i + 1, Len(s))
  <2>1. a \in Seq(S) /\ Len(a) = i - 1 /\ \A j \in 1 .. i - 1 : a[j] = s[j]
    <3>1. CASE i = 1
      BY <1>1, <3>1, SubSeqProperties
    <3>2. CASE i # 1
      BY <1>1, <3>2, SubSeqProperties
    <3> QED BY <3>1, <3>2
  <2>2. b \in Seq(S) /\ Len(b) = Len(s) - i /\ \A j \in 1 .. Len(s) - i : b[j] = s[i + j]
    <3>1. CASE i = Len(s)
      BY <1>1, <3>1, SubSeqProperties
    <3>2. CASE i # Len(s)
      BY <1>1, <3>2, SubSeqProperties
    <3> QED BY <3>1, <3>2
  <2> HIDE DEF a, b
  <2>3. /\ a \o b \in Seq(S) /\ Len(a \o b) = Len(a) + Len(b)
        /\ \A j \in 1 .. Len(a) + Len(b) : (a \o b)[j] = IF j <= Len(a) THEN a[j] ELSE b[j - Len(a)]
    BY <2>1, <2>2, ConcatProperties
  <2>4. r = a \o b
    BY DEF RemoveAt, a, b
  <2>5. Len(a) + Len(b) = n
    BY <1>1, <2>1, <2>2
  <2>6. DOMAIN r = 1 .. n /\ Len(r) = n
    BY <2>3, <2>4, <2>5, LenProperties
  <2>7. ASSUME NEW j \in 1 .. n
        PROVE  r[j] = IF j < i THEN s[j] ELSE s[j + 1]
    <3>1. r[j] = IF j <= Len(a) THEN a[j] ELSE b[j - Len(a)]
      BY <2>3, <2>4, <2>5
    <3>2. CASE j < i
      <4>1. j \in 1 .. i - 1 /\ j <= Len(a)
        BY <1>1, <2>1, <3>2
      <4> QED BY <2>1, <3>1, <3>2, <4>1
    <3>3. CASE ~(j < i)
      <4>1. j - Len(a) \in 1 .. Len(s) - i /\ ~(j <= Len(a)) /\ i + (j - Len(a)) = j + 1
        BY <1>1, <2>1, <3>3
      <4> QED BY <2>2, <3>1, <3>3, <4>1
    <3> QED BY <3>2, <3>3
  <2> QED BY <2>6, <2>7
<1> HIDE DEF r
<1>3. \A j \in 1 .. n :
        LET k == IF j < i THEN j ELSE j + 1 IN k \in 1 .. Len(s) /\ k # i /\ r[j] = s[k]
  BY <1>1, <1>2
<1>4. \A k \in 1 .. Len(s) : k # i => \E j \in 1 .. n : k = IF j < i THEN j ELSE j + 1
  <2> SUFFICES ASSUME NEW k \in 1 .. Len(s), k # i
               PROVE  \E j \in 1 .. n : k = IF j < i THEN j ELSE j + 1
    OBVIOUS
  <2>1. CASE k < i
    BY <1>1, <2>1
  <2>2. CASE k > i
    <3>1. k - 1 \in 1 .. n /\ ~(k - 1 < i) /\ (k - 1) + 1 = k
      BY <1>1, <2>2
    <3> QED BY <3>1
  <2> QED BY <1>1, <2>1, <2>2
<1>5. ASSUME NEW d
      PROVE  Contains(r, d) <=> Contains(s, d) /\ d # s[i]
  <2>1. ASSUME NEW j \in 1 .. n, r[j] = d
        PROVE  Contains(s, d) /\ d # s[i]
    BY <1>1, <1>3, <2>1 DEF Contains, IsInjective
  <2>2. ASSUME NEW k \in 1 .. Len(s), s[k] = d, d # s[i]
        PROVE  Contains(r, d)
    <3>1. PICK j \in 1 .. n : k = IF j < i THEN j ELSE j + 1
      BY <1>4, <2>2
    <3>2. r[j] = d
      BY <1>3, <2>2, <3>1
    <3> QED BY <1>2, <3>2 DEF Contains
  <2> QED BY <1>2, <2>1, <2>2 DEF Contains
<1>6. IsInjective(r)
  <2> SUFFICES ASSUME NEW j \in 1 .. n, NEW k \in 1 .. n, r[j] = r[k]
               PROVE  j = k
    BY <1>2 DEF IsInjective
  <2>1. (IF j < i THEN j ELSE j + 1) = (IF k < i THEN k ELSE k + 1)
    BY <1>1, <1>3 DEF IsInjective
  <2> QED BY <1>1, <2>1
<1> QED BY <1>5, <1>6 DEF r

(* Queues by thread and level, or by thread. *)
Family(S) == [Threads -> [Levels -> Seq(S)]]
Lists(S) == [Threads -> Seq(S)]

(* Queue p of thread t gets c, loses its front, or loses its entry i, and the *)
(* other queues of the family stay; so do lists by thread.                    *)
Joins(q, r, t, p, c) == \A u \in Threads, l \in Levels :
    r[u][l] = IF u = t /\ l = p THEN Append(q[t][p], c) ELSE q[u][l]
Leaves(q, r, t, p) == \A u \in Threads, l \in Levels :
    r[u][l] = IF u = t /\ l = p THEN Tail(q[t][p]) ELSE q[u][l]
IsTaken(q, r, t, p, i) == \A u \in Threads, l \in Levels :
    r[u][l] = IF u = t /\ l = p THEN RemoveAt(q[t][p], i) ELSE q[u][l]
JoinsList(q, r, t, c) == \A u \in Threads : r[u] = IF u = t THEN Append(q[t], c) ELSE q[u]
LeavesList(q, r, t) == \A u \in Threads : r[u] = IF u = t THEN Tail(q[t]) ELSE q[u]

(* A queue of a family changes, the others stay. *)
LEMMA FamilyJoined ==
    ASSUME NEW S, NEW q \in Family(S), NEW t \in Threads, NEW p \in Levels,
           NEW c \in S, NEW r, Joins(q, r, t, p, c)
    PROVE  /\ \A u \in Threads, l \in Levels : \A d :
                 Contains(r[u][l], d) <=> Contains(q[u][l], d) \/ (u = t /\ l = p /\ d = c)
           /\ (\A u \in Threads, l \in Levels : IsInjective(q[u][l])) /\ ~Contains(q[t][p], c) =>
                 \A u \in Threads, l \in Levels : IsInjective(r[u][l])
<1>1. q[t][p] \in Seq(S)
  BY DEF Family
<1>2. /\ \A d : Contains(Append(q[t][p], c), d) <=> Contains(q[t][p], d) \/ d = c
      /\ IsInjective(q[t][p]) /\ ~Contains(q[t][p], c) => IsInjective(Append(q[t][p], c))
  BY <1>1, Joined
<1> QED BY <1>2 DEF Joins

LEMMA FamilyLeft ==
    ASSUME NEW S, NEW q \in Family(S), NEW t \in Threads, NEW p \in Levels,
           q[t][p] # << >>, \A u \in Threads, l \in Levels : IsInjective(q[u][l]),
           NEW r, Leaves(q, r, t, p)
    PROVE  /\ Contains(q[t][p], Head(q[t][p]))
           /\ \A u \in Threads, l \in Levels : \A d :
                 Contains(r[u][l], d) <=>
                    Contains(q[u][l], d) /\ ~(u = t /\ l = p /\ d = Head(q[t][p]))
           /\ \A u \in Threads, l \in Levels : IsInjective(r[u][l])
<1>1. q[t][p] \in Seq(S)
  BY DEF Family
<1>2. /\ Contains(q[t][p], Head(q[t][p]))
      /\ \A d : Contains(Tail(q[t][p]), d) <=> Contains(q[t][p], d) /\ d # Head(q[t][p])
      /\ IsInjective(Tail(q[t][p]))
  BY <1>1, Left
<1> QED BY <1>2 DEF Leaves

LEMMA FamilyTakenOut ==
    ASSUME NEW S, NEW q \in Family(S), NEW t \in Threads, NEW p \in Levels,
           NEW i \in DOMAIN q[t][p], \A u \in Threads, l \in Levels : IsInjective(q[u][l]),
           NEW r, IsTaken(q, r, t, p, i)
    PROVE  /\ \A u \in Threads, l \in Levels : \A d :
                 Contains(r[u][l], d) <=>
                    Contains(q[u][l], d) /\ ~(u = t /\ l = p /\ d = q[t][p][i])
           /\ \A u \in Threads, l \in Levels : IsInjective(r[u][l])
<1>1. q[t][p] \in Seq(S)
  BY DEF Family
<1>2. /\ \A d : Contains(RemoveAt(q[t][p], i), d) <=> Contains(q[t][p], d) /\ d # q[t][p][i]
      /\ IsInjective(RemoveAt(q[t][p], i))
  BY <1>1, TakenOut
<1> QED BY <1>2 DEF IsTaken

-----------------------------------------------------------------------------
(* The inductive invariant *)

(* Where a fiber can be: in a queue, in the hand of a thread, or between two  *)
(* queues as it is launched.  Only queues have levels.                        *)
Kinds == {"local", "shared", "remote", "drained", "hand", "push"}

At(f, k, t, p) ==
    \/ k = "local" /\ Contains(local[t][p], f)
    \/ k = "shared" /\ Contains(shared[t][p], f)
    \/ k = "remote" /\ p = UX /\ Contains(remote[t], f)
    \/ k = "drained" /\ p = UX /\ Contains(drained[t], f)
    \/ k = "hand" /\ p = UX /\ f \in {running[t], yielded[t]}
    \/ k = "push" /\ p = UX /\ pc[t] = "push" /\ job[t] = f

OnePlace(f) ==
    \A k, l \in Kinds, t, u \in Threads, p, q \in Levels :
        At(f, k, t, p) /\ At(f, l, u, q) => k = l /\ t = u /\ p = q

Nowhere(f) == \A k \in Kinds, t \in Threads, p \in Levels : ~At(f, k, t, p)

Alive == {"ready", "running"}

(* No queue holds a context twice. *)
QueuesInjective ==
    /\ \A t \in Threads, p \in Levels : IsInjective(local[t][p])
    /\ \A t \in Threads, p \in Levels : IsInjective(shared[t][p])
    /\ \A t \in Threads : IsInjective(remote[t])
    /\ \A t \in Threads : IsInjective(drained[t])

(* No fiber is in two places, and one that is not ready or running is in none. *)
Spots ==
    \A f \in Fibers :
        /\ OnePlace(f)
        /\ status[f] \notin Alive => Nowhere(f)

(* A fiber runs where it was last resumed. *)
RunsAtHome ==
    \A t \in Threads : running[t] \in Fibers =>
        status[running[t]] = "running" /\ home[running[t]] = t

(* A fiber being launched is in the queue it was awakened into. *)
Launches ==
    /\ \A f \in Fibers : status[f] = "new" => props[f] = Default
    /\ \A t \in Threads :
          /\ pc[t] = "properties" => wanted[t] \in Parameters /\ props[job[t]] = Default
          /\ pc[t] \in {"unlink", "push"} => props[job[t]] \in Parameters
          /\ pc[t] \in {"properties", "unlink"} => Contains(local[t][HIGH], job[t])

(* The dispatcher of a thread that has registered is ready or runs. *)
DispatchOf(t) ==
    pc[t] # "crashed" =>
        /\ \A p \in Levels : Contains(local[t][p], Dispatcher) => p = HIGH
        /\ Contains(local[t][HIGH], Dispatcher) =>
              running[t] # Dispatcher /\ yielded[t] # Dispatcher
        /\ t \in registered =>
              \/ Contains(local[t][HIGH], Dispatcher)
              \/ running[t] = Dispatcher
              \/ yielded[t] = Dispatcher
        /\ pc[t] = "start" <=> t \notin registered
        /\ pc[t] = "start" => running[t] = NoFiber /\ ~Contains(local[t][HIGH], Dispatcher)
        /\ pc[t] = "pick" => running[t] = NoFiber
        /\ yielded[t] # NoFiber => pc[t] = "pick"
        /\ pc[t] \in {"drain", "awaken", "suspend", "sleep"} => running[t] = Dispatcher
        /\ pc[t] = "pick" /\ scan[t] > 2 * HIGH => ~Contains(local[t][HIGH], Dispatcher)

Dispatching ==
    /\ \A t \in Threads : DispatchOf(t)
    /\ \A t, u \in Threads : pc[t] = "crashed" => pc[u] = "crashed"

(* A fiber that requires a thread is with that thread, but for the moment its *)
(* launcher takes to move it there.                                           *)
BoundOf(f) ==
    Required(f) # AnyThread =>
        /\ \A k \in Kinds, t \in Threads, p \in Levels : At(f, k, t, p) =>
              \/ k \in {"local", "remote", "drained", "hand"} /\ t = Required(f)
              \/ k = "local" /\ pc[t] \in {"unlink", "crashed"} /\ job[t] = f
              \/ k = "push"
        /\ status[f] \in {"blocked", "timed", "due"} => home[f] = Required(f)

Bound == \A f \in Fibers : BoundOf(f)

Placed ==
    /\ QueuesInjective
    /\ Spots
    /\ RunsAtHome
    /\ Launches
    /\ Dispatching
    /\ Bound

PlaceInv == TypeInv /\ Placed

(* A fiber that is ready or runs is somewhere. *)
Present ==
    /\ \A t \in Threads : pc[t] # "crashed" /\ drained[t] # << >> => pc[t] = "awaken"
    /\ pc[MainThread] # "crashed" => \A f \in Fibers : status[f] \in Alive => ~Nowhere(f)

-----------------------------------------------------------------------------
(* What a step that moves fibers has to show *)

LEMMA PlaceTypes ==
    ASSUME TypeInv
    PROVE  /\ registered \subseteq Threads
           /\ local \in Family(Contexts) /\ shared \in Family(Fibers)
           /\ remote \in Lists(Fibers) /\ drained \in Lists(Fibers)
           /\ props \in [Fibers -> Levels \X (Threads \cup {AnyThread})]
           /\ status \in [Fibers -> Statuses]
           /\ home \in [Fibers -> Threads]
           /\ pc \in [Threads -> Labels]
           /\ running \in [Threads -> Contexts \cup {NoFiber}]
           /\ yielded \in [Threads -> Contexts \cup {NoFiber}]
           /\ scan \in [Threads -> 0 .. ScanEnd]
           /\ job \in [Threads -> Fibers \cup {NoFiber}]
           /\ target \in [Threads -> Threads]
           /\ wanted \in [Threads -> Levels \X (Threads \cup {AnyThread})]
           /\ \A f \in Fibers : Priority(f) \in Levels
           /\ Dispatcher \notin Fibers /\ NoFiber \notin Contexts /\ Fibers \subseteq Contexts
           /\ Dispatcher \in Contexts /\ Priority(Dispatcher) = HIGH
           /\ UX \in Levels /\ HIGH \in Levels /\ MainThread \in Threads
<1>1. \A f \in Fibers : Priority(f) \in Levels
  BY FibersAssumption DEF TypeInv, TypeOK, Priority
<1> QED BY <1>1, FibersAssumption, ThreadsAssumption DEF TypeInv, TypeOK, Contexts, Levels, Priority, Family, Lists

(* The places of a fiber, queue by queue. *)
LEMMA AtPlaces ==
    ASSUME NEW f \in Fibers, NEW t \in Threads, NEW p \in Levels
    PROVE  /\ At(f, "local", t, p) <=> Contains(local[t][p], f)
           /\ At(f, "shared", t, p) <=> Contains(shared[t][p], f)
           /\ At(f, "remote", t, p) <=> p = UX /\ Contains(remote[t], f)
           /\ At(f, "drained", t, p) <=> p = UX /\ Contains(drained[t], f)
           /\ At(f, "hand", t, p) <=> p = UX /\ f \in {running[t], yielded[t]}
           /\ At(f, "push", t, p) <=> p = UX /\ pc[t] = "push" /\ job[t] = f
BY DEF At

(* A step may leave a fiber where it is, or let it land in one place. *)
Stays(f) ==
    /\ status'[f] \notin Alive => status[f] \notin Alive
    /\ \A k \in Kinds, t \in Threads, p \in Levels : At(f, k, t, p)' => At(f, k, t, p)
LandsIn(f, l, u, q) ==
    \A k \in Kinds, t \in Threads, p \in Levels : At(f, k, t, p)' => k = l /\ t = u /\ p = q
Lands(f) ==
    \/ Nowhere(f)'
    \/ /\ status'[f] \in Alive
       /\ \E l \in Kinds, u \in Threads, q \in Levels : LandsIn(f, l, u, q)

LEMMA SpotsKept ==
    ASSUME Spots, \A f \in Fibers : Stays(f) \/ Lands(f)
    PROVE  Spots'
<1> SUFFICES ASSUME NEW f \in Fibers
             PROVE  OnePlace(f)' /\ (status'[f] \notin Alive => Nowhere(f)')
  BY DEF Spots
<1>1. CASE Stays(f)
  <2>1. OnePlace(f)'
    BY <1>1 DEF Spots, OnePlace, Stays
  <2>2. status'[f] \notin Alive => Nowhere(f)'
    BY <1>1 DEF Spots, Nowhere, Stays
  <2> QED BY <2>1, <2>2
<1>2. CASE Nowhere(f)'
  BY <1>2 DEF Nowhere, OnePlace
<1>3. ASSUME status'[f] \in Alive,
             NEW l \in Kinds, NEW u \in Threads, NEW q \in Levels, LandsIn(f, l, u, q)
      PROVE  OnePlace(f)'
  BY <1>3 DEF OnePlace, LandsIn
<1> QED BY <1>1, <1>2, <1>3 DEF Lands

(* Nor may it lose a fiber that is ready or runs. *)
Remains(f) ==
    /\ status'[f] \in Alive => status[f] \in Alive
    /\ \A k \in Kinds, t \in Threads, p \in Levels : At(f, k, t, p) => At(f, k, t, p)'
Arrives(f) ==
    \/ status'[f] \notin Alive
    \/ \E k \in Kinds, t \in Threads, p \in Levels : At(f, k, t, p)'

LEMMA PresentKept ==
    ASSUME Present, pc'[MainThread] # "crashed" => pc[MainThread] # "crashed",
           \A t \in Threads : pc'[t] # "crashed" /\ drained'[t] # << >> => pc'[t] = "awaken",
           \A f \in Fibers : Remains(f) \/ Arrives(f)
    PROVE  Present'
<1> SUFFICES ASSUME NEW f \in Fibers, pc'[MainThread] # "crashed", status'[f] \in Alive
             PROVE  ~Nowhere(f)'
  BY DEF Present
<1>1. CASE Remains(f)
  <2>1. ~Nowhere(f)
    BY <1>1 DEF Present, Remains
  <2> QED BY <1>1, <2>1 DEF Nowhere, Remains
<1>2. CASE Arrives(f)
  BY <1>2 DEF Nowhere, Arrives
<1> QED BY <1>1, <1>2

(* A thread that does nothing keeps its dispatcher. *)
LEMMA DispatchKept ==
    ASSUME NEW t \in Threads, DispatchOf(t),
           \/ pc'[t] = pc[t]
           \/ pc[t] \in {"sleep", "suspend"} /\ pc'[t] \in {"sleep", "suspend"},
           running'[t] = running[t], yielded'[t] = yielded[t], scan'[t] = scan[t],
           t \in registered' <=> t \in registered,
           \A p \in Levels : Contains(local'[t][p], Dispatcher) <=> Contains(local[t][p], Dispatcher)
    PROVE  DispatchOf(t)'
<1>1. HIGH \in Levels
  BY DEF Levels
<1> QED BY <1>1 DEF DispatchOf

(* A fiber that does not move stays where it must be. *)
LEMMA BoundKept ==
    ASSUME NEW f \in Fibers, BoundOf(f), props'[f] = props[f],
           status'[f] = status[f], home'[f] = home[f],
           \A k \in Kinds, t \in Threads, p \in Levels : At(f, k, t, p)' => At(f, k, t, p),
           \A t \in Threads : pc[t] \in {"unlink", "crashed"} /\ job[t] = f =>
               pc'[t] \in {"unlink", "crashed"} /\ job'[t] = f
    PROVE  BoundOf(f)'
<1>1. Required(f)' = Required(f)
  BY DEF Required
<1> QED BY <1>1 DEF BoundOf

(* Awakening a context. *)
LEMMA Awakened ==
    ASSUME TypeInv, QueuesInjective, NEW t \in Threads, NEW c \in Contexts, local' = Awaken(t, c)
    PROVE  /\ Priority(c) \in Levels
           /\ \A u \in Threads, p \in Levels : \A d :
                 Contains(local'[u][p], d) <=>
                    Contains(local[u][p], d) \/ (u = t /\ p = Priority(c) /\ d = c)
           /\ ~Contains(local[t][Priority(c)], c) =>
                 \A u \in Threads, p \in Levels : IsInjective(local'[u][p])
<1>1. local \in Family(Contexts) /\ Priority(c) \in Levels
  BY PlaceTypes DEF Contexts
<1>2. PICK l \in Levels : l = Priority(c)
  BY <1>1
<1>3. Joins(local, local', t, l, c)
  BY <1>1, <1>2 DEF Awaken, Joins, Family
<1>4. \A u \in Threads, p \in Levels : IsInjective(local[u][p])
  BY DEF QueuesInjective
<1>5. \A u \in Threads, p \in Levels : \A d :
        Contains(local'[u][p], d) <=> Contains(local[u][p], d) \/ (u = t /\ p = l /\ d = c)
  BY <1>1, <1>3, FamilyJoined
<1>6. ~Contains(local[t][l], c) => \A u \in Threads, p \in Levels : IsInjective(local'[u][p])
  BY <1>1, <1>3, <1>4, FamilyJoined
<1> QED BY <1>1, <1>2, <1>5, <1>6

(* A list of fibers by thread gets one more, or loses its first. *)
LEMMA ListJoined ==
    ASSUME NEW S, NEW q \in Lists(S), NEW t \in Threads, NEW c \in S,
           NEW r, JoinsList(q, r, t, c)
    PROVE  /\ \A u \in Threads : \A d : Contains(r[u], d) <=> Contains(q[u], d) \/ (u = t /\ d = c)
           /\ (\A u \in Threads : IsInjective(q[u])) /\ ~Contains(q[t], c) =>
                 \A u \in Threads : IsInjective(r[u])
<1> QED BY Joined DEF JoinsList, Lists

LEMMA ListLeft ==
    ASSUME NEW S, NEW q \in Lists(S), NEW t \in Threads,
           q[t] # << >>, \A u \in Threads : IsInjective(q[u]),
           NEW r, LeavesList(q, r, t)
    PROVE  /\ Contains(q[t], Head(q[t]))
           /\ \A u \in Threads : \A d : Contains(r[u], d) <=> Contains(q[u], d) /\ ~(u = t /\ d = Head(q[t]))
           /\ \A u \in Threads : IsInjective(r[u])
<1> QED BY Left DEF LeavesList, Lists

(* FamilyJoined, in a form that names its instance. *)
Gains(q, r, t, p, c) == \A u \in Threads, l \in Levels : \A d :
    Contains(r[u][l], d) <=> Contains(q[u][l], d) \/ (u = t /\ l = p /\ d = c)

LEMMA FamilyGains ==
    ASSUME NEW S, NEW q \in Family(S), NEW t \in Threads, NEW p \in Levels,
           NEW c \in S, NEW r, Joins(q, r, t, p, c)
    PROVE  Gains(q, r, t, p, c)
BY FamilyJoined DEF Gains

LEMMA NothingIn ==
    ASSUME NEW c
    PROVE  ~Contains(<< >>, c) /\ IsInjective(<< >>)
BY DEF Contains, IsInjective

(* Where a fiber that is somewhere is not. *)
LEMMA OnlyThere ==
    ASSUME Spots, NEW f \in Fibers, NEW l \in Kinds, NEW v \in Threads, NEW q \in Levels,
           At(f, l, v, q)
    PROVE  /\ \A k \in Kinds, u \in Threads, p \in Levels : At(f, k, u, p) <=> k = l /\ u = v /\ p = q
           /\ \A u \in Threads, p \in Levels : Contains(local[u][p], f) <=> l = "local" /\ u = v /\ p = q
           /\ \A u \in Threads, p \in Levels : Contains(shared[u][p], f) <=> l = "shared" /\ u = v /\ p = q
           /\ \A u \in Threads : Contains(remote[u], f) <=> l = "remote" /\ u = v
           /\ \A u \in Threads : Contains(drained[u], f) <=> l = "drained" /\ u = v
           /\ \A u \in Threads : f \in {running[u], yielded[u]} <=> l = "hand" /\ u = v
           /\ \A u \in Threads : pc[u] = "push" /\ job[u] = f <=> l = "push" /\ u = v
           /\ status[f] \in Alive
<1>1. \A k \in Kinds, u \in Threads, p \in Levels : At(f, k, u, p) <=> k = l /\ u = v /\ p = q
  BY DEF Spots, OnePlace
<1>2. /\ UX \in Levels
      /\ "local" \in Kinds /\ "shared" \in Kinds /\ "remote" \in Kinds
      /\ "drained" \in Kinds /\ "hand" \in Kinds /\ "push" \in Kinds
  BY DEF Levels, Kinds
<1>3. l \in {"remote", "drained", "hand", "push"} => q = UX
  BY DEF At
<1>4. \A u \in Threads, p \in Levels : Contains(local[u][p], f) <=> l = "local" /\ u = v /\ p = q
  BY <1>1, <1>2, AtPlaces
<1>5. \A u \in Threads, p \in Levels : Contains(shared[u][p], f) <=> l = "shared" /\ u = v /\ p = q
  BY <1>1, <1>2, AtPlaces
<1>6. \A u \in Threads : Contains(remote[u], f) <=> l = "remote" /\ u = v
  BY <1>1, <1>2, <1>3, AtPlaces
<1>7. \A u \in Threads : Contains(drained[u], f) <=> l = "drained" /\ u = v
  BY <1>1, <1>2, <1>3, AtPlaces
<1>8. \A u \in Threads : f \in {running[u], yielded[u]} <=> l = "hand" /\ u = v
  BY <1>1, <1>2, <1>3, AtPlaces
<1>9. \A u \in Threads : pc[u] = "push" /\ job[u] = f <=> l = "push" /\ u = v
  BY <1>1, <1>2, <1>3, AtPlaces
<1>10. status[f] \in Alive
  BY DEF Spots, Nowhere
<1> QED BY <1>1, <1>4, <1>5, <1>6, <1>7, <1>8, <1>9, <1>10

LEMMA NotThere ==
    ASSUME NEW f \in Fibers, Nowhere(f)
    PROVE  /\ \A u \in Threads, p \in Levels : ~Contains(local[u][p], f) /\ ~Contains(shared[u][p], f)
           /\ \A u \in Threads :
                 /\ ~Contains(remote[u], f) /\ ~Contains(drained[u], f)
                 /\ f \notin {running[u], yielded[u]}
                 /\ ~(pc[u] = "push" /\ job[u] = f)
<1>1. /\ UX \in Levels
      /\ "local" \in Kinds /\ "shared" \in Kinds /\ "remote" \in Kinds
      /\ "drained" \in Kinds /\ "hand" \in Kinds /\ "push" \in Kinds
  BY DEF Levels, Kinds
<1>2. \A u \in Threads, p \in Levels : ~Contains(local[u][p], f) /\ ~Contains(shared[u][p], f)
  BY <1>1, AtPlaces DEF Nowhere
<1>3. ASSUME NEW u \in Threads
      PROVE  /\ ~Contains(remote[u], f) /\ ~Contains(drained[u], f)
             /\ f \notin {running[u], yielded[u]}
             /\ ~(pc[u] = "push" /\ job[u] = f)
  BY <1>1, AtPlaces DEF Nowhere
<1> QED BY <1>2, <1>3

(* The context in a thread's hand. *)
LEMMA Running ==
    ASSUME PlaceInv, NEW t \in Threads, pc[t] = "run"
    PROVE  /\ running[t] \in Fibers /\ yielded[t] = NoFiber
           /\ At(running[t], "hand", t, UX)
           /\ status[running[t]] = "running" /\ home[running[t]] = t
           /\ Required(running[t]) # AnyThread => Required(running[t]) = t
<1>1. running[t] \in Fibers
  BY DEF PlaceInv, TypeInv, Handed
<1>2. yielded[t] = NoFiber
  BY DEF PlaceInv, Placed, Dispatching, DispatchOf
<1>3. "hand" \in Kinds /\ UX \in Levels
  BY DEF Kinds, Levels
<1>4. At(running[t], "hand", t, UX)
  BY DEF At
<1>5. Required(running[t]) # AnyThread => Required(running[t]) = t
  BY <1>1, <1>3, <1>4 DEF PlaceInv, Placed, Bound, BoundOf
<1>6. status[running[t]] = "running" /\ home[running[t]] = t
  BY <1>1 DEF PlaceInv, Placed, RunsAtHome
<1> QED BY <1>1, <1>2, <1>4, <1>5, <1>6

-----------------------------------------------------------------------------
(* Launching *)

(* Each lemma named after an action shows that a step of it keeps Placed and, *)
(* but for a push that is lost, Present: no fiber is doubled, none is lost.   *)
LEMMA PostPlaces ==
    ASSUME PlaceInv, NEW t \in Threads, NEW f \in Fibers, NEW w \in Parameters, Post(t, f, w)
    PROVE  Placed' /\ (Present => Present')
<1> USE DEF PlaceInv, Placed
<1>1. /\ pc[t] = "run" /\ status[f] = "new"
      /\ pc' = [pc EXCEPT ![t] = "properties"]
      /\ job' = [job EXCEPT ![t] = f] /\ wanted' = [wanted EXCEPT ![t] = w]
      /\ status' = [status EXCEPT ![f] = "ready"] /\ home' = [home EXCEPT ![f] = t]
      /\ local' = Awaken(t, f)
      /\ UNCHANGED <<registered, shared, remote, drained, props, running, yielded, scan>>
  BY DEF Post, Goto, pickVars
<1>2. /\ Nowhere(f) /\ props[f] = Default /\ Priority(f) = HIGH /\ Required(f) = AnyThread
  <2>1. Nowhere(f)
    BY <1>1 DEF Spots, Alive
  <2>2. props[f] = Default
    BY <1>1 DEF Launches
  <2> QED BY <2>1, <2>2, FibersAssumption DEF Priority, Required, Default
<1>3. \A u \in Threads, p \in Levels : \A d :
        Contains(local'[u][p], d) <=> Contains(local[u][p], d) \/ (u = t /\ p = HIGH /\ d = f)
  <2>1. f \in Contexts
    BY PlaceTypes
  <2>2. \A u \in Threads, p \in Levels : \A d :
          Contains(local'[u][p], d) <=> Contains(local[u][p], d) \/ (u = t /\ p = Priority(f) /\ d = f)
    BY <1>1, <2>1, Awakened
  <2> QED BY <1>2, <2>2
<1>4. \A u \in Threads : pc'[u] = IF u = t THEN "properties" ELSE pc[u]
  BY <1>1, PlaceTypes
<1>5. \A u \in Threads : job'[u] = IF u = t THEN f ELSE job[u]
  BY <1>1, PlaceTypes
<1>6. \A g \in Fibers : status'[g] = (IF g = f THEN "ready" ELSE status[g])
                     /\ home'[g] = (IF g = f THEN t ELSE home[g])
  BY <1>1, PlaceTypes
<1>7. \A g \in Fibers, k \in Kinds, u \in Threads, p \in Levels :
        At(g, k, u, p)' <=> At(g, k, u, p) \/ (g = f /\ k = "local" /\ u = t /\ p = HIGH)
  BY <1>1, <1>3, <1>4, <1>5 DEF At
<1>8. QueuesInjective'
  <2>1. ~Contains(local[t][HIGH], f)
    BY <1>2, PlaceTypes DEF Nowhere, At, Kinds
  <2>2. \A u \in Threads, p \in Levels : IsInjective(local'[u][p])
    BY <1>1, <1>2, <2>1, PlaceTypes, Awakened
  <2> QED BY <1>1, <2>2 DEF QueuesInjective
<1>9. Spots'
  <2>1. \A k \in Kinds, u \in Threads, p \in Levels :
          At(f, k, u, p)' => k = "local" /\ u = t /\ p = HIGH
    BY <1>2, <1>7 DEF Nowhere
  <2>2. status'[f] \in Alive /\ "local" \in Kinds /\ HIGH \in Levels
    BY <1>6 DEF Alive, Kinds, Levels
  <2>3. \A g \in Fibers : g # f => Stays(g)
    BY <1>6, <1>7 DEF Stays
  <2>4. Lands(f)
    BY <2>1, <2>2 DEF Lands, LandsIn
  <2> QED BY <2>3, <2>4, SpotsKept
<1>10. RunsAtHome'
  BY <1>1, <1>6 DEF RunsAtHome
<1>11. Launches'
  <2>1. \A g \in Fibers : status'[g] = "new" => props'[g] = Default
    BY <1>1, <1>6 DEF Launches
  <2>2. ASSUME NEW u \in Threads
        PROVE  /\ pc'[u] = "properties" => wanted'[u] \in Parameters /\ props'[job'[u]] = Default
               /\ pc'[u] \in {"unlink", "push"} => props'[job'[u]] \in Parameters
               /\ pc'[u] \in {"properties", "unlink"} => Contains(local'[u][HIGH], job'[u])
    <3>1. CASE u = t
      <4>1. wanted'[u] = w /\ props'[job'[u]] = Default /\ pc'[u] = "properties"
        BY <1>1, <1>2, <1>4, <1>5, <3>1, PlaceTypes
      <4>2. Contains(local'[u][HIGH], job'[u])
        BY <1>3, <1>5, <3>1, PlaceTypes
      <4> QED BY <4>1, <4>2
    <3>2. CASE u # t
      BY <1>1, <1>3, <1>4, <1>5, <3>2, PlaceTypes DEF Launches
    <3> QED BY <3>1, <3>2
  <2> QED BY <2>1, <2>2 DEF Launches
<1>12. Dispatching'
  <2>1. \A u \in Threads, p \in Levels : Contains(local'[u][p], Dispatcher) <=> Contains(local[u][p], Dispatcher)
    BY <1>3, PlaceTypes
  <2>2. ASSUME NEW u \in Threads, u # t
        PROVE  DispatchOf(u)'
    BY <1>1, <1>4, <2>1, <2>2, DispatchKept DEF Dispatching
  <2>3. DispatchOf(t)'
    BY <1>1, <1>4, <2>1, PlaceTypes DEF Dispatching, DispatchOf
  <2>4. \A u, v \in Threads : pc'[u] = "crashed" => pc'[v] = "crashed"
    BY <1>1, <1>4 DEF Dispatching
  <2> QED BY <2>2, <2>3, <2>4 DEF Dispatching
<1>13. Bound'
  <2>1. BoundOf(f)'
    <3>1. Required(f)' = AnyThread
      BY <1>1, <1>2 DEF Required
    <3> QED BY <3>1 DEF BoundOf
  <2>2. ASSUME NEW g \in Fibers, g # f
        PROVE  BoundOf(g)'
    BY <1>1, <1>4, <1>5, <1>6, <1>7, <2>2, BoundKept DEF Bound
  <2> QED BY <2>1, <2>2 DEF Bound
<1>14. Present => Present'
  <2> SUFFICES ASSUME Present
               PROVE  Present'
    OBVIOUS
  <2>1. pc'[MainThread] # "crashed" => pc[MainThread] # "crashed"
    BY <1>4, <1>1, PlaceTypes
  <2>2. \A u \in Threads : pc'[u] # "crashed" /\ drained'[u] # << >> => pc'[u] = "awaken"
    BY <1>1, <1>4 DEF Present
  <2>3. \E k \in Kinds, u \in Threads, p \in Levels : At(f, k, u, p)'
    BY <1>7, PlaceTypes DEF Kinds
  <2>4. \A g \in Fibers : Remains(g) \/ Arrives(g)
    BY <1>6, <1>7, <2>3 DEF Remains, Arrives
  <2> QED BY <2>1, <2>2, <2>3, <2>4, PresentKept
<1> QED BY <1>8, <1>9, <1>10, <1>11, <1>12, <1>13, <1>14

LEMMA DispatchPlaces ==
    ASSUME PlaceInv, NEW t \in Threads, NEW f \in Fibers, Dispatch(t, f)
    PROVE  Placed' /\ (Present => Present')
<1> USE DEF PlaceInv, Placed
<1>1. PICK c \in Fibers : c = running[t]
  BY Running DEF Dispatch
<1>2. /\ pc[t] = "run" /\ status[f] = "new" /\ yielded[t] = NoFiber
      /\ status[c] = "running" /\ home[c] = t /\ c # f
      /\ Required(c) # AnyThread => Required(c) = t
      /\ At(c, "hand", t, UX)
  BY <1>1, Running DEF Dispatch
<1>3. /\ status' = [status EXCEPT ![f] = "running", ![c] = "ready"] /\ home' = [home EXCEPT ![f] = t]
      /\ local' = Awaken(t, c)
      /\ running' = [running EXCEPT ![t] = f]
      /\ UNCHANGED <<registered, shared, remote, drained, props, pc, yielded, scan, job, wanted>>
  BY <1>1 DEF Dispatch, launchVars
<1>4. Nowhere(f) /\ Required(f) = AnyThread
  BY <1>2, FibersAssumption DEF Spots, Alive, Launches, Required, Default
<1>5. c \in Contexts /\ "hand" \in Kinds /\ "local" \in Kinds /\ UX \in Levels /\ Priority(c) \in Levels
  BY PlaceTypes DEF Kinds
<1>6. \A u \in Threads, p \in Levels : \A d :
        Contains(local'[u][p], d) <=> Contains(local[u][p], d) \/ (u = t /\ p = Priority(c) /\ d = c)
  BY <1>3, <1>5, Awakened
<1>7. \A u \in Threads : running'[u] = IF u = t THEN f ELSE running[u]
  BY <1>3, PlaceTypes
<1>8. \A g \in Fibers :
        /\ status'[g] = IF g = c THEN "ready" ELSE IF g = f THEN "running" ELSE status[g]
        /\ home'[g] = IF g = f THEN t ELSE home[g]
  BY <1>2, <1>3, PlaceTypes
<1>9. ASSUME NEW g \in Fibers, NEW k \in Kinds, NEW u \in Threads, NEW p \in Levels
      PROVE  At(g, k, u, p)' <=> IF g = f THEN k = "hand" /\ u = t /\ p = UX
                                 ELSE IF g = c THEN k = "local" /\ u = t /\ p = Priority(c)
                                 ELSE At(g, k, u, p)
  <2>1. CASE g = f
    <3>1. /\ \A v \in Threads, q \in Levels : ~Contains(local[v][q], f) /\ ~Contains(shared[v][q], f)
          /\ \A v \in Threads :
                /\ ~Contains(remote[v], f) /\ ~Contains(drained[v], f)
                /\ f \notin {running[v], yielded[v]}
                /\ ~(pc[v] = "push" /\ job[v] = f)
      BY <1>4, NotThere
    <3> QED BY <1>2, <1>3, <1>6, <1>7, <2>1, <3>1 DEF At
  <2>2. CASE g = c
    <3>1. /\ \A v \in Threads, q \in Levels : ~Contains(local[v][q], c) /\ ~Contains(shared[v][q], c)
          /\ \A v \in Threads :
                /\ ~Contains(remote[v], c) /\ ~Contains(drained[v], c)
                /\ c \in {running[v], yielded[v]} <=> v = t
                /\ ~(pc[v] = "push" /\ job[v] = c)
      BY <1>2, <1>5, OnlyThere
    <3>2. c # NoFiber
      BY FibersAssumption
    <3> QED BY <1>2, <1>3, <1>6, <1>7, <2>2, <3>1, <3>2 DEF At
  <2>3. CASE g # f /\ g # c
    BY <1>1, <1>2, <1>3, <1>6, <1>7, <2>3, PlaceTypes DEF At
  <2> QED BY <2>1, <2>2, <2>3
<1>10. QueuesInjective'
  <2>1. ~Contains(local[t][Priority(c)], c)
    BY <1>2, <1>5, OnlyThere
  <2>2. \A u \in Threads, p \in Levels : IsInjective(local'[u][p])
    BY <1>3, <1>5, <2>1, Awakened
  <2> QED BY <1>3, <2>2 DEF QueuesInjective
<1>11. Spots'
  <2>1. \A g \in Fibers : g # f /\ g # c => Stays(g)
    BY <1>8, <1>9 DEF Stays
  <2>2. Lands(f)
    BY <1>2, <1>5, <1>8, <1>9 DEF Lands, LandsIn, Alive
  <2>3. Lands(c)
    BY <1>2, <1>5, <1>8, <1>9 DEF Lands, LandsIn, Alive
  <2> QED BY <2>1, <2>2, <2>3, SpotsKept
<1>12. RunsAtHome'
  <2> SUFFICES ASSUME NEW u \in Threads, running'[u] \in Fibers
               PROVE  status'[running'[u]] = "running" /\ home'[running'[u]] = u
    BY DEF RunsAtHome
  <2>1. CASE u = t
    BY <1>2, <1>7, <1>8, <2>1
  <2>2. CASE u # t
    <3>1. running[u] # c /\ running[u] # f
      BY <1>2, <1>5, <1>4, <2>2, OnlyThere, NotThere
    <3> QED BY <1>7, <1>8, <2>2, <3>1 DEF RunsAtHome
  <2> QED BY <2>1, <2>2
<1>13. Launches'
  <2>1. \A g \in Fibers : status'[g] = "new" => props'[g] = Default
    BY <1>3, <1>8 DEF Launches
  <2>2. \A u \in Threads : Contains(local[u][HIGH], job[u]) => Contains(local'[u][HIGH], job[u])
    BY <1>6, PlaceTypes
  <2> QED BY <1>3, <2>1, <2>2 DEF Launches
<1>14. Dispatching'
  <2>1. \A u \in Threads, p \in Levels : Contains(local'[u][p], Dispatcher) <=> Contains(local[u][p], Dispatcher)
    BY <1>6, PlaceTypes
  <2>2. ASSUME NEW u \in Threads, u # t
        PROVE  DispatchOf(u)'
    BY <1>3, <1>7, <2>1, <2>2, DispatchKept DEF Dispatching
  <2>3. DispatchOf(t)'
    BY <1>1, <1>2, <1>3, <1>7, <2>1, PlaceTypes DEF Dispatching, DispatchOf
  <2> QED BY <1>3, <2>2, <2>3 DEF Dispatching
<1>15. Bound'
  <2>1. BoundOf(f)' /\ BoundOf(c)'
    <3>1. Required(f)' = AnyThread /\ Required(c)' = Required(c)
      BY <1>3, <1>4 DEF Required
    <3> QED BY <1>2, <1>8, <1>9, <3>1 DEF BoundOf
  <2>2. ASSUME NEW g \in Fibers, g # f, g # c
        PROVE  BoundOf(g)'
    BY <1>3, <1>8, <1>9, <2>2, BoundKept DEF Bound
  <2> QED BY <2>1, <2>2 DEF Bound
<1>16. Present => Present'
  <2> SUFFICES ASSUME Present
               PROVE  Present'
    OBVIOUS
  <2>1. \A u \in Threads : pc'[u] # "crashed" /\ drained'[u] # << >> => pc'[u] = "awaken"
    BY <1>3 DEF Present
  <2>2. \A g \in Fibers : Remains(g) \/ Arrives(g)
    BY <1>5, <1>8, <1>9 DEF Remains, Arrives
  <2> QED BY <1>3, <2>1, <2>2, PresentKept
<1> QED BY <1>10, <1>11, <1>12, <1>13, <1>14, <1>15, <1>16

(* The fiber a thread is launching. *)
LEMMA Launching ==
    ASSUME PlaceInv, NEW t \in Threads, pc[t] \in {"properties", "unlink", "push"}
    PROVE  /\ job[t] \in Fibers
           /\ pc[t] # "push" => At(job[t], "local", t, HIGH)
           /\ pc[t] = "push" => At(job[t], "push", t, UX)
           /\ status[job[t]] \in Alive
           /\ \A u \in Threads : u # t /\ pc[u] \in {"properties", "unlink", "push"} => job[u] # job[t]
<1> USE DEF PlaceInv, Placed
<1>1. \A u \in Threads : pc[u] \in {"properties", "unlink", "push"} =>
        /\ job[u] \in Fibers
        /\ pc[u] # "push" => At(job[u], "local", u, HIGH)
        /\ pc[u] = "push" => At(job[u], "push", u, UX)
  BY DEF TypeInv, Handed, Launches, At
<1>2. "local" \in Kinds /\ "push" \in Kinds /\ UX \in Levels /\ HIGH \in Levels
  BY DEF Kinds, Levels
<1>3. status[job[t]] \in Alive
  BY <1>1, <1>2, OnlyThere
<1>4. ASSUME NEW u \in Threads, u # t, pc[u] \in {"properties", "unlink", "push"}
      PROVE  job[u] # job[t]
  BY <1>1, <1>2, <1>4, OnlyThere
<1> QED BY <1>1, <1>3, <1>4

LEMMA SetPropertiesPlaces ==
    ASSUME PlaceInv, NEW t \in Threads, SetProperties(t)
    PROVE  Placed' /\ (Present => Present')
<1> USE DEF PlaceInv, Placed
<1>1. PICK f \in Fibers : f = job[t]
  BY Launching DEF SetProperties
<1>2. PICK w : w = wanted[t]
  OBVIOUS
<1>3. /\ pc[t] = "properties" /\ At(f, "local", t, HIGH) /\ status[f] \in Alive
      /\ \A u \in Threads : u # t /\ pc[u] \in {"properties", "unlink", "push"} => job[u] # f
  BY <1>1, Launching DEF SetProperties
<1>4. /\ props' = [props EXCEPT ![f] = w] /\ wanted' = [wanted EXCEPT ![t] = Default]
      /\ \/ w = Default /\ pc' = [pc EXCEPT ![t] = "run"] /\ job' = [job EXCEPT ![t] = NoFiber]
         \/ pc' = [pc EXCEPT ![t] = "unlink"] /\ job' = job
      /\ UNCHANGED <<registered, local, shared, remote, drained, status, home, running, yielded, scan>>
  <2>1. props[f] = Default
    BY <1>1, <1>3 DEF Launches
  <2> QED BY <1>1, <1>2, <2>1 DEF SetProperties, Goto, queueVars, pickVars
<1>5. w \in Parameters /\ w \in Levels \X (Threads \cup {AnyThread})
  BY <1>2, <1>3, PlaceTypes DEF Launches
<1>6. \A u \in Threads : u # t => pc'[u] = pc[u] /\ job'[u] = job[u] /\ wanted'[u] = wanted[u]
  BY <1>4, PlaceTypes
<1>7. \/ w = Default /\ pc'[t] = "run"
      \/ pc'[t] = "unlink" /\ job'[t] = f
  BY <1>1, <1>4, PlaceTypes
<1>8. \A g \in Fibers : props'[g] = IF g = f THEN w ELSE props[g]
  BY <1>4, PlaceTypes
<1>9. ASSUME NEW g \in Fibers, NEW k \in Kinds, NEW u \in Threads, NEW p \in Levels
      PROVE  At(g, k, u, p)' <=> At(g, k, u, p)
  <2>1. pc'[u] = "push" /\ job'[u] = g <=> pc[u] = "push" /\ job[u] = g
    BY <1>3, <1>6, <1>7
  <2> QED BY <1>4, <2>1 DEF At
<1>10. QueuesInjective'
  BY <1>4 DEF QueuesInjective
<1>11. Spots'
  <2>1. \A g \in Fibers : Stays(g)
    BY <1>4, <1>9 DEF Stays
  <2> QED BY <2>1, SpotsKept
<1>12. RunsAtHome'
  BY <1>4 DEF RunsAtHome
<1>13. Launches'
  <2>1. \A g \in Fibers : status'[g] = "new" => props'[g] = Default
    BY <1>3, <1>4, <1>8 DEF Launches, Alive
  <2>2. ASSUME NEW u \in Threads, u # t
        PROVE  /\ pc'[u] = "properties" => wanted'[u] \in Parameters /\ props'[job'[u]] = Default
               /\ pc'[u] \in {"unlink", "push"} => props'[job'[u]] \in Parameters
               /\ pc'[u] \in {"properties", "unlink"} => Contains(local'[u][HIGH], job'[u])
    <3>1. pc[u] \in {"properties", "unlink", "push"} => job[u] \in Fibers /\ job[u] # f
      BY <1>3, <2>2, Launching
    <3> QED BY <1>4, <1>6, <1>8, <2>2, <3>1 DEF Launches
  <2>3. /\ pc'[t] # "properties"
        /\ pc'[t] \in {"unlink", "push"} => props'[job'[t]] \in Parameters
        /\ pc'[t] \in {"properties", "unlink"} => Contains(local'[t][HIGH], job'[t])
    BY <1>3, <1>4, <1>5, <1>7, <1>8 DEF At
  <2> QED BY <2>1, <2>2, <2>3 DEF Launches
<1>14. Dispatching'
  <2>1. ASSUME NEW u \in Threads, u # t
        PROVE  DispatchOf(u)'
    BY <1>4, <1>6, <2>1, DispatchKept DEF Dispatching
  <2>2. DispatchOf(t)'
    BY <1>3, <1>4, <1>7 DEF Dispatching, DispatchOf
  <2>3. \A u, v \in Threads : pc'[u] = "crashed" => pc'[v] = "crashed"
    BY <1>3, <1>6, <1>7 DEF Dispatching
  <2> QED BY <2>1, <2>2, <2>3 DEF Dispatching
<1>15. Bound'
  <2>1. BoundOf(f)'
    <3>1. CASE w = Default
      <4>1. Required(f)' = AnyThread
        BY <1>8, <3>1 DEF Required, Default
      <4> QED BY <4>1 DEF BoundOf
    <3>2. CASE pc'[t] = "unlink" /\ job'[t] = f
      <4>1. \A k \in Kinds, u \in Threads, p \in Levels : At(f, k, u, p)' => k = "local" /\ u = t
        BY <1>3, <1>9, OnlyThere DEF Kinds, Levels
      <4> QED BY <1>3, <1>4, <3>2, <4>1 DEF BoundOf, Alive
    <3> QED BY <1>7, <3>1, <3>2
  <2>2. ASSUME NEW g \in Fibers, g # f
        PROVE  BoundOf(g)'
    <3>1. \A u \in Threads : pc[u] \in {"unlink", "crashed"} /\ job[u] = g =>
            pc'[u] \in {"unlink", "crashed"} /\ job'[u] = g
      BY <1>3, <1>6
    <3> QED BY <1>4, <1>8, <1>9, <2>2, <3>1, BoundKept DEF Bound
  <2> QED BY <2>1, <2>2 DEF Bound
<1>16. Present => Present'
  <2> SUFFICES ASSUME Present
               PROVE  Present'
    OBVIOUS
  <2>1. pc'[MainThread] # "crashed" => pc[MainThread] # "crashed"
    BY <1>3, <1>6, PlaceTypes
  <2>2. \A u \in Threads : pc'[u] # "crashed" /\ drained'[u] # << >> => pc'[u] = "awaken"
    BY <1>3, <1>4, <1>6 DEF Present
  <2>3. \A g \in Fibers : Remains(g)
    BY <1>4, <1>9 DEF Remains
  <2> QED BY <2>1, <2>2, <2>3, PresentKept
<1> QED BY <1>10, <1>11, <1>12, <1>13, <1>14, <1>15, <1>16

LEMMA UnlinkPlaces ==
    ASSUME PlaceInv, NEW t \in Threads, Unlink(t)
    PROVE  Placed' /\ (Present => Present')
<1> USE DEF PlaceInv, Placed
<1>1. PICK f \in Fibers : f = job[t]
  BY Launching DEF Unlink
<1>2. /\ pc[t] = "unlink" /\ At(f, "local", t, HIGH) /\ status[f] \in Alive
      /\ \A u \in Threads : u # t /\ pc[u] \in {"properties", "unlink", "push"} => job[u] # f
  BY <1>1, Launching DEF Unlink
<1>3. /\ pc' = [pc EXCEPT ![t] = "push"]
      /\ UNCHANGED <<registered, shared, remote, drained, props, status, home, running, yielded, scan,
                     job, wanted>>
  BY DEF Unlink, Goto, fiberVars, pickVars, launchVars
<1>4. PICK i \in DOMAIN local[t][HIGH] :
        local[t][HIGH][i] = f /\ local' = [local EXCEPT ![t][HIGH] = RemoveAt(@, i)]
  BY <1>1 DEF Unlink
<1>5. /\ \A u \in Threads, p \in Levels : \A d :
            Contains(local'[u][p], d) <=> Contains(local[u][p], d) /\ ~(u = t /\ p = HIGH /\ d = f)
      /\ \A u \in Threads, p \in Levels : IsInjective(local'[u][p])
  <2>1. local \in Family(Contexts) /\ HIGH \in Levels
    BY PlaceTypes
  <2>2. IsTaken(local, local', t, HIGH, i)
    BY <1>4, <2>1 DEF IsTaken, Family
  <2>3. \A u \in Threads, p \in Levels : IsInjective(local[u][p])
    BY DEF QueuesInjective
  <2>4. \A u \in Threads, p \in Levels : \A d :
          Contains(local'[u][p], d) <=>
             Contains(local[u][p], d) /\ ~(u = t /\ p = HIGH /\ d = local[t][HIGH][i])
    BY <2>1, <2>2, <2>3, FamilyTakenOut
  <2>5. \A u \in Threads, p \in Levels : IsInjective(local'[u][p])
    BY <2>1, <2>2, <2>3, FamilyTakenOut
  <2> QED BY <1>4, <2>4, <2>5
<1>6. \A u \in Threads : pc'[u] = IF u = t THEN "push" ELSE pc[u]
  BY <1>3, PlaceTypes
<1>7. ASSUME NEW g \in Fibers, NEW k \in Kinds, NEW u \in Threads, NEW p \in Levels
      PROVE  At(g, k, u, p)' <=> IF g = f THEN k = "push" /\ u = t /\ p = UX ELSE At(g, k, u, p)
  <2>1. CASE g = f
    <3>1. /\ \A v \in Threads, q \in Levels :
                /\ Contains(local[v][q], f) <=> v = t /\ q = HIGH
                /\ ~Contains(shared[v][q], f)
          /\ \A v \in Threads :
                /\ ~Contains(remote[v], f) /\ ~Contains(drained[v], f)
                /\ f \notin {running[v], yielded[v]}
                /\ ~(pc[v] = "push" /\ job[v] = f)
      BY <1>2, OnlyThere DEF Kinds, Levels
    <3> QED BY <1>1, <1>3, <1>5, <1>6, <2>1, <3>1 DEF At
  <2>2. CASE g # f
    BY <1>1, <1>2, <1>3, <1>5, <1>6, <2>2 DEF At
  <2> QED BY <2>1, <2>2
<1>8. QueuesInjective'
  BY <1>3, <1>5 DEF QueuesInjective
<1>9. "push" \in Kinds /\ UX \in Levels /\ HIGH \in Levels
  BY DEF Kinds, Levels
<1>10. Spots'
  <2>1. \A g \in Fibers : g # f => Stays(g)
    BY <1>3, <1>7 DEF Stays
  <2>2. Lands(f)
    BY <1>2, <1>3, <1>7, <1>9 DEF Lands, LandsIn
  <2> QED BY <2>1, <2>2, SpotsKept
<1>11. RunsAtHome'
  BY <1>3 DEF RunsAtHome
<1>12. Launches'
  <2>1. ASSUME NEW u \in Threads, pc'[u] \in {"properties", "unlink"}
        PROVE  Contains(local'[u][HIGH], job'[u])
    <3>1. pc[u] \in {"properties", "unlink"} /\ u # t
      BY <1>6, <2>1
    <3> QED BY <1>3, <1>5, <1>9, <3>1 DEF Launches
  <2> QED BY <1>2, <1>3, <1>6, <2>1 DEF Launches
<1>13. Dispatching'
  <2>1. \A u \in Threads, p \in Levels : Contains(local'[u][p], Dispatcher) <=> Contains(local[u][p], Dispatcher)
    BY <1>5, PlaceTypes
  <2>2. ASSUME NEW u \in Threads, u # t
        PROVE  DispatchOf(u)'
    BY <1>3, <1>6, <2>1, <2>2, DispatchKept DEF Dispatching
  <2>3. DispatchOf(t)'
    BY <1>2, <1>3, <1>6, <1>9, <2>1 DEF Dispatching, DispatchOf
  <2>4. \A u, v \in Threads : pc'[u] = "crashed" => pc'[v] = "crashed"
    BY <1>2, <1>6 DEF Dispatching
  <2> QED BY <2>2, <2>3, <2>4 DEF Dispatching
<1>14. Bound'
  <2>1. BoundOf(f)'
    BY <1>2, <1>3, <1>7 DEF BoundOf, Alive
  <2>2. ASSUME NEW g \in Fibers, g # f
        PROVE  BoundOf(g)'
    <3>1. \A u \in Threads : pc[u] \in {"unlink", "crashed"} /\ job[u] = g =>
            pc'[u] \in {"unlink", "crashed"} /\ job'[u] = g
      BY <1>1, <1>3, <1>6, <2>2
    <3> QED BY <1>3, <1>7, <2>2, <3>1, BoundKept DEF Bound
  <2> QED BY <2>1, <2>2 DEF Bound
<1>15. Present => Present'
  <2> SUFFICES ASSUME Present
               PROVE  Present'
    OBVIOUS
  <2>1. pc'[MainThread] # "crashed" => pc[MainThread] # "crashed"
    BY <1>2, <1>6, PlaceTypes
  <2>2. \A u \in Threads : pc'[u] # "crashed" /\ drained'[u] # << >> => pc'[u] = "awaken"
    BY <1>2, <1>3, <1>6 DEF Present
  <2>3. \A g \in Fibers : Remains(g) \/ Arrives(g)
    BY <1>3, <1>7, <1>9 DEF Remains, Arrives
  <2> QED BY <2>1, <2>2, <2>3, PresentKept
<1> QED BY <1>8, <1>10, <1>11, <1>12, <1>13, <1>14, <1>15

(* The process dies: what is in the middle of a push is gone. *)
LEMMA CrashPlaces ==
    ASSUME PlaceInv, NEW t \in Threads, pc[t] # "crashed", Crash,
           UNCHANGED <<queueVars, fiberVars, registered, pickVars, job>>
    PROVE  Placed' /\ (Present => Present')
<1> USE DEF PlaceInv, Placed
<1>1. \A u \in Threads : pc'[u] = "crashed" /\ pc[u] # "crashed"
  BY DEF Crash, Dispatching
<1>2. UNCHANGED <<local, shared, remote, drained, props, status, home, running, yielded>>
  BY DEF queueVars, fiberVars, pickVars
<1>3. ASSUME NEW g \in Fibers, NEW k \in Kinds, NEW u \in Threads, NEW p \in Levels
      PROVE  At(g, k, u, p)' => At(g, k, u, p)
  BY <1>1, <1>2 DEF At
<1>4. QueuesInjective'
  BY <1>2 DEF QueuesInjective
<1>5. Spots'
  <2>1. \A g \in Fibers : Stays(g)
    BY <1>2, <1>3 DEF Stays
  <2> QED BY <2>1, SpotsKept
<1>6. RunsAtHome' /\ Launches'
  BY <1>1, <1>2 DEF RunsAtHome, Launches
<1>7. Dispatching'
  BY <1>1 DEF Dispatching, DispatchOf
<1>8. Bound'
  <2>1. ASSUME NEW g \in Fibers
        PROVE  BoundOf(g)'
    BY <1>1, <1>2, <1>3, BoundKept DEF Bound
  <2> QED BY <2>1 DEF Bound
<1>9. Present'
  BY <1>1, PlaceTypes DEF Present
<1> QED BY <1>4, <1>5, <1>6, <1>7, <1>8, <1>9

(* The push races with an unlink of the thread it pushes to. *)
PushRace(t) ==
    /\ Required(job[t]) # t
    /\ pc[Required(job[t])] = "unlink" /\ Priority(job[t]) = HIGH

LEMMA PushRequiredPlaces ==
    ASSUME PlaceInv, NEW t \in Threads, PushRequired(t)
    PROVE  Placed' /\ (Present /\ ~PushRace(t) => Present')
<1> USE DEF PlaceInv, Placed
<1>1. PICK f \in Fibers : f = job[t]
  BY Launching DEF PushRequired
<1>2. PICK r \in Threads : r = Required(f)
  <2>1. Required(f) \in Threads
    BY <1>1, PlaceTypes DEF PushRequired, Required
  <2> QED BY <2>1
<1>3. PICK q \in Levels : q = Priority(f)
  BY PlaceTypes
<1>4. /\ pc[t] = "push" /\ At(f, "push", t, UX) /\ status[f] \in Alive
      /\ \A u \in Threads : u # t /\ pc[u] \in {"properties", "unlink", "push"} => job[u] # f
  BY <1>1, Launching DEF PushRequired
<1>5. CASE r \notin registered
  <2>1. Crash /\ UNCHANGED <<local, job>>
    BY <1>1, <1>2, <1>5 DEF PushRequired
  <2> QED BY <1>4, <2>1, CrashPlaces DEF PushRequired, queueVars
<1>6. CASE r \in registered
  <2>1. /\ \/ local' = [local EXCEPT ![r][q] = Append(@, f)]
           \/ PushRace(t) /\ UNCHANGED local
        /\ job' = [job EXCEPT ![t] = NoFiber]
        /\ pc' = [pc EXCEPT ![t] = "notify"]
        /\ UNCHANGED <<registered, shared, remote, drained, props, status, home, running, yielded, scan,
                       wanted>>
    BY <1>1, <1>2, <1>3, <1>6 DEF PushRequired, PushRace, Goto, fiberVars, pickVars
  <2>2. \A u \in Threads : /\ pc'[u] = IF u = t THEN "notify" ELSE pc[u]
                           /\ job'[u] = IF u = t THEN NoFiber ELSE job[u]
    BY <2>1, PlaceTypes
  <2>3. /\ \A u \in Threads, p \in Levels :
              /\ ~Contains(local[u][p], f) /\ ~Contains(shared[u][p], f)
        /\ \A u \in Threads :
              /\ ~Contains(remote[u], f) /\ ~Contains(drained[u], f)
              /\ f \notin {running[u], yielded[u]}
              /\ pc[u] = "push" /\ job[u] = f <=> u = t
    BY <1>4, OnlyThere DEF Kinds, Levels
  <2>4. /\ \A u \in Threads, p \in Levels : IsInjective(local'[u][p])
        /\ \/ \A u \in Threads, p \in Levels : \A d :
                 Contains(local'[u][p], d) <=> Contains(local[u][p], d) \/ (u = r /\ p = q /\ d = f)
           \/ PushRace(t) /\ UNCHANGED local
    <3>1. CASE local' = [local EXCEPT ![r][q] = Append(@, f)]
      <4>1. local \in Family(Contexts) /\ f \in Contexts
        BY PlaceTypes
      <4>2. Joins(local, local', r, q, f)
        BY <3>1, <4>1 DEF Joins, Family
      <4>3. \A u \in Threads, p \in Levels : IsInjective(local[u][p])
        BY DEF QueuesInjective
      <4>4. \A u \in Threads, p \in Levels : \A d :
              Contains(local'[u][p], d) <=> Contains(local[u][p], d) \/ (u = r /\ p = q /\ d = f)
        BY <4>1, <4>2, FamilyJoined
      <4>5. ~Contains(local[r][q], f)
        BY <2>3
      <4>6. \A u \in Threads, p \in Levels : IsInjective(local'[u][p])
        BY <4>1, <4>2, <4>3, <4>5, FamilyJoined
      <4> QED BY <4>4, <4>6
    <3>2. CASE PushRace(t) /\ UNCHANGED local
      BY <3>2 DEF QueuesInjective
    <3> QED BY <2>1, <3>1, <3>2
  <2>5. \A u \in Threads, p \in Levels : \A d :
          /\ Contains(local'[u][p], d) => Contains(local[u][p], d) \/ (u = r /\ p = q /\ d = f)
          /\ Contains(local[u][p], d) => Contains(local'[u][p], d)
          /\ ~PushRace(t) => Contains(local'[r][q], f)
    BY <2>4
  <2>6. f # NoFiber /\ f # Dispatcher
    BY FibersAssumption
  <2>7. ASSUME NEW g \in Fibers, NEW k \in Kinds, NEW u \in Threads, NEW p \in Levels
        PROVE  /\ g = f => (At(g, k, u, p)' => k = "local" /\ u = r /\ p = q)
               /\ g = f /\ ~PushRace(t) => At(f, "local", r, q)'
               /\ g # f => (At(g, k, u, p)' <=> At(g, k, u, p))
    <3>1. CASE g = f
      BY <2>1, <2>2, <2>3, <2>5, <2>6, <3>1 DEF At
    <3>2. CASE g # f
      <4>1. Contains(local'[u][p], g) <=> Contains(local[u][p], g)
        BY <2>5, <3>2
      <4>2. pc'[u] = "push" /\ job'[u] = g <=> pc[u] = "push" /\ job[u] = g
        BY <1>1, <2>2, <3>2
      <4> QED BY <2>1, <3>2, <4>1, <4>2 DEF At
    <3> QED BY <3>1, <3>2
  <2>8. QueuesInjective'
    BY <2>1, <2>4 DEF QueuesInjective
  <2>9. "local" \in Kinds /\ UX \in Levels /\ HIGH \in Levels
    BY DEF Kinds, Levels
  <2>10. Spots'
    <3>1. \A g \in Fibers : g # f => Stays(g)
      BY <2>1, <2>7 DEF Stays
    <3>2. Lands(f)
      BY <1>4, <2>1, <2>7, <2>9 DEF Lands, LandsIn
    <3> QED BY <3>1, <3>2, SpotsKept
  <2>11. RunsAtHome'
    BY <2>1 DEF RunsAtHome
  <2>12. Launches'
    <3>1. ASSUME NEW u \in Threads
          PROVE  /\ pc'[u] = "properties" => wanted'[u] \in Parameters /\ props'[job'[u]] = Default
                 /\ pc'[u] \in {"unlink", "push"} => props'[job'[u]] \in Parameters
                 /\ pc'[u] \in {"properties", "unlink"} => Contains(local'[u][HIGH], job'[u])
      <4>1. CASE u = t
        BY <2>2, <4>1
      <4>2. CASE u # t
        <5>1. pc'[u] = pc[u] /\ job'[u] = job[u]
          BY <2>2, <4>2
        <5>2. Contains(local[u][HIGH], job[u]) => Contains(local'[u][HIGH], job[u])
          BY <2>5, <2>9
        <5> QED BY <2>1, <5>1, <5>2 DEF Launches
      <4> QED BY <4>1, <4>2
    <3> QED BY <2>1, <3>1 DEF Launches
  <2>13. Dispatching'
    <3>1. \A u \in Threads, p \in Levels : Contains(local'[u][p], Dispatcher) <=> Contains(local[u][p], Dispatcher)
      BY <2>5, <2>6
    <3>2. ASSUME NEW u \in Threads, u # t
          PROVE  DispatchOf(u)'
      BY <2>1, <2>2, <3>1, <3>2, DispatchKept DEF Dispatching
    <3>3. DispatchOf(t)'
      BY <1>4, <2>1, <2>2, <2>9, <3>1 DEF Dispatching, DispatchOf
    <3>4. \A u, v \in Threads : pc'[u] = "crashed" => pc'[v] = "crashed"
      BY <1>4, <2>2 DEF Dispatching
    <3> QED BY <3>2, <3>3, <3>4 DEF Dispatching
  <2>14. Bound'
    <3>1. BoundOf(f)'
      <4>1. Required(f)' = r
        BY <1>2, <2>1 DEF Required
      <4> QED BY <1>4, <2>1, <2>7, <4>1 DEF BoundOf, Alive
    <3>2. ASSUME NEW g \in Fibers, g # f
          PROVE  BoundOf(g)'
      <4>1. \A u \in Threads : pc[u] \in {"unlink", "crashed"} /\ job[u] = g =>
              pc'[u] \in {"unlink", "crashed"} /\ job'[u] = g
        BY <1>4, <2>2
      <4> QED BY <2>1, <2>7, <3>2, <4>1, BoundKept DEF Bound
    <3> QED BY <3>1, <3>2 DEF Bound
  <2>15. Present /\ ~PushRace(t) => Present'
    <3> SUFFICES ASSUME Present, ~PushRace(t)
                 PROVE  Present'
      OBVIOUS
    <3>1. pc'[MainThread] # "crashed" => pc[MainThread] # "crashed"
      BY <1>4, <2>2, PlaceTypes
    <3>2. \A u \in Threads : pc'[u] # "crashed" /\ drained'[u] # << >> => pc'[u] = "awaken"
      BY <1>4, <2>1, <2>2 DEF Present
    <3>3. \A g \in Fibers : Remains(g) \/ Arrives(g)
      BY <2>1, <2>7, <2>9 DEF Remains, Arrives
    <3> QED BY <3>1, <3>2, <3>3, PresentKept
  <2> QED BY <2>8, <2>10, <2>11, <2>12, <2>13, <2>14, <2>15
<1> QED BY <1>5, <1>6

LEMMA PushSharedPlaces ==
    ASSUME PlaceInv, NEW t \in Threads, PushShared(t)
    PROVE  Placed' /\ (Present => Present')
<1> USE DEF PlaceInv, Placed
<1>1. PICK f \in Fibers : f = job[t]
  BY Launching DEF PushShared
<1>2. PICK q \in Levels : q = Priority(f)
  BY PlaceTypes
<1>3. /\ pc[t] = "push" /\ At(f, "push", t, UX) /\ status[f] \in Alive /\ Required(f) = AnyThread
      /\ \A u \in Threads : u # t /\ pc[u] \in {"properties", "unlink", "push"} => job[u] # f
  BY <1>1, Launching DEF PushShared
<1>4. /\ shared' = [shared EXCEPT ![t][q] = Append(@, f)]
      /\ job' = [job EXCEPT ![t] = NoFiber]
      /\ \/ pc' = [pc EXCEPT ![t] = "notify"]
         \/ pc' = [pc EXCEPT ![t] = "run"]
      /\ UNCHANGED <<registered, local, remote, drained, props, status, home, running, yielded, scan, wanted>>
  BY <1>1, <1>2 DEF PushShared, Goto, fiberVars, pickVars
<1>5. /\ \A u \in Threads : /\ u # t => pc'[u] = pc[u]
                            /\ job'[u] = IF u = t THEN NoFiber ELSE job[u]
      /\ pc'[t] \in {"notify", "run"}
  BY <1>4, PlaceTypes
<1>6. /\ \A u \in Threads, p \in Levels :
            /\ ~Contains(local[u][p], f) /\ ~Contains(shared[u][p], f)
      /\ \A u \in Threads :
            /\ ~Contains(remote[u], f) /\ ~Contains(drained[u], f)
            /\ f \notin {running[u], yielded[u]}
            /\ pc[u] = "push" /\ job[u] = f <=> u = t
  BY <1>3, OnlyThere DEF Kinds, Levels
<1>7. /\ \A u \in Threads, p \in Levels : IsInjective(shared'[u][p])
      /\ \A u \in Threads, p \in Levels : \A d :
            Contains(shared'[u][p], d) <=> Contains(shared[u][p], d) \/ (u = t /\ p = q /\ d = f)
  <2>1. shared \in Family(Fibers)
    BY PlaceTypes
  <2>2. Joins(shared, shared', t, q, f)
    BY <1>4, <2>1 DEF Joins, Family
  <2>3. \A u \in Threads, p \in Levels : IsInjective(shared[u][p])
    BY DEF QueuesInjective
  <2>4. \A u \in Threads, p \in Levels : \A d :
          Contains(shared'[u][p], d) <=> Contains(shared[u][p], d) \/ (u = t /\ p = q /\ d = f)
    BY <2>1, <2>2, FamilyJoined
  <2>5. ~Contains(shared[t][q], f)
    BY <1>6
  <2>6. \A u \in Threads, p \in Levels : IsInjective(shared'[u][p])
    BY <2>1, <2>2, <2>3, <2>5, FamilyJoined
  <2> QED BY <2>4, <2>6
<1>8. f # NoFiber
  BY FibersAssumption
<1>9. ASSUME NEW g \in Fibers, NEW k \in Kinds, NEW u \in Threads, NEW p \in Levels
      PROVE  At(g, k, u, p)' <=> IF g = f THEN k = "shared" /\ u = t /\ p = q ELSE At(g, k, u, p)
  <2>1. CASE g = f
    BY <1>4, <1>5, <1>6, <1>7, <1>8, <2>1 DEF At
  <2>2. CASE g # f
    <3>1. pc'[u] = "push" /\ job'[u] = g <=> pc[u] = "push" /\ job[u] = g
      BY <1>1, <1>5, <2>2
    <3> QED BY <1>4, <1>7, <2>2, <3>1 DEF At
  <2> QED BY <2>1, <2>2
<1>10. QueuesInjective'
  BY <1>4, <1>7 DEF QueuesInjective
<1>11. "shared" \in Kinds /\ UX \in Levels /\ HIGH \in Levels
  BY DEF Kinds, Levels
<1>12. Spots'
  <2>1. \A g \in Fibers : g # f => Stays(g)
    BY <1>4, <1>9 DEF Stays
  <2>2. Lands(f)
    BY <1>3, <1>4, <1>9, <1>11 DEF Lands, LandsIn
  <2> QED BY <2>1, <2>2, SpotsKept
<1>13. RunsAtHome'
  BY <1>4 DEF RunsAtHome
<1>14. Launches'
  BY <1>4, <1>5, <1>11 DEF Launches
<1>15. Dispatching'
  <2>1. ASSUME NEW u \in Threads, u # t
        PROVE  DispatchOf(u)'
    BY <1>4, <1>5, <2>1, DispatchKept DEF Dispatching
  <2>2. DispatchOf(t)'
    BY <1>3, <1>4, <1>5, <1>11 DEF Dispatching, DispatchOf
  <2>3. \A u, v \in Threads : pc'[u] = "crashed" => pc'[v] = "crashed"
    BY <1>3, <1>5 DEF Dispatching
  <2> QED BY <2>1, <2>2, <2>3 DEF Dispatching
<1>16. Bound'
  <2>1. BoundOf(f)'
    BY <1>3, <1>4 DEF BoundOf, Required
  <2>2. ASSUME NEW g \in Fibers, g # f
        PROVE  BoundOf(g)'
    <3>1. \A u \in Threads : pc[u] \in {"unlink", "crashed"} /\ job[u] = g =>
            pc'[u] \in {"unlink", "crashed"} /\ job'[u] = g
      BY <1>3, <1>5
    <3> QED BY <1>4, <1>9, <2>2, <3>1, BoundKept DEF Bound
  <2> QED BY <2>1, <2>2 DEF Bound
<1>17. Present => Present'
  <2> SUFFICES ASSUME Present
               PROVE  Present'
    OBVIOUS
  <2>1. pc'[MainThread] # "crashed" => pc[MainThread] # "crashed"
    BY <1>3, <1>5, PlaceTypes
  <2>2. \A u \in Threads : pc'[u] # "crashed" /\ drained'[u] # << >> => pc'[u] = "awaken"
    BY <1>3, <1>4, <1>5 DEF Present
  <2>3. \A g \in Fibers : Remains(g) \/ Arrives(g)
    BY <1>4, <1>9, <1>11 DEF Remains, Arrives
  <2> QED BY <2>1, <2>2, <2>3, PresentKept
<1> QED BY <1>10, <1>12, <1>13, <1>14, <1>15, <1>16, <1>17

-----------------------------------------------------------------------------
(* Waking and notifying *)

LEMMA WakePlaces ==
    ASSUME PlaceInv, NEW t \in Threads, NEW f \in Fibers, Wake(t, f)
    PROVE  Placed' /\ (Present => Present')
<1> USE DEF PlaceInv, Placed
<1>1. PICK h \in Threads : h = home[f]
  BY PlaceTypes
<1>2. PICK q \in Levels : q = Priority(f)
  BY PlaceTypes
<1>3. /\ pc[t] = "run" /\ status[f] = "blocked"
      /\ status' = [status EXCEPT ![f] = "ready"]
      /\ UNCHANGED <<registered, shared, drained, props, home, running, yielded, scan, job, wanted>>
  BY DEF Wake, pickVars
<1>4. \/ h = t /\ local' = Awaken(t, f) /\ UNCHANGED <<remote, pc>>
      \/ remote' = [remote EXCEPT ![h] = Append(@, f)] /\ pc' = [pc EXCEPT ![t] = "notify"] /\ UNCHANGED local
  BY <1>1 DEF Wake, Goto
<1>5. Nowhere(f) /\ (Required(f) # AnyThread => Required(f) = h)
  BY <1>1, <1>3 DEF Spots, Alive, Bound, BoundOf
<1>6. /\ \A u \in Threads, p \in Levels : ~Contains(local[u][p], f) /\ ~Contains(shared[u][p], f)
      /\ \A u \in Threads :
            /\ ~Contains(remote[u], f) /\ ~Contains(drained[u], f)
            /\ f \notin {running[u], yielded[u]}
            /\ ~(pc[u] = "push" /\ job[u] = f)
  BY <1>5, NotThere
<1>7. /\ "local" \in Kinds /\ "remote" \in Kinds /\ UX \in Levels /\ HIGH \in Levels
      /\ f \in Contexts /\ f # Dispatcher
  BY PlaceTypes DEF Kinds
<1>8. PICK l \in {"local", "remote"} :
        /\ \A u \in Threads, p \in Levels : \A d :
              Contains(local'[u][p], d) <=>
                 Contains(local[u][p], d) \/ (l = "local" /\ u = h /\ p = q /\ d = f)
        /\ \A u \in Threads : \A d :
              Contains(remote'[u], d) <=> Contains(remote[u], d) \/ (l = "remote" /\ u = h /\ d = f)
        /\ \A u \in Threads, p \in Levels : IsInjective(local'[u][p])
        /\ \A u \in Threads : IsInjective(remote'[u])
  <2>1. CASE h = t /\ local' = Awaken(t, f) /\ UNCHANGED <<remote, pc>>
    <3>1. \A u \in Threads, p \in Levels : \A d :
            Contains(local'[u][p], d) <=> Contains(local[u][p], d) \/ (u = t /\ p = Priority(f) /\ d = f)
      BY <1>7, <2>1, Awakened
    <3>2. ~Contains(local[t][Priority(f)], f)
      BY <1>2, <1>6
    <3>3. \A u \in Threads, p \in Levels : IsInjective(local'[u][p])
      BY <1>7, <2>1, <3>2, Awakened
    <3> WITNESS "local" \in {"local", "remote"}
    <3> QED BY <1>2, <2>1, <3>1, <3>3 DEF QueuesInjective
  <2>2. CASE remote' = [remote EXCEPT ![h] = Append(@, f)] /\ UNCHANGED local
    <3>1. remote \in Lists(Fibers)
      BY PlaceTypes
    <3>2. JoinsList(remote, remote', h, f)
      BY <2>2, <3>1 DEF JoinsList, Lists
    <3>3. \A u \in Threads : \A d : Contains(remote'[u], d) <=> Contains(remote[u], d) \/ (u = h /\ d = f)
      BY <3>1, <3>2, ListJoined
    <3>4. (\A u \in Threads : IsInjective(remote[u])) /\ ~Contains(remote[h], f)
      BY <1>6 DEF QueuesInjective
    <3>5. \A u \in Threads : IsInjective(remote'[u])
      BY <3>1, <3>2, <3>4, ListJoined
    <3> WITNESS "remote" \in {"local", "remote"}
    <3> QED BY <2>2, <3>3, <3>5 DEF QueuesInjective
  <2> QED BY <1>4, <2>1, <2>2
<1>9. \A u \in Threads : (u # t => pc'[u] = pc[u]) /\ pc'[t] \in {"run", "notify"}
  BY <1>3, <1>4, PlaceTypes
<1>10. \A g \in Fibers : status'[g] = IF g = f THEN "ready" ELSE status[g]
  BY <1>3, PlaceTypes
<1>11. ASSUME NEW g \in Fibers, NEW k \in Kinds, NEW u \in Threads, NEW p \in Levels
       PROVE  At(g, k, u, p)' <=> IF g = f THEN k = l /\ u = h /\ p = (IF l = "local" THEN q ELSE UX)
                                  ELSE At(g, k, u, p)
  <2>1. pc'[u] = "push" /\ job'[u] = g <=> pc[u] = "push" /\ job[u] = g
    BY <1>3, <1>9
  <2>2. CASE g = f
    BY <1>3, <1>6, <1>8, <2>1, <2>2 DEF At
  <2>3. CASE g # f
    BY <1>3, <1>8, <2>1, <2>3 DEF At
  <2> QED BY <2>2, <2>3
<1>12. QueuesInjective'
  BY <1>3, <1>8 DEF QueuesInjective
<1>13. l \in Kinds /\ (IF l = "local" THEN q ELSE UX) \in Levels
  BY <1>7
<1>14. Spots'
  <2>1. \A g \in Fibers : g # f => Stays(g)
    BY <1>10, <1>11 DEF Stays
  <2>2. Lands(f)
    BY <1>10, <1>11, <1>13 DEF Lands, LandsIn, Alive
  <2> QED BY <2>1, <2>2, SpotsKept
<1>15. RunsAtHome'
  BY <1>3, <1>10 DEF RunsAtHome
<1>16. Launches'
  <2>1. \A g \in Fibers : status'[g] = "new" => props'[g] = Default
    BY <1>3, <1>10 DEF Launches
  <2>2. \A u \in Threads : Contains(local[u][HIGH], job[u]) => Contains(local'[u][HIGH], job[u])
    BY <1>7, <1>8
  <2> QED BY <1>3, <1>9, <2>1, <2>2 DEF Launches
<1>17. Dispatching'
  <2>1. \A u \in Threads, p \in Levels : Contains(local'[u][p], Dispatcher) <=> Contains(local[u][p], Dispatcher)
    BY <1>7, <1>8
  <2>2. ASSUME NEW u \in Threads, u # t
        PROVE  DispatchOf(u)'
    BY <1>3, <1>9, <2>1, <2>2, DispatchKept DEF Dispatching
  <2>3. DispatchOf(t)'
    BY <1>3, <1>7, <1>9, <2>1 DEF Dispatching, DispatchOf
  <2>4. \A u, v \in Threads : pc'[u] = "crashed" => pc'[v] = "crashed"
    BY <1>3, <1>9 DEF Dispatching
  <2> QED BY <2>2, <2>3, <2>4 DEF Dispatching
<1>18. Bound'
  <2>1. BoundOf(f)'
    <3>1. Required(f)' = Required(f)
      BY <1>3 DEF Required
    <3> QED BY <1>5, <1>10, <1>11, <3>1 DEF BoundOf
  <2>2. ASSUME NEW g \in Fibers, g # f
        PROVE  BoundOf(g)'
    <3>1. \A u \in Threads : pc[u] \in {"unlink", "crashed"} /\ job[u] = g =>
            pc'[u] \in {"unlink", "crashed"} /\ job'[u] = g
      BY <1>3, <1>9
    <3> QED BY <1>3, <1>10, <1>11, <2>2, <3>1, BoundKept DEF Bound
  <2> QED BY <2>1, <2>2 DEF Bound
<1>19. Present => Present'
  <2> SUFFICES ASSUME Present
               PROVE  Present'
    OBVIOUS
  <2>1. pc'[MainThread] # "crashed" => pc[MainThread] # "crashed"
    BY <1>3, <1>9, PlaceTypes
  <2>2. \A u \in Threads : pc'[u] # "crashed" /\ drained'[u] # << >> => pc'[u] = "awaken"
    BY <1>3, <1>9 DEF Present
  <2>3. \A g \in Fibers : Remains(g) \/ Arrives(g)
    BY <1>10, <1>11, <1>13 DEF Remains, Arrives
  <2> QED BY <2>1, <2>2, <2>3, PresentKept
<1> QED BY <1>12, <1>14, <1>15, <1>16, <1>17, <1>18, <1>19

(* A step that moves no fiber, does not touch a queue and changes the program *)
(* counters, flags and targets only.                                          *)
LEMMA QuietPlaces ==
    ASSUME PlaceInv,
           UNCHANGED <<queueVars, fiberVars, registered, pickVars, job, wanted>>,
           \A u \in Threads :
              \/ pc'[u] = pc[u]
              \/ pc[u] \in {"sleep", "suspend"} /\ pc'[u] \in {"sleep", "suspend", "drain"}
              \/ pc[u] \in {"notify", "signal"} /\ pc'[u] \in {"signal", "run"}
    PROVE  Placed' /\ (Present => Present')
<1> USE DEF PlaceInv, Placed
<1>1. UNCHANGED <<registered, local, shared, remote, drained, props, status, home, running, yielded, scan,
                  job, wanted>>
  BY DEF queueVars, fiberVars, pickVars
<1>2. ASSUME NEW g \in Fibers, NEW k \in Kinds, NEW u \in Threads, NEW p \in Levels
      PROVE  At(g, k, u, p)' <=> At(g, k, u, p)
  BY <1>1 DEF At
<1>3. QueuesInjective' /\ RunsAtHome' /\ Launches'
  BY <1>1 DEF QueuesInjective, RunsAtHome, Launches
<1>4. Spots'
  <2>1. \A g \in Fibers : Stays(g)
    BY <1>1, <1>2 DEF Stays
  <2> QED BY <2>1, SpotsKept
<1>5. Dispatching'
  <2>1. ASSUME NEW u \in Threads
        PROVE  DispatchOf(u)'
    BY <1>1 DEF Dispatching, DispatchOf
  <2>2. \A u, v \in Threads : pc'[u] = "crashed" => pc'[v] = "crashed"
    BY DEF Dispatching
  <2> QED BY <2>1, <2>2 DEF Dispatching
<1>6. Bound'
  <2>1. ASSUME NEW g \in Fibers
        PROVE  BoundOf(g)'
    BY <1>1, <1>2, BoundKept DEF Bound
  <2> QED BY <2>1 DEF Bound
<1>7. Present => Present'
  <2> SUFFICES ASSUME Present
               PROVE  Present'
    OBVIOUS
  <2>1. pc'[MainThread] # "crashed" => pc[MainThread] # "crashed"
    BY PlaceTypes
  <2>2. \A u \in Threads : pc'[u] # "crashed" /\ drained'[u] # << >> => pc'[u] = "awaken"
    BY <1>1 DEF Present
  <2>3. \A g \in Fibers : Remains(g)
    BY <1>1, <1>2 DEF Remains
  <2> QED BY <2>1, <2>2, <2>3, PresentKept
<1> QED BY <1>3, <1>4, <1>5, <1>6, <1>7

LEMMA NotifyPlaces ==
    ASSUME PlaceInv, NEW t \in Threads, Notify(t) \/ Signal(t)
    PROVE  Placed' /\ (Present => Present')
<1>1. UNCHANGED <<queueVars, fiberVars, registered, pickVars, job, wanted>>
  BY DEF Notify, Signal, launchVars
<1>2. CASE Notify(t) /\ Crash
  BY <1>1, <1>2, CrashPlaces DEF Notify
<1>3. CASE Notify(t) /\ pc' = [pc EXCEPT ![t] = "signal"]
  <2>1. \A u \in Threads : pc'[u] = IF u = t THEN "signal" ELSE pc[u]
    BY <1>3, PlaceTypes DEF PlaceInv
  <2> QED BY <1>1, <1>3, <2>1, QuietPlaces DEF Notify
<1>4. CASE Signal(t)
  <2>1. \A u \in Threads :
          \/ pc'[u] = pc[u]
          \/ pc[u] = "sleep" /\ pc'[u] = "suspend"
          \/ u = t /\ pc[u] = "signal" /\ pc'[u] = "run"
    BY <1>4, PlaceTypes DEF PlaceInv, Signal
  <2> QED BY <1>1, <2>1, QuietPlaces
<1> QED BY <1>2, <1>3, <1>4 DEF Notify, Goto

-----------------------------------------------------------------------------
(* Giving way *)

(* The thread starts to look for its next context.                            *)
LEMMA StartPickDispatch ==
    ASSUME PlaceInv, NEW t \in Threads, NEW y, StartPick(t, y),
           UNCHANGED <<registered, local>>,
           pc[t] # "crashed" /\ pc[t] # "start",
           running[t] = Dispatcher => y = Dispatcher,
           running[t] # Dispatcher => y # Dispatcher /\ yielded[t] # Dispatcher
    PROVE  Dispatching'
<1> USE DEF PlaceInv, Placed
<1>1. \A u \in Threads :
        /\ pc'[u] = IF u = t THEN "pick" ELSE pc[u]
        /\ scan'[u] = IF u = t THEN 0 ELSE scan[u]
        /\ running'[u] = IF u = t THEN NoFiber ELSE running[u]
        /\ yielded'[u] = IF u = t THEN y ELSE yielded[u]
  BY PlaceTypes DEF StartPick
<1>2. ASSUME NEW u \in Threads, u # t
      PROVE  DispatchOf(u)'
  BY <1>1, <1>2, DispatchKept DEF Dispatching
<1>3. DispatchOf(t)'
  <2>1. ~(scan'[t] > 2 * HIGH) /\ HIGH \in Levels /\ NoFiber # Dispatcher
    BY <1>1, FibersAssumption DEF HIGH, Levels
  <2>2. DispatchOf(t)
    BY DEF Dispatching
  <2> QED BY <1>1, <2>1, <2>2 DEF DispatchOf
<1>4. \A u, v \in Threads : pc'[u] = "crashed" => pc'[v] = "crashed"
  BY <1>1 DEF Dispatching
<1> QED BY <1>2, <1>3, <1>4 DEF Dispatching

LEMMA GiveWayPlaces ==
    ASSUME PlaceInv, NEW t \in Threads,
           Yield(t) \/ (\E how \in {"blocked", "timed"} : Suspend(t, how)) \/ Finish(t)
    PROVE  Placed' /\ (Present => Present')
<1> USE DEF PlaceInv, Placed
<1>1. pc[t] = "run"
  BY DEF Yield, Suspend, Finish
<1>2. PICK c \in Fibers : c = running[t]
  BY <1>1, Running
<1>3. /\ yielded[t] = NoFiber /\ status[c] = "running" /\ home[c] = t
      /\ Required(c) # AnyThread => Required(c) = t
      /\ At(c, "hand", t, UX)
  BY <1>1, <1>2, Running
<1>4. PICK st, y :
        /\ \/ st = "ready" /\ y = c
           \/ st \in {"blocked", "timed", "done"} /\ y = NoFiber
        /\ status' = [status EXCEPT ![c] = st]
        /\ StartPick(t, y)
  BY <1>2 DEF Yield, Suspend, Finish
<1>5. UNCHANGED <<registered, local, shared, remote, drained, props, home, job, wanted>>
  BY DEF Yield, Suspend, Finish, queueVars, launchVars
<1>6. \A u \in Threads :
        /\ pc'[u] = IF u = t THEN "pick" ELSE pc[u]
        /\ running'[u] = IF u = t THEN NoFiber ELSE running[u]
        /\ yielded'[u] = IF u = t THEN y ELSE yielded[u]
  BY <1>4, PlaceTypes DEF StartPick
<1>7. \A g \in Fibers : status'[g] = IF g = c THEN st ELSE status[g]
  BY <1>4, PlaceTypes
<1>8. c # NoFiber /\ c # Dispatcher /\ "hand" \in Kinds /\ UX \in Levels
  BY FibersAssumption DEF Kinds, Levels
<1>9. ASSUME NEW g \in Fibers, NEW k \in Kinds, NEW u \in Threads, NEW p \in Levels
      PROVE  At(g, k, u, p)' <=> At(g, k, u, p) /\ (g = c => st = "ready")
  <2>1. CASE g = c
    <3>1. /\ \A v \in Threads, q \in Levels : ~Contains(local[v][q], c) /\ ~Contains(shared[v][q], c)
          /\ \A v \in Threads :
                /\ ~Contains(remote[v], c) /\ ~Contains(drained[v], c)
                /\ c \in {running[v], yielded[v]} <=> v = t
                /\ ~(pc[v] = "push" /\ job[v] = c)
      BY <1>3, <1>8, OnlyThere
    <3> QED BY <1>2, <1>4, <1>5, <1>6, <1>8, <2>1, <3>1 DEF At
  <2>2. CASE g # c
    <3>1. g \in {running'[u], yielded'[u]} <=> g \in {running[u], yielded[u]}
      BY <1>2, <1>3, <1>4, <1>6, <2>2, FibersAssumption
    <3>2. pc'[u] = "push" /\ job'[u] = g <=> pc[u] = "push" /\ job[u] = g
      BY <1>1, <1>5, <1>6
    <3> QED BY <1>5, <2>2, <3>1, <3>2 DEF At
  <2> QED BY <2>1, <2>2
<1>10. QueuesInjective'
  BY <1>5 DEF QueuesInjective
<1>11. Spots'
  <2>1. \A g \in Fibers : g # c => Stays(g)
    BY <1>7, <1>9 DEF Stays
  <2>2. CASE st = "ready"
    <3>1. Stays(c)
      BY <1>7, <1>9, <2>2 DEF Stays, Alive
    <3> QED BY <2>1, <3>1, SpotsKept
  <2>3. CASE st # "ready"
    <3>1. Lands(c)
      BY <1>9, <2>3 DEF Lands, LandsIn, Nowhere
    <3> QED BY <2>1, <3>1, SpotsKept
  <2> QED BY <2>2, <2>3
<1>12. RunsAtHome'
  <2> SUFFICES ASSUME NEW u \in Threads, running'[u] \in Fibers
               PROVE  status'[running'[u]] = "running" /\ home'[running'[u]] = u
    BY DEF RunsAtHome
  <2>1. u # t
    BY <1>6, FibersAssumption
  <2>2. running[u] # c
    BY <1>3, <1>8, <2>1, OnlyThere
  <2> QED BY <1>5, <1>6, <1>7, <2>1, <2>2 DEF RunsAtHome
<1>13. Launches'
  <2>1. \A g \in Fibers : status'[g] = "new" => props'[g] = Default
    BY <1>4, <1>5, <1>7 DEF Launches
  <2> QED BY <1>5, <1>6, <2>1 DEF Launches
<1>14. Dispatching'
  BY <1>1, <1>2, <1>3, <1>4, <1>5, <1>8, FibersAssumption, StartPickDispatch
<1>15. Bound'
  <2>1. BoundOf(c)'
    <3>1. Required(c)' = Required(c)
      BY <1>5 DEF Required
    <3>2. \A k \in Kinds, u \in Threads, p \in Levels : At(c, k, u, p)' => k = "hand" /\ u = t
      BY <1>3, <1>8, <1>9, OnlyThere
    <3> QED BY <1>3, <1>5, <1>7, <3>1, <3>2 DEF BoundOf
  <2>2. ASSUME NEW g \in Fibers, g # c
        PROVE  BoundOf(g)'
    <3>1. \A u \in Threads : pc[u] \in {"unlink", "crashed"} /\ job[u] = g =>
            pc'[u] \in {"unlink", "crashed"} /\ job'[u] = g
      BY <1>1, <1>5, <1>6
    <3> QED BY <1>5, <1>7, <1>9, <2>2, <3>1, BoundKept DEF Bound
  <2> QED BY <2>1, <2>2 DEF Bound
<1>16. Present => Present'
  <2> SUFFICES ASSUME Present
               PROVE  Present'
    OBVIOUS
  <2>1. pc'[MainThread] # "crashed" => pc[MainThread] # "crashed"
    BY <1>1, <1>6, PlaceTypes
  <2>2. \A u \in Threads : pc'[u] # "crashed" /\ drained'[u] # << >> => pc'[u] = "awaken"
    BY <1>1, <1>5, <1>6 DEF Present
  <2>3. \A g \in Fibers : Remains(g) \/ Arrives(g)
    <3>1. \A g \in Fibers : g # c => Remains(g)
      BY <1>7, <1>9 DEF Remains
    <3>2. CASE st = "ready"
      <4>1. Remains(c)
        BY <1>3, <1>9, <3>2 DEF Remains, Alive
      <4> QED BY <3>1, <4>1
    <3>3. CASE st # "ready"
      <4>1. Arrives(c)
        BY <1>4, <1>7, <3>3 DEF Arrives, Alive
      <4> QED BY <3>1, <4>1
    <3> QED BY <3>2, <3>3
  <2> QED BY <2>1, <2>2, <2>3, PresentKept
<1> QED BY <1>10, <1>11, <1>12, <1>13, <1>14, <1>15, <1>16

(* A step in which no fiber moves and none changes. *)
LEMMA StillPlaces ==
    ASSUME PlaceInv, NEW t \in Threads,
           pc[t] \notin {"properties", "unlink", "push", "crashed"},
           pc'[t] \notin {"properties", "unlink", "push"},
           \A u \in Threads : u # t => pc'[u] = pc[u] /\ running'[u] = running[u] /\ yielded'[u] = yielded[u],
           running[t] \notin Fibers /\ yielded[t] \notin Fibers,
           running'[t] \notin Fibers /\ yielded'[t] \notin Fibers,
           UNCHANGED <<queueVars, fiberVars, job, wanted>>
    PROVE  /\ QueuesInjective' /\ Spots' /\ RunsAtHome' /\ Launches' /\ Bound'
           /\ Present /\ (drained[t] # << >> => pc'[t] = "awaken") => Present'
<1> USE DEF PlaceInv, Placed
<1>1. UNCHANGED <<local, shared, remote, drained, props, status, home>>
  BY DEF queueVars, fiberVars
<1>2. ASSUME NEW g \in Fibers, NEW k \in Kinds, NEW u \in Threads, NEW p \in Levels
      PROVE  At(g, k, u, p)' <=> At(g, k, u, p)
  <2>1. g \in {running'[u], yielded'[u]} <=> g \in {running[u], yielded[u]}
    BY FibersAssumption
  <2>2. pc'[u] = "push" /\ job'[u] = g <=> pc[u] = "push" /\ job[u] = g
    OBVIOUS
  <2> QED BY <1>1, <2>1, <2>2 DEF At
<1>3. QueuesInjective'
  BY <1>1 DEF QueuesInjective
<1>4. Spots'
  <2>1. \A g \in Fibers : Stays(g)
    BY <1>1, <1>2 DEF Stays
  <2> QED BY <2>1, SpotsKept
<1>5. RunsAtHome'
  BY <1>1, FibersAssumption DEF RunsAtHome
<1>6. Launches'
  BY <1>1 DEF Launches
<1>7. Bound'
  <2>1. ASSUME NEW g \in Fibers
        PROVE  BoundOf(g)'
    BY <1>1, <1>2, BoundKept DEF Bound
  <2> QED BY <2>1 DEF Bound
<1>8. Present /\ (drained[t] # << >> => pc'[t] = "awaken") => Present'
  <2> SUFFICES ASSUME Present, drained[t] # << >> => pc'[t] = "awaken"
               PROVE  Present'
    OBVIOUS
  <2>1. pc'[MainThread] # "crashed" => pc[MainThread] # "crashed"
    BY PlaceTypes
  <2>2. \A u \in Threads : pc'[u] # "crashed" /\ drained'[u] # << >> => pc'[u] = "awaken"
    BY <1>1 DEF Present
  <2>3. \A g \in Fibers : Remains(g)
    BY <1>1, <1>2 DEF Remains
  <2> QED BY <2>1, <2>2, <2>3, PresentKept
<1> QED BY <1>3, <1>4, <1>5, <1>6, <1>7, <1>8

-----------------------------------------------------------------------------
(* pick_next *)

LEMMA ScanPlaces ==
    ASSUME PlaceInv, NEW t \in Threads, NEW p \in Levels, ScanOn(t),
           (AtLocal(t, p) /\ local[t][p] = << >>) \/ AtShared(t, p)
    PROVE  Placed' /\ (Present => Present')
<1> USE DEF PlaceInv, Placed
<1>1. /\ pc[t] = "pick" /\ scan' = [scan EXCEPT ![t] = @ + 1]
      /\ UNCHANGED <<registered, local, shared, remote, drained, props, status, home, pc, running, yielded,
                     job, wanted>>
  BY DEF ScanOn, AtLocal, AtShared, queueVars, fiberVars, launchVars
<1>2. /\ QueuesInjective' /\ RunsAtHome' /\ Launches'
  BY <1>1 DEF QueuesInjective, RunsAtHome, Launches
<1>3. ASSUME NEW g \in Fibers, NEW k \in Kinds, NEW u \in Threads, NEW q \in Levels
      PROVE  At(g, k, u, q)' <=> At(g, k, u, q)
  BY <1>1 DEF At
<1>4. Spots'
  <2>1. \A g \in Fibers : Stays(g)
    BY <1>1, <1>3 DEF Stays
  <2> QED BY <2>1, SpotsKept
<1>5. Dispatching'
  <2>1. ASSUME NEW u \in Threads, u # t
        PROVE  DispatchOf(u)'
    <3>1. scan'[u] = scan[u]
      BY <1>1, <2>1, PlaceTypes
    <3> QED BY <1>1, <2>1, <3>1, DispatchKept DEF Dispatching
  <2>2. DispatchOf(t)'
    <3>1. scan[t] \in Nat /\ scan'[t] = scan[t] + 1
      BY <1>1, PlaceTypes DEF ScanEnd
    <3>2. scan'[t] > 2 * HIGH => scan[t] > 2 * HIGH \/ local[t][HIGH] = << >>
      <4>1. p \in {0, 1, 2} /\ HIGH = 1
        BY DEF Levels, UX, HIGH, LOW
      <4>2. CASE scan[t] = 2 * p /\ local[t][p] = << >>
        BY <3>1, <4>1, <4>2
      <4>3. CASE scan[t] = 2 * p + 1
        BY <3>1, <4>1, <4>3
      <4> QED BY <4>2, <4>3 DEF AtLocal, AtShared
    <3>3. scan'[t] > 2 * HIGH => ~Contains(local[t][HIGH], Dispatcher)
      BY <1>1, <3>2, NothingIn DEF Dispatching, DispatchOf
    <3> QED BY <1>1, <3>3 DEF Dispatching, DispatchOf
  <2> QED BY <1>1, <2>1, <2>2 DEF Dispatching
<1>6. Bound'
  <2>1. ASSUME NEW g \in Fibers
        PROVE  BoundOf(g)'
    BY <1>1, <1>3, BoundKept DEF Bound
  <2> QED BY <2>1 DEF Bound
<1>7. Present => Present'
  <2> SUFFICES ASSUME Present
               PROVE  Present'
    OBVIOUS
  <2>1. \A u \in Threads : pc'[u] # "crashed" /\ drained'[u] # << >> => pc'[u] = "awaken"
    BY <1>1 DEF Present
  <2>2. \A g \in Fibers : Remains(g)
    BY <1>1, <1>3 DEF Remains
  <2> QED BY <1>1, <2>1, <2>2, PresentKept
<1> QED BY <1>2, <1>4, <1>5, <1>6, <1>7

LEMMA PickNothingPlaces ==
    ASSUME PlaceInv, NEW t \in Threads, PickNothing(t)
    PROVE  Placed' /\ (Present => Present')
<1> USE DEF PlaceInv, Placed
<1>1. /\ pc[t] = "pick" /\ scan[t] = ScanEnd
      /\ UNCHANGED <<registered, local, job, wanted>>
      /\ UNCHANGED <<queueVars, fiberVars, job, wanted>>
      /\ \A u \in Threads :
            /\ pc'[u] = IF u = t THEN "suspend" ELSE pc[u]
            /\ scan'[u] = IF u = t THEN 0 ELSE scan[u]
            /\ running'[u] = IF u = t THEN Dispatcher ELSE running[u]
            /\ yielded'[u] = IF u = t THEN NoFiber ELSE yielded[u]
  BY PlaceTypes DEF PickNothing, Goto, launchVars, queueVars
<1>2. running[t] = NoFiber /\ yielded[t] = Dispatcher /\ ~Contains(local[t][HIGH], Dispatcher)
  <2>1. scan[t] > 2 * HIGH
    BY <1>1 DEF ScanEnd, HIGH
  <2>2. NoFiber # Dispatcher
    BY FibersAssumption
  <2> QED BY <1>1, <2>1, <2>2 DEF Dispatching, DispatchOf
<1>3. Dispatching'
  <2>1. ASSUME NEW u \in Threads, u # t
        PROVE  DispatchOf(u)'
    BY <1>1, <2>1, DispatchKept DEF Dispatching
  <2>2. DispatchOf(t)'
    BY <1>1, <1>2 DEF Dispatching, DispatchOf
  <2>3. \A u, v \in Threads : pc'[u] = "crashed" => pc'[v] = "crashed"
    BY <1>1 DEF Dispatching
  <2> QED BY <2>1, <2>2, <2>3 DEF Dispatching
<1>4. Present => drained[t] = << >>
  BY <1>1 DEF Present
<1> QED BY <1>1, <1>2, <1>3, <1>4, FibersAssumption, StillPlaces

(* c is the front of queue q of thread v, and is taken from it; queues is what *)
(* becomes of the local queues.                                               *)
PickedFrom(t, c, queues, l, v, q) ==
    /\ l = "local" => v = t /\ Contains(local[v][q], c)
    /\ l = "shared" => c \in Fibers /\ Contains(shared[v][q], c)
    /\ \A u \in Threads, p \in Levels : \A d :
          /\ Contains(queues[u][p], d) <=>
                Contains(local[u][p], d) /\ ~(l = "local" /\ u = v /\ p = q /\ d = c)
          /\ Contains(shared'[u][p], d) <=>
                Contains(shared[u][p], d) /\ ~(l = "shared" /\ u = v /\ p = q /\ d = c)
    /\ \A u \in Threads, p \in Levels : IsInjective(queues[u][p]) /\ IsInjective(shared'[u][p])

(* The thread switches to c, taken from queue q of thread v; the context it   *)
(* came from joins a queue of its own.                                        *)
LEMMA SwitchPlaces ==
    ASSUME PlaceInv, NEW t \in Threads, NEW c \in Contexts, NEW queues \in Family(Contexts),
           SwitchTo(t, c, queues), pc[t] = "pick",
           NEW l \in {"local", "shared"}, NEW v \in Threads, NEW q \in Levels,
           PickedFrom(t, c, queues, l, v, q)
    PROVE  Placed' /\ (Present => Present')
<1> USE DEF PlaceInv, Placed
<1>0. /\ l = "local" => v = t /\ Contains(local[v][q], c)
      /\ l = "shared" => c \in Fibers /\ Contains(shared[v][q], c)
      /\ \A u \in Threads, p \in Levels : \A d :
            /\ Contains(queues[u][p], d) <=>
                  Contains(local[u][p], d) /\ ~(l = "local" /\ u = v /\ p = q /\ d = c)
            /\ Contains(shared'[u][p], d) <=>
                  Contains(shared[u][p], d) /\ ~(l = "shared" /\ u = v /\ p = q /\ d = c)
      /\ \A u \in Threads, p \in Levels : IsInjective(queues[u][p]) /\ IsInjective(shared'[u][p])
  BY DEF PickedFrom
<1>1. PICK y : y = yielded[t]
  OBVIOUS
<1>2. /\ running' = [running EXCEPT ![t] = c]
      /\ yielded' = [yielded EXCEPT ![t] = NoFiber]
      /\ scan' = [scan EXCEPT ![t] = 0]
      /\ local' = IF y = NoFiber THEN queues
                  ELSE [queues EXCEPT ![t][Priority(y)] = Append(@, y)]
      /\ \/ c = Dispatcher /\ pc' = [pc EXCEPT ![t] = "drain"] /\ UNCHANGED <<status, home>>
         \/ /\ c # Dispatcher /\ pc' = [pc EXCEPT ![t] = "run"]
            /\ status' = [status EXCEPT ![c] = "running"]
            /\ home' = [home EXCEPT ![c] = t]
      /\ UNCHANGED <<registered, remote, drained, props, job, wanted>>
  BY <1>1 DEF SwitchTo, Goto, launchVars
<1>3. /\ l \in Kinds /\ "hand" \in Kinds /\ "local" \in Kinds
      /\ UX \in Levels /\ HIGH \in Levels /\ NoFiber \notin Contexts /\ Dispatcher \notin Fibers
      /\ c # NoFiber /\ NoFiber # Dispatcher
      /\ c # Dispatcher => c \in Fibers
      /\ y # NoFiber => y \in Contexts /\ Priority(y) \in Levels
      /\ y # NoFiber /\ y # Dispatcher => y \in Fibers
  BY <1>1, PlaceTypes DEF Kinds, Contexts
<1>4. running[t] = NoFiber /\ t \in registered
  BY DEF Dispatching, DispatchOf
<1>5. \A u \in Threads :
        /\ u # t => pc'[u] = pc[u]
        /\ pc'[t] = IF c = Dispatcher THEN "drain" ELSE "run"
        /\ running'[u] = IF u = t THEN c ELSE running[u]
        /\ yielded'[u] = IF u = t THEN NoFiber ELSE yielded[u]
        /\ scan'[u] = IF u = t THEN 0 ELSE scan[u]
  BY <1>2, PlaceTypes
<1>6. \A g \in Fibers :
        /\ status'[g] = IF g = c THEN "running" ELSE status[g]
        /\ home'[g] = IF g = c THEN t ELSE home[g]
  BY <1>2, <1>3, PlaceTypes
(* Where c and y are before the step. *)
<1>7. c \in Fibers => At(c, l, v, q)
  BY <1>0 DEF At
<1>8. y \in Fibers => At(y, "hand", t, UX)
  BY <1>1 DEF At
<1>9. c # y
  <2>1. CASE c = Dispatcher
    <3>1. l = "local" /\ v = t /\ q = HIGH
      BY <1>0, <1>3, <2>1 DEF Dispatching, DispatchOf
    <3> QED BY <1>0, <1>1, <2>1, <3>1 DEF Dispatching, DispatchOf
  <2>2. CASE c \in Fibers
    <3>1. c \notin {running[t], yielded[t]}
      BY <1>3, <1>7, <2>2, OnlyThere
    <3> QED BY <1>1, <3>1
  <2> QED BY <1>3, <2>1, <2>2
<1>10. y # NoFiber => ~Contains(local[t][Priority(y)], y)
  <2>1. CASE y = Dispatcher
    <3>1. Priority(y) = HIGH
      BY <2>1, PlaceTypes
    <3>2. ~Contains(local[t][HIGH], Dispatcher)
      BY <1>1, <2>1 DEF Dispatching, DispatchOf
    <3> QED BY <2>1, <3>1, <3>2
  <2>2. CASE y \in Fibers
    BY <1>3, <1>8, <2>2, OnlyThere
  <2> QED BY <1>3, <2>1, <2>2
<1>11. /\ \A u \in Threads, p \in Levels : \A d :
             Contains(local'[u][p], d) <=>
                \/ Contains(local[u][p], d) /\ ~(l = "local" /\ u = v /\ p = q /\ d = c)
                \/ y # NoFiber /\ u = t /\ p = Priority(y) /\ d = y
       /\ \A u \in Threads, p \in Levels : IsInjective(local'[u][p])
  <2>1. CASE y = NoFiber
    BY <1>0, <1>2, <2>1
  <2>2. CASE y # NoFiber
    <3>1. PICK r \in Levels : r = Priority(y)
      BY <1>3, <2>2
    <3>2. Joins(queues, local', t, r, y)
      BY <1>2, <2>2, <3>1 DEF Joins, Family
    <3>3. y \in Contexts /\ queues \in Family(Contexts) /\ r \in Levels /\ t \in Threads
      BY <1>3, <2>2
    <3>4. \A u \in Threads, p \in Levels : \A d :
            Contains(local'[u][p], d) <=> Contains(queues[u][p], d) \/ (u = t /\ p = r /\ d = y)
      <4>1. Gains(queues, local', t, r, y)
        BY <3>2, <3>3, FamilyGains
      <4> QED BY <4>1 DEF Gains
    <3>5. ~Contains(queues[t][r], y) /\ \A u \in Threads, p \in Levels : IsInjective(queues[u][p])
      BY <1>0, <1>10, <2>2, <3>1
    <3>6. \A u \in Threads, p \in Levels : IsInjective(local'[u][p])
      BY <3>2, <3>3, <3>5, FamilyJoined
    <3> QED BY <1>0, <2>2, <3>1, <3>4, <3>6
  <2> QED BY <2>1, <2>2
<1>12. ASSUME NEW g \in Fibers, NEW k \in Kinds, NEW u \in Threads, NEW p \in Levels
       PROVE  At(g, k, u, p)' <=> IF g = c THEN k = "hand" /\ u = t /\ p = UX
                                  ELSE IF g = y THEN k = "local" /\ u = t /\ p = Priority(y)
                                  ELSE At(g, k, u, p)
  <2>1. pc'[u] = "push" /\ job'[u] = g <=> pc[u] = "push" /\ job[u] = g
    BY <1>2, <1>5
  <2>2. g \in {running'[u], yielded'[u]} <=>
          IF u = t THEN g = c ELSE g \in {running[u], yielded[u]}
    BY <1>3, <1>5, FibersAssumption
  <2>3. CASE g = c
    <3>1. /\ \A w \in Threads, r \in Levels :
                /\ Contains(local[w][r], c) <=> l = "local" /\ w = v /\ r = q
                /\ Contains(shared[w][r], c) <=> l = "shared" /\ w = v /\ r = q
          /\ \A w \in Threads :
                /\ ~Contains(remote[w], c) /\ ~Contains(drained[w], c)
                /\ c \notin {running[w], yielded[w]}
                /\ ~(pc[w] = "push" /\ job[w] = c)
      BY <1>3, <1>7, <2>3, OnlyThere
    <3>2. /\ \A w \in Threads, r \in Levels : ~Contains(local'[w][r], c) /\ ~Contains(shared'[w][r], c)
          /\ ~Contains(remote'[u], c) /\ ~Contains(drained'[u], c)
      BY <1>0, <1>2, <1>9, <1>11, <3>1
    <3> QED BY <2>1, <2>2, <2>3, <3>1, <3>2 DEF At
  <2>4. CASE g = y
    <3>1. /\ \A w \in Threads, r \in Levels : ~Contains(local[w][r], y) /\ ~Contains(shared[w][r], y)
          /\ \A w \in Threads :
                /\ ~Contains(remote[w], y) /\ ~Contains(drained[w], y)
                /\ y \in {running[w], yielded[w]} <=> w = t
                /\ ~(pc[w] = "push" /\ job[w] = y)
      BY <1>3, <1>8, <2>4, OnlyThere
    <3>2. /\ \A w \in Threads, r \in Levels :
                /\ Contains(local'[w][r], y) <=> w = t /\ r = Priority(y)
                /\ ~Contains(shared'[w][r], y)
      <4>1. y # NoFiber /\ Priority(y) \in Levels
        BY <1>3, <2>4, FibersAssumption
      <4>2. ASSUME NEW w \in Threads, NEW r \in Levels
            PROVE  Contains(local'[w][r], y) <=> w = t /\ r = Priority(y)
        <5>1. ~Contains(local[w][r], y)
          BY <3>1
        <5> QED BY <1>11, <4>1, <5>1
      <4> QED BY <1>0, <3>1, <4>2
    <3>3. ~Contains(remote'[u], y) /\ ~Contains(drained'[u], y)
      BY <1>2, <3>1
    <3> QED BY <1>9, <2>1, <2>2, <2>4, <3>1, <3>2, <3>3 DEF At
  <2>5. CASE g # c /\ g # y
    <3>1. /\ Contains(local'[u][p], g) <=> Contains(local[u][p], g)
          /\ Contains(shared'[u][p], g) <=> Contains(shared[u][p], g)
      BY <1>0, <1>11, <2>5
    <3>2. g \in {running'[u], yielded'[u]} <=> g \in {running[u], yielded[u]}
      BY <1>1, <1>4, <2>2, <2>5, FibersAssumption
    <3> QED BY <1>2, <2>1, <2>5, <3>1, <3>2 DEF At
  <2> QED BY <2>3, <2>4, <2>5
<1>13. QueuesInjective'
  BY <1>0, <1>2, <1>11 DEF QueuesInjective
<1>14. y \in Fibers => status[y] \in Alive
  BY <1>3, <1>8, OnlyThere
<1>15. Spots'
  <2>1. \A g \in Fibers : g # c /\ g # y => Stays(g)
    BY <1>6, <1>12 DEF Stays
  <2>2. c \in Fibers => Lands(c)
    <3> SUFFICES ASSUME c \in Fibers
                 PROVE  Lands(c)
      OBVIOUS
    <3>1. status'[c] \in Alive
      BY <1>6 DEF Alive
    <3>2. \A k \in Kinds, u \in Threads, p \in Levels : At(c, k, u, p)' => k = "hand" /\ u = t /\ p = UX
      BY <1>12
    <3>3. LandsIn(c, "hand", t, UX)
      BY <3>2 DEF LandsIn
    <3> QED BY <1>3, <3>1, <3>3 DEF Lands
  <2>3. y \in Fibers => Lands(y)
    <3> SUFFICES ASSUME y \in Fibers
                 PROVE  Lands(y)
      OBVIOUS
    <3>1. status'[y] \in Alive /\ Priority(y) \in Levels
      BY <1>3, <1>6, <1>9, <1>14, PlaceTypes
    <3>2. \A k \in Kinds, u \in Threads, p \in Levels :
            At(y, k, u, p)' => k = "local" /\ u = t /\ p = Priority(y)
      BY <1>9, <1>12
    <3>3. LandsIn(y, "local", t, Priority(y))
      BY <3>2 DEF LandsIn
    <3> QED BY <1>3, <3>1, <3>3 DEF Lands
  <2> QED BY <2>1, <2>2, <2>3, SpotsKept
<1>16. RunsAtHome'
  <2> SUFFICES ASSUME NEW u \in Threads, running'[u] \in Fibers
               PROVE  status'[running'[u]] = "running" /\ home'[running'[u]] = u
    BY DEF RunsAtHome
  <2>1. CASE u = t
    BY <1>5, <1>6, <2>1
  <2>2. CASE u # t
    <3>1. running[u] # c
      <4>1. CASE c \in Fibers
        BY <1>3, <1>7, <4>1, OnlyThere
      <4>2. CASE c \notin Fibers
        BY <1>5, <2>2, <4>2
      <4> QED BY <4>1, <4>2
    <3> QED BY <1>5, <1>6, <2>2, <3>1 DEF RunsAtHome
  <2> QED BY <2>1, <2>2
<1>17. Launches'
  <2>1. \A g \in Fibers : status'[g] = "new" => props'[g] = Default
    BY <1>2, <1>6 DEF Launches
  <2>2. ASSUME NEW u \in Threads, pc'[u] \in {"properties", "unlink", "push"}
        PROVE  u # t /\ pc'[u] = pc[u]
    BY <1>5, <2>2
  <2>3. \A u \in Threads : u # t => \A d : Contains(local[u][HIGH], d) => Contains(local'[u][HIGH], d)
    BY <1>0, <1>3, <1>11
  <2> QED BY <1>2, <2>1, <2>2, <2>3 DEF Launches
<1>18. Dispatching'
  <2>1. ASSUME NEW u \in Threads, u # t
        PROVE  DispatchOf(u)'
    <3>1. \A p \in Levels : Contains(local'[u][p], Dispatcher) <=> Contains(local[u][p], Dispatcher)
      BY <1>0, <1>11, <2>1
    <3> QED BY <1>2, <1>5, <2>1, <3>1, DispatchKept DEF Dispatching
  <2>2. DispatchOf(t)'
    <3>1. DispatchOf(t)
      BY DEF Dispatching
    <3>2. \A p \in Levels : Contains(local'[t][p], Dispatcher) => p = HIGH
      BY <1>3, <1>11, <3>1, PlaceTypes DEF DispatchOf
    <3>3. CASE c = Dispatcher
      <4>1. l = "local" /\ v = t /\ q = HIGH
        BY <1>0, <1>3, <3>1, <3>3 DEF DispatchOf
      <4>2. ~Contains(local'[t][HIGH], Dispatcher)
        BY <1>3, <1>9, <1>11, <3>3, <4>1
      <4> QED BY <1>2, <1>3, <1>4, <1>5, <3>1, <3>2, <3>3, <4>2 DEF DispatchOf
    <3>4. CASE c # Dispatcher
      <4>1. Contains(local[t][HIGH], Dispatcher) \/ y = Dispatcher
        BY <1>1, <1>3, <1>4, <3>1 DEF DispatchOf
      <4>2. Contains(local'[t][HIGH], Dispatcher)
        BY <1>3, <1>11, <3>4, <4>1, PlaceTypes
      <4> QED BY <1>2, <1>3, <1>4, <1>5, <3>1, <3>2, <3>4, <4>2 DEF DispatchOf
    <3> QED BY <3>3, <3>4
  <2>3. \A u, w \in Threads : pc'[u] = "crashed" => pc'[w] = "crashed"
    BY <1>5 DEF Dispatching
  <2> QED BY <2>1, <2>2, <2>3 DEF Dispatching
<1>19. Bound'
  <2>1. ASSUME NEW g \in Fibers
        PROVE  BoundOf(g)'
    <3>1. Required(g)' = Required(g) /\ BoundOf(g)
      BY <1>2 DEF Required, Bound
    <3>2. CASE g = c
      <4>1. Required(c) # AnyThread => Required(c) = t
        BY <1>0, <1>3, <1>7, <3>1, <3>2 DEF BoundOf
      <4> QED BY <1>6, <1>12, <3>1, <3>2, <4>1 DEF BoundOf
    <3>3. CASE g = y
      <4>1. Required(y) # AnyThread => Required(y) = t
        BY <1>3, <1>8, <3>1, <3>3 DEF BoundOf
      <4>2. status'[y] \in Alive
        BY <1>6, <1>9, <1>14, <3>3
      <4> QED BY <1>9, <1>12, <3>1, <3>3, <4>1, <4>2 DEF BoundOf, Alive
    <3>4. CASE g # c /\ g # y
      <4>1. \A u \in Threads : pc[u] \in {"unlink", "crashed"} /\ job[u] = g =>
              pc'[u] \in {"unlink", "crashed"} /\ job'[u] = g
        BY <1>2, <1>5
      <4> QED BY <1>2, <1>6, <1>12, <3>1, <3>4, <4>1, BoundKept
    <3> QED BY <3>2, <3>3, <3>4
  <2> QED BY <2>1 DEF Bound
<1>20. Present => Present'
  <2> SUFFICES ASSUME Present
               PROVE  Present'
    OBVIOUS
  <2>1. pc'[MainThread] # "crashed" => pc[MainThread] # "crashed"
    BY <1>5, PlaceTypes
  <2>2. \A u \in Threads : pc'[u] # "crashed" /\ drained'[u] # << >> => pc'[u] = "awaken"
    BY <1>2, <1>5 DEF Present
  <2>3. \A g \in Fibers : Remains(g) \/ Arrives(g)
    <3>1. \A g \in Fibers : g # c /\ g # y => Remains(g)
      BY <1>6, <1>12 DEF Remains
    <3>2. \A g \in Fibers : g = c \/ g = y => Arrives(g)
      BY <1>3, <1>9, <1>12, PlaceTypes DEF Arrives
    <3> QED BY <3>1, <3>2
  <2> QED BY <2>1, <2>2, <2>3, PresentKept
<1> QED BY <1>13, <1>15, <1>16, <1>17, <1>18, <1>19, <1>20

LEMMA PickPlaces ==
    ASSUME PlaceInv, NEW t \in Threads, PickStep(t)
    PROVE  Placed' /\ (Present => Present')
<1>1. /\ local \in Family(Contexts) /\ shared \in Family(Fibers)
      /\ \A u \in Threads, p \in Levels : IsInjective(local[u][p]) /\ IsInjective(shared[u][p])
      /\ Fibers \subseteq Contexts
  BY PlaceTypes DEF PlaceInv, Placed, QueuesInjective
<1>2. ASSUME NEW p \in Levels, PickLocal(t, p)
      PROVE  Placed' /\ (Present => Present')
  <2>1. CASE local[t][p] = << >>
    BY <1>2, <2>1, ScanPlaces DEF PickLocal
  <2>2. CASE local[t][p] # << >>
    <3> DEFINE queues == [local EXCEPT ![t][p] = Tail(@)]
    <3>1. PICK c : c = Head(local[t][p])
      OBVIOUS
    <3>2. local[t][p] \in Seq(Contexts)
      BY <1>1 DEF Family
    <3>3. c \in Contexts /\ Tail(local[t][p]) \in Seq(Contexts)
      BY <2>2, <3>1, <3>2, FrontType
    <3>4. queues \in Family(Contexts)
      BY <1>1, <3>3 DEF Family
    <3>5. Leaves(local, queues, t, p)
      BY <1>1 DEF Leaves, Family
    <3>6. SwitchTo(t, c, queues) /\ pc[t] = "pick" /\ UNCHANGED shared
      BY <1>2, <2>2, <3>1 DEF PickLocal, AtLocal
    <3> HIDE DEF queues
    <3>7. Contains(local[t][p], c)
      BY <1>1, <2>2, <3>1, <3>5, FamilyLeft
    <3>8. \A u \in Threads, l \in Levels : \A d :
            Contains(queues[u][l], d) <=>
               Contains(local[u][l], d) /\ ~(u = t /\ l = p /\ d = Head(local[t][p]))
      BY <1>1, <2>2, <3>5, FamilyLeft
    <3>9. \A u \in Threads, l \in Levels : IsInjective(queues[u][l])
      BY <1>1, <2>2, <3>5, FamilyLeft
    <3>10. PickedFrom(t, c, queues, "local", t, p)
      BY <1>1, <3>1, <3>6, <3>7, <3>8, <3>9 DEF PickedFrom
    <3>11. "local" \in {"local", "shared"}
      OBVIOUS
    <3> QED BY <3>3, <3>4, <3>6, <3>10, <3>11, SwitchPlaces
  <2> QED BY <2>1, <2>2
<1>3. ASSUME NEW u \in Threads, NEW p \in Levels, pc[t] = "pick", shared[u][p] # << >>,
             SwitchTo(t, Head(shared[u][p]), local), shared' = [shared EXCEPT ![u][p] = Tail(@)]
      PROVE  Placed' /\ (Present => Present')
  <2>1. PICK c : c = Head(shared[u][p])
    OBVIOUS
  <2>2. shared[u][p] \in Seq(Fibers)
    BY <1>1 DEF Family
  <2>3. c \in Fibers
    BY <1>3, <2>1, <2>2, FrontType
  <2>4. PICK r : r = shared'
    OBVIOUS
  <2>5. Leaves(shared, r, u, p)
    BY <1>1, <1>3, <2>4 DEF Leaves, Family
  <2>6. shared[u][p] # << >> /\ \A v \in Threads, l \in Levels : IsInjective(shared[v][l])
    BY <1>1, <1>3
  <2>7. Contains(shared[u][p], c)
    BY <1>1, <2>1, <2>5, <2>6, FamilyLeft
  <2>8. \A v \in Threads, l \in Levels : \A d :
          Contains(r[v][l], d) <=>
             Contains(shared[v][l], d) /\ ~(v = u /\ l = p /\ d = Head(shared[u][p]))
    BY <1>1, <2>5, <2>6, FamilyLeft
  <2>9. \A v \in Threads, l \in Levels : IsInjective(r[v][l])
    BY <1>1, <2>5, <2>6, FamilyLeft
  <2>10. \A v \in Threads, l \in Levels : \A d :
          Contains(shared'[v][l], d) <=>
             Contains(shared[v][l], d) /\ ~(v = u /\ l = p /\ d = Head(shared[u][p]))
    BY <2>4, <2>8
  <2>11. \A v \in Threads, l \in Levels : IsInjective(shared'[v][l])
    BY <2>4, <2>9
  <2>12. PickedFrom(t, c, local, "shared", u, p)
    BY <1>1, <2>1, <2>3, <2>7, <2>10, <2>11 DEF PickedFrom
  <2>13. "shared" \in {"local", "shared"} /\ SwitchTo(t, c, local) /\ c \in Contexts
    BY <1>1, <1>3, <2>1, <2>3
  <2> QED BY <1>1, <1>3, <2>12, <2>13, SwitchPlaces
<1>4. ASSUME NEW p \in Levels, GiveUp(t, p)
      PROVE  Placed' /\ (Present => Present')
  BY <1>4, ScanPlaces DEF GiveUp
<1> QED BY <1>2, <1>3, <1>4, PickNothingPlaces DEF PickStep, PickShared, Steal, AtShared

-----------------------------------------------------------------------------
(* The dispatcher *)

LEMMA DrainPlaces ==
    ASSUME PlaceInv, NEW t \in Threads, Drain(t)
    PROVE  Placed' /\ (Present => Present')
<1> USE DEF PlaceInv, Placed
<1>1. /\ pc[t] = "drain"
      /\ UNCHANGED <<registered, local, shared, props, status, home, running, yielded, scan, job, wanted>>
      /\ \A u \in Threads :
            /\ pc'[u] = IF u = t THEN "awaken" ELSE pc[u]
            /\ drained'[u] = IF u = t THEN remote[t] ELSE drained[u]
            /\ remote'[u] = IF u = t THEN << >> ELSE remote[u]
  BY PlaceTypes DEF Drain, Goto, fiberVars, pickVars, launchVars, Lists
<1>2. "remote" \in Kinds /\ "drained" \in Kinds /\ UX \in Levels /\ HIGH \in Levels
  BY DEF Kinds, Levels
<1>3. QueuesInjective'
  BY <1>1, NothingIn DEF QueuesInjective
<1>4. ASSUME NEW g \in Fibers, ~Contains(remote[t], g), NEW k \in Kinds, NEW u \in Threads, NEW p \in Levels
      PROVE  /\ At(g, k, u, p)' => At(g, k, u, p)
             /\ drained[t] = << >> => (At(g, k, u, p) => At(g, k, u, p)')
  <2>1. pc'[u] = "push" /\ job'[u] = g <=> pc[u] = "push" /\ job[u] = g
    BY <1>1
  <2>2. Contains(remote'[u], g) <=> Contains(remote[u], g)
    BY <1>1, <1>4, NothingIn
  <2>3. /\ Contains(drained'[u], g) => Contains(drained[u], g)
        /\ drained[t] = << >> => (Contains(drained[u], g) => Contains(drained'[u], g))
    BY <1>1, <1>4, NothingIn
  <2> QED BY <1>1, <2>1, <2>2, <2>3 DEF At
<1>5. ASSUME NEW g \in Fibers, Contains(remote[t], g), NEW k \in Kinds, NEW u \in Threads, NEW p \in Levels
      PROVE  At(g, k, u, p)' <=> k = "drained" /\ u = t /\ p = UX
  <2>1. At(g, "remote", t, UX)
    BY <1>5 DEF At
  <2>2. /\ \A v \in Threads, q \in Levels : ~Contains(local[v][q], g) /\ ~Contains(shared[v][q], g)
        /\ \A v \in Threads :
              /\ Contains(remote[v], g) <=> v = t
              /\ ~Contains(drained[v], g)
              /\ g \notin {running[v], yielded[v]}
              /\ ~(pc[v] = "push" /\ job[v] = g)
    BY <1>2, <2>1, OnlyThere
  <2>3. ~Contains(remote'[u], g) /\ (Contains(drained'[u], g) <=> u = t)
    BY <1>1, <2>2, NothingIn
  <2>4. ~(pc'[u] = "push" /\ job'[u] = g)
    BY <1>1, <2>2
  <2> QED BY <1>1, <2>2, <2>3, <2>4 DEF At
<1>6. ASSUME NEW g \in Fibers, Contains(remote[t], g)
      PROVE  At(g, "remote", t, UX) /\ status[g] \in Alive
  <2>1. At(g, "remote", t, UX)
    BY <1>6 DEF At
  <2> QED BY <1>2, <2>1, OnlyThere
<1>7. Spots'
  <2>1. \A g \in Fibers : ~Contains(remote[t], g) => Stays(g)
    BY <1>1, <1>4 DEF Stays
  <2>2. ASSUME NEW g \in Fibers, Contains(remote[t], g)
        PROVE  Lands(g)
    <3>1. LandsIn(g, "drained", t, UX)
      BY <1>5, <2>2 DEF LandsIn
    <3> QED BY <1>1, <1>2, <1>6, <2>2, <3>1 DEF Lands
  <2> QED BY <2>1, <2>2, SpotsKept
<1>8. RunsAtHome' /\ Launches'
  BY <1>1 DEF RunsAtHome, Launches
<1>9. Dispatching'
  <2>1. ASSUME NEW u \in Threads, u # t
        PROVE  DispatchOf(u)'
    BY <1>1, <2>1, DispatchKept DEF Dispatching
  <2>2. DispatchOf(t)'
    BY <1>1 DEF Dispatching, DispatchOf
  <2>3. \A u, v \in Threads : pc'[u] = "crashed" => pc'[v] = "crashed"
    BY <1>1 DEF Dispatching
  <2> QED BY <2>1, <2>2, <2>3 DEF Dispatching
<1>10. Bound'
  <2>1. ASSUME NEW g \in Fibers, ~Contains(remote[t], g)
        PROVE  BoundOf(g)'
    <3>1. \A u \in Threads : pc[u] \in {"unlink", "crashed"} /\ job[u] = g =>
            pc'[u] \in {"unlink", "crashed"} /\ job'[u] = g
      BY <1>1
    <3> QED BY <1>1, <1>4, <2>1, <3>1, BoundKept DEF Bound
  <2>2. ASSUME NEW g \in Fibers, Contains(remote[t], g)
        PROVE  BoundOf(g)'
    <3>1. Required(g)' = Required(g) /\ (Required(g) # AnyThread => Required(g) = t)
      BY <1>1, <1>2, <1>6, <2>2 DEF Required, Bound, BoundOf
    <3> QED BY <1>1, <1>5, <1>6, <2>2, <3>1 DEF BoundOf, Alive
  <2> QED BY <2>1, <2>2 DEF Bound
<1>11. Present => Present'
  <2> SUFFICES ASSUME Present
               PROVE  Present'
    OBVIOUS
  <2>1. pc'[MainThread] # "crashed" => pc[MainThread] # "crashed"
    BY <1>1, PlaceTypes
  <2>2. \A u \in Threads : pc'[u] # "crashed" /\ drained'[u] # << >> => pc'[u] = "awaken"
    BY <1>1 DEF Present
  <2>3. drained[t] = << >>
    BY <1>1 DEF Present
  <2>4. \A g \in Fibers : ~Contains(remote[t], g) => Remains(g)
    BY <1>1, <1>4, <2>3 DEF Remains
  <2>5. \A g \in Fibers : Contains(remote[t], g) => Arrives(g)
    BY <1>2, <1>5 DEF Arrives
  <2> QED BY <2>1, <2>2, <2>4, <2>5, PresentKept
<1> QED BY <1>3, <1>7, <1>8, <1>9, <1>10, <1>11

(* The dispatcher awakens a fiber: the first it drained, or one that was not  *)
(* anywhere.                                                                  *)
LEMMA AwakenPlaces ==
    ASSUME PlaceInv, NEW t \in Threads,
           AwakenRemote(t) \/ \E f \in Fibers : AwakenDue(t, f)
    PROVE  Placed' /\ (Present => Present')
<1> USE DEF PlaceInv, Placed
<1>1. /\ pc[t] = "awaken" /\ drained \in Lists(Fibers)
      /\ UNCHANGED <<registered, shared, remote, props, home, pc, running, yielded, scan, job, wanted>>
  BY PlaceTypes DEF AwakenRemote, AwakenDue, fiberVars, pickVars, launchVars
<1>2. PICK c \in Fibers :
        /\ local' = Awaken(t, c)
        /\ ~Contains(local[t][Priority(c)], c)
        /\ \A u \in Threads, p \in Levels : ~Contains(local[u][p], c) /\ ~Contains(shared[u][p], c)
        /\ \A u \in Threads :
              /\ ~Contains(remote[u], c) /\ c \notin {running[u], yielded[u]}
              /\ ~(pc[u] = "push" /\ job[u] = c)
        /\ Required(c) # AnyThread => Required(c) = t
        /\ \A u \in Threads : \A d :
              Contains(drained'[u], d) <=> Contains(drained[u], d) /\ d # c
        /\ \A u \in Threads : IsInjective(drained'[u])
        /\ drained[t] = << >> => drained'[t] = << >>
        /\ \A u \in Threads : u # t => drained'[u] = drained[u]
        /\ status'[c] \in Alive
        /\ \A g \in Fibers : g # c => status'[g] = status[g]
  <2>1. CASE AwakenRemote(t)
    <3>1. PICK c : c = Head(drained[t])
      OBVIOUS
    <3>2. /\ drained[t] # << >> /\ local' = Awaken(t, c) /\ drained' = [drained EXCEPT ![t] = Tail(@)]
          /\ status' = status
      BY <2>1, <3>1 DEF AwakenRemote, fiberVars
    <3>3. drained[t] \in Seq(Fibers)
      BY <1>1 DEF Lists
    <3>4. c \in Fibers
      BY <3>1, <3>2, <3>3, FrontType
    <3>5. LeavesList(drained, drained', t) /\ \A u \in Threads : IsInjective(drained[u])
      BY <1>1, <3>2 DEF LeavesList, Lists, QueuesInjective
    <3>6. Contains(drained[t], c)
      BY <1>1, <3>1, <3>2, <3>5, ListLeft
    <3>7. \A u \in Threads : \A d :
            Contains(drained'[u], d) <=> Contains(drained[u], d) /\ ~(u = t /\ d = Head(drained[t]))
      BY <1>1, <3>2, <3>5, ListLeft
    <3>8. \A u \in Threads : IsInjective(drained'[u])
      BY <1>1, <3>2, <3>5, ListLeft
    <3>9. At(c, "drained", t, UX) /\ "drained" \in Kinds /\ UX \in Levels
      BY <3>6 DEF At, Kinds, Levels
    <3>10. /\ \A u \in Threads, p \in Levels : ~Contains(local[u][p], c) /\ ~Contains(shared[u][p], c)
           /\ \A u \in Threads :
                 /\ ~Contains(remote[u], c) /\ c \notin {running[u], yielded[u]}
                 /\ Contains(drained[u], c) <=> u = t
                 /\ ~(pc[u] = "push" /\ job[u] = c)
           /\ status[c] \in Alive
      BY <3>4, <3>9, OnlyThere
    <3>11. Required(c) # AnyThread => Required(c) = t
      BY <3>4, <3>9 DEF Bound, BoundOf
    <3>12. \A u \in Threads : \A d : Contains(drained'[u], d) <=> Contains(drained[u], d) /\ d # c
      BY <3>1, <3>7, <3>10
    <3>13. \A u \in Threads : u # t => drained'[u] = drained[u]
      BY <1>1, <3>2 DEF Lists
    <3>14. ~Contains(local[t][Priority(c)], c)
      BY <3>4, <3>10, PlaceTypes
    <3> QED BY <3>2, <3>4, <3>8, <3>10, <3>11, <3>12, <3>13, <3>14
  <2>2. ASSUME NEW c \in Fibers, AwakenDue(t, c)
        PROVE  /\ local' = Awaken(t, c)
               /\ ~Contains(local[t][Priority(c)], c)
               /\ \A u \in Threads, p \in Levels : ~Contains(local[u][p], c) /\ ~Contains(shared[u][p], c)
               /\ \A u \in Threads :
                     /\ ~Contains(remote[u], c) /\ c \notin {running[u], yielded[u]}
                     /\ ~(pc[u] = "push" /\ job[u] = c)
               /\ Required(c) # AnyThread => Required(c) = t
               /\ \A u \in Threads : \A d :
                     Contains(drained'[u], d) <=> Contains(drained[u], d) /\ d # c
               /\ \A u \in Threads : IsInjective(drained'[u])
               /\ drained[t] = << >> => drained'[t] = << >>
               /\ \A u \in Threads : u # t => drained'[u] = drained[u]
               /\ status'[c] \in Alive
               /\ \A g \in Fibers : g # c => status'[g] = status[g]
    <3>1. /\ status[c] = "due" /\ home[c] = t /\ local' = Awaken(t, c) /\ drained' = drained
          /\ status' = [status EXCEPT ![c] = "ready"]
      BY <2>2 DEF AwakenDue, Due
    <3>2. Nowhere(c)
      BY <3>1 DEF Spots, Alive
    <3>3. Required(c) # AnyThread => Required(c) = t
      BY <3>1 DEF Bound, BoundOf
    <3>4. /\ \A u \in Threads, p \in Levels : ~Contains(local[u][p], c) /\ ~Contains(shared[u][p], c)
          /\ \A u \in Threads :
                /\ ~Contains(remote[u], c) /\ c \notin {running[u], yielded[u]}
                /\ ~Contains(drained[u], c)
                /\ ~(pc[u] = "push" /\ job[u] = c)
      BY <3>2, NotThere
    <3>5. \A u \in Threads : \A d : Contains(drained'[u], d) <=> Contains(drained[u], d) /\ d # c
      BY <3>1, <3>4
    <3>6. \A g \in Fibers : status'[g] = IF g = c THEN "ready" ELSE status[g]
      BY <3>1, PlaceTypes
    <3>7. ~Contains(local[t][Priority(c)], c)
      BY <3>4, PlaceTypes
    <3> QED BY <3>1, <3>3, <3>4, <3>5, <3>6, <3>7 DEF QueuesInjective, Alive
  <2> QED BY <2>1, <2>2
<1>3. c \in Contexts /\ c # Dispatcher /\ "local" \in Kinds /\ Priority(c) \in Levels /\ HIGH \in Levels
  BY PlaceTypes DEF Kinds
<1>4. \A u \in Threads, p \in Levels : \A d :
        Contains(local'[u][p], d) <=> Contains(local[u][p], d) \/ (u = t /\ p = Priority(c) /\ d = c)
  BY <1>2, <1>3, Awakened
<1>5. QueuesInjective'
  <2>1. \A u \in Threads, p \in Levels : IsInjective(local'[u][p])
    BY <1>2, <1>3, Awakened
  <2> QED BY <1>1, <1>2, <2>1 DEF QueuesInjective
<1>6. ASSUME NEW g \in Fibers, NEW k \in Kinds, NEW u \in Threads, NEW p \in Levels
      PROVE  At(g, k, u, p)' <=> IF g = c THEN k = "local" /\ u = t /\ p = Priority(c)
                                 ELSE At(g, k, u, p)
  <2>1. CASE g = c
    <3>1. Contains(local'[u][p], c) <=> u = t /\ p = Priority(c)
      BY <1>2, <1>4
    <3>2. ~Contains(drained'[u], c)
      BY <1>2
    <3> QED BY <1>1, <1>2, <2>1, <3>1, <3>2 DEF At
  <2>2. CASE g # c
    <3>1. /\ Contains(local'[u][p], g) <=> Contains(local[u][p], g)
          /\ Contains(drained'[u], g) <=> Contains(drained[u], g)
      BY <1>2, <1>4, <2>2
    <3> QED BY <1>1, <2>2, <3>1 DEF At
  <2> QED BY <2>1, <2>2
<1>7. Spots'
  <2>1. \A g \in Fibers : g # c => Stays(g)
    BY <1>2, <1>6 DEF Stays
  <2>2. LandsIn(c, "local", t, Priority(c))
    BY <1>6 DEF LandsIn
  <2>3. Lands(c)
    BY <1>2, <1>3, <2>2 DEF Lands
  <2> QED BY <2>1, <2>3, SpotsKept
<1>8. RunsAtHome'
  <2>1. \A u \in Threads : running[u] # c
    BY <1>2
  <2> QED BY <1>1, <1>2, <2>1 DEF RunsAtHome
<1>9. Launches'
  <2>1. \A g \in Fibers : status'[g] = "new" => props'[g] = Default
    BY <1>1, <1>2 DEF Launches, Alive
  <2>2. \A u \in Threads : Contains(local[u][HIGH], job[u]) => Contains(local'[u][HIGH], job[u])
    BY <1>3, <1>4
  <2> QED BY <1>1, <2>1, <2>2 DEF Launches
<1>10. Dispatching'
  <2>1. \A u \in Threads, p \in Levels : Contains(local'[u][p], Dispatcher) <=> Contains(local[u][p], Dispatcher)
    BY <1>3, <1>4
  <2>2. ASSUME NEW u \in Threads
        PROVE  DispatchOf(u)'
    BY <1>1, <2>1, DispatchKept DEF Dispatching
  <2> QED BY <1>1, <2>2 DEF Dispatching
<1>11. Bound'
  <2>1. BoundOf(c)'
    <3>1. Required(c)' = Required(c)
      BY <1>1 DEF Required
    <3> QED BY <1>2, <1>6, <3>1 DEF BoundOf, Alive
  <2>2. ASSUME NEW g \in Fibers, g # c
        PROVE  BoundOf(g)'
    BY <1>1, <1>2, <1>6, <2>2, BoundKept DEF Bound
  <2> QED BY <2>1, <2>2 DEF Bound
<1>12. Present => Present'
  <2> SUFFICES ASSUME Present
               PROVE  Present'
    OBVIOUS
  <2>1. \A u \in Threads : pc'[u] # "crashed" /\ drained'[u] # << >> => pc'[u] = "awaken"
    BY <1>1, <1>2 DEF Present
  <2>2. \A g \in Fibers : Remains(g) \/ Arrives(g)
    BY <1>2, <1>3, <1>6 DEF Remains, Arrives
  <2> QED BY <1>1, <2>1, <2>2, PresentKept
<1> QED BY <1>5, <1>7, <1>8, <1>9, <1>10, <1>11, <1>12

LEMMA DrainedPlaces ==
    ASSUME PlaceInv, NEW t \in Threads, Drained(t)
    PROVE  Placed' /\ (Present => Present')
<1> USE DEF PlaceInv, Placed
<1>1. /\ pc[t] = "awaken" /\ drained[t] = << >> /\ StartPick(t, Dispatcher)
      /\ UNCHANGED <<registered, local>> /\ UNCHANGED <<queueVars, fiberVars, job, wanted>>
  BY DEF Drained, queueVars, launchVars
<1>2. running[t] = Dispatcher /\ yielded[t] = NoFiber
  BY <1>1 DEF Dispatching, DispatchOf
<1>3. \A u \in Threads :
        /\ pc'[u] = IF u = t THEN "pick" ELSE pc[u]
        /\ running'[u] = IF u = t THEN NoFiber ELSE running[u]
        /\ yielded'[u] = IF u = t THEN Dispatcher ELSE yielded[u]
  BY <1>1, PlaceTypes DEF StartPick
<1>4. /\ QueuesInjective' /\ Spots' /\ RunsAtHome' /\ Launches' /\ Bound'
      /\ Present => Present'
  BY <1>1, <1>2, <1>3, FibersAssumption, StillPlaces
<1>5. Dispatching'
  BY <1>1, <1>2, StartPickDispatch
<1> QED BY <1>4, <1>5

LEMMA SleepPlaces ==
    ASSUME PlaceInv, NEW t \in Threads, SkipSleep(t) \/ Sleep(t) \/ TimeOut(t)
    PROVE  Placed' /\ (Present => Present')
<1>1. UNCHANGED <<queueVars, fiberVars, registered, pickVars, job, wanted>>
  BY DEF SkipSleep, Sleep, TimeOut, launchVars
<1>2. PICK label \in {"sleep", "drain"} : pc' = [pc EXCEPT ![t] = label]
  BY DEF SkipSleep, Sleep, TimeOut, Goto
<1>3. pc[t] \in {"sleep", "suspend"}
  BY DEF SkipSleep, Sleep, TimeOut
<1>4. \A u \in Threads : pc'[u] = IF u = t THEN label ELSE pc[u]
  BY <1>2, PlaceTypes DEF PlaceInv
<1> QED BY <1>1, <1>3, <1>4, QuietPlaces

(* A thread enters the scheduler: its dispatcher runs. *)
LEMMA RegisterPlaces ==
    ASSUME PlaceInv, NEW t \in Threads, Register(t)
    PROVE  Placed' /\ (Present => Present')
<1> USE DEF PlaceInv, Placed
<1>1. /\ pc[t] = "start" /\ registered' = registered \cup {t}
      /\ UNCHANGED <<yielded, scan, job, wanted>> /\ UNCHANGED <<queueVars, fiberVars, job, wanted>>
      /\ local' = local
  BY DEF Register, queueVars, launchVars
<1>2. /\ \A u \in Threads :
           /\ pc'[u] = IF u = t THEN "drain" ELSE pc[u]
           /\ running'[u] = IF u = t THEN Dispatcher ELSE running[u]
      /\ registered \subseteq Threads /\ HIGH \in Levels
  BY PlaceTypes DEF Register, Goto
<1>3. DispatchOf(t) /\ running[t] = NoFiber /\ yielded[t] = NoFiber /\ t \notin registered
  BY <1>1 DEF Dispatching, DispatchOf
<1>4. /\ QueuesInjective' /\ Spots' /\ RunsAtHome' /\ Launches' /\ Bound'
      /\ Present => Present'
  <2>1. /\ QueuesInjective' /\ Spots' /\ RunsAtHome' /\ Launches' /\ Bound'
        /\ Present /\ (drained[t] # << >> => pc'[t] = "awaken") => Present'
    BY <1>1, <1>2, <1>3, FibersAssumption, StillPlaces
  <2>2. Present => drained[t] = << >>
    BY <1>1 DEF Present
  <2> QED BY <2>1, <2>2
<1>5. Dispatching'
  <2>1. ASSUME NEW u \in Threads, u # t
        PROVE  DispatchOf(u)'
    BY <1>1, <1>2, <2>1, DispatchKept DEF Dispatching
  <2>2. DispatchOf(t)'
    BY <1>1, <1>2, <1>3, FibersAssumption DEF DispatchOf
  <2>3. \A u, v \in Threads : pc'[u] = "crashed" => pc'[v] = "crashed"
    BY <1>1, <1>2 DEF Dispatching
  <2> QED BY <2>1, <2>2, <2>3 DEF Dispatching
<1> QED BY <1>4, <1>5

(* Time passes for a fiber that is nowhere. *)
LEMMA ExpirePlaces ==
    ASSUME PlaceInv, NEW f \in Fibers, Expire(f)
    PROVE  Placed' /\ (Present => Present')
<1> USE DEF PlaceInv, Placed
<1>1. /\ UNCHANGED <<registered, local, shared, remote, drained, props, home, pc, running, yielded, scan,
                     job, wanted>>
      /\ status[f] = "timed"
      /\ \A g \in Fibers : status'[g] = IF g = f THEN "due" ELSE status[g]
  BY PlaceTypes DEF Expire, queueVars, pickVars, launchVars
<1>2. ASSUME NEW g \in Fibers, NEW k \in Kinds, NEW u \in Threads, NEW p \in Levels
      PROVE  At(g, k, u, p)' <=> At(g, k, u, p)
  BY <1>1 DEF At
<1>3. Nowhere(f)
  BY <1>1 DEF Spots, Alive
<1>4. QueuesInjective' /\ Launches'
  BY <1>1 DEF QueuesInjective, Launches
<1>5. Spots'
  <2>1. \A g \in Fibers : Stays(g)
    BY <1>1, <1>2 DEF Stays, Alive
  <2> QED BY <2>1, SpotsKept
<1>6. RunsAtHome'
  BY <1>1 DEF RunsAtHome
<1>7. Dispatching'
  BY <1>1 DEF Dispatching, DispatchOf
<1>8. Bound'
  <2>1. BoundOf(f)'
    <3>1. Required(f)' = Required(f)
      BY <1>1 DEF Required
    <3> QED BY <1>1, <1>2, <1>3, <3>1 DEF Bound, BoundOf, Nowhere
  <2>2. ASSUME NEW g \in Fibers, g # f
        PROVE  BoundOf(g)'
    BY <1>1, <1>2, <2>2, BoundKept DEF Bound
  <2> QED BY <2>1, <2>2 DEF Bound
<1>9. Present => Present'
  <2> SUFFICES ASSUME Present
               PROVE  Present'
    OBVIOUS
  <2>1. /\ pc'[MainThread] # "crashed" => pc[MainThread] # "crashed"
        /\ \A u \in Threads : pc'[u] # "crashed" /\ drained'[u] # << >> => pc'[u] = "awaken"
    BY <1>1 DEF Present
  <2>2. \A g \in Fibers : Remains(g)
    BY <1>1, <1>2 DEF Remains, Alive
  <2> QED BY <2>1, <2>2, PresentKept
<1> QED BY <1>4, <1>5, <1>6, <1>7, <1>8, <1>9

-----------------------------------------------------------------------------
(* The whole system *)

LEMMA PlaceInit == Init => PlaceInv /\ Present
<1> SUFFICES ASSUME Init
             PROVE  PlaceInv /\ Present
  OBVIOUS
<1>1. TypeInv
  BY TypeInit
<1>2. /\ \A t \in Threads, p \in Levels :
           /\ local[t][p] = IF t = MainThread /\ p = HIGH THEN <<Dispatcher>> ELSE << >>
           /\ shared[t][p] = << >>
      /\ \A t \in Threads :
           /\ remote[t] = << >> /\ drained[t] = << >>
           /\ running[t] = IF t = MainThread THEN MainFiber ELSE NoFiber
           /\ yielded[t] = NoFiber
           /\ pc[t] = IF t = MainThread THEN "run" ELSE "start"
           /\ scan[t] = 0
      /\ \A f \in Fibers :
           /\ status[f] = IF f = MainFiber THEN "running" ELSE "new"
           /\ props[f] = IF f = MainFiber THEN <<UX, AnyThread>> ELSE Default
           /\ home[f] = MainThread
      /\ registered = {MainThread}
  BY DEF Init, Empty
<1>3. \A d : ~Contains(<< >>, d) /\ IsInjective(<< >>)
  BY NothingIn
<1>4. (\A d : Contains(<<Dispatcher>>, d) <=> d = Dispatcher) /\ IsInjective(<<Dispatcher>>)
  BY DEF Contains, IsInjective
<1>5. MainFiber \in Fibers /\ MainThread \in Threads /\ UX \in Levels /\ HIGH \in Levels
  BY <1>1, PlaceTypes, FibersAssumption
<1>6. ASSUME NEW f \in Fibers, NEW k \in Kinds, NEW t \in Threads, NEW p \in Levels
      PROVE  At(f, k, t, p) <=> f = MainFiber /\ k = "hand" /\ t = MainThread /\ p = UX
  <2>1. ~Contains(local[t][p], f) /\ ~Contains(shared[t][p], f)
    BY <1>2, <1>3, <1>4, FibersAssumption
  <2>2. ~Contains(remote[t], f) /\ ~Contains(drained[t], f)
    BY <1>2, <1>3
  <2>3. f \in {running[t], yielded[t]} <=> f = MainFiber /\ t = MainThread
    BY <1>2, FibersAssumption
  <2>4. pc[t] # "push"
    BY <1>2
  <2> QED BY <2>1, <2>2, <2>3, <2>4 DEF At
<1>7. QueuesInjective
  BY <1>2, <1>3, <1>4 DEF QueuesInjective
<1>8. Spots
  BY <1>2, <1>6 DEF Spots, OnePlace, Nowhere, Alive
<1>9. RunsAtHome
  BY <1>2, FibersAssumption DEF RunsAtHome
<1>10. Launches
  BY <1>2 DEF Launches
<1>11. Dispatching
  <2>1. ASSUME NEW t \in Threads
        PROVE  DispatchOf(t)
    <3>1. \A p \in Levels : Contains(local[t][p], Dispatcher) <=> t = MainThread /\ p = HIGH
      BY <1>2, <1>3, <1>4
    <3>2. MainFiber # Dispatcher /\ NoFiber # Dispatcher
      BY FibersAssumption
    <3> QED BY <1>2, <1>5, <3>1, <3>2 DEF DispatchOf
  <2> QED BY <1>2, <2>1 DEF Dispatching
<1>12. Bound
  <2>1. \A f \in Fibers : Required(f) = AnyThread
    BY <1>2 DEF Required, Default
  <2> QED BY <2>1 DEF Bound, BoundOf
<1>13. Present
  BY <1>2, <1>5, <1>6 DEF Present, Nowhere, Alive, Kinds
<1> QED BY <1>1, <1>7, <1>8, <1>9, <1>10, <1>11, <1>12, <1>13 DEF PlaceInv, Placed

LEMMA PlaceStep ==
    ASSUME PlaceInv, [Next]_vars
    PROVE  PlaceInv' /\ (Present /\ LocalQueuePrivate => Present')
<1>1. TypeInv'
  BY TypeStep DEF PlaceInv
<1>2. ASSUME NEW t \in Threads, PushRequired(t)
      PROVE  Placed' /\ (Present /\ LocalQueuePrivate => Present')
  <2>1. Required(job[t]) \in Threads
    <3>1. job[t] \in Fibers
      BY <1>2, Launching DEF PushRequired
    <3> QED BY <1>2, <3>1, PlaceTypes DEF PlaceInv, PushRequired, Required
  <2>2. LocalQueuePrivate => ~PushRace(t)
    BY <1>2, <2>1 DEF LocalQueuePrivate, PushRace, PushRequired
  <2> QED BY <1>2, <2>2, PushRequiredPlaces
<1>3. ASSUME NEW t \in Threads, FiberStep(t)
      PROVE  Placed' /\ (Present /\ LocalQueuePrivate => Present')
  BY <1>2, <1>3, PostPlaces, DispatchPlaces, WakePlaces, SetPropertiesPlaces, UnlinkPlaces,
     PushSharedPlaces, NotifyPlaces, GiveWayPlaces DEF FiberStep
<1>4. ASSUME NEW t \in Threads, DispatchStep(t)
      PROVE  Placed' /\ (Present => Present')
  BY <1>4, DrainPlaces, AwakenPlaces, DrainedPlaces, SleepPlaces DEF DispatchStep
<1>5. ASSUME UNCHANGED vars
      PROVE  Placed' /\ (Present => Present')
  <2>1. UNCHANGED <<queueVars, fiberVars, registered, pickVars, job, wanted>>
    BY <1>5 DEF vars, launchVars
  <2>2. \A u \in Threads : pc'[u] = pc[u]
    BY <1>5 DEF vars
  <2> QED BY <2>1, <2>2, QuietPlaces
<1>6. ASSUME NEW t \in Threads, ThreadStep(t)
      PROVE  Placed' /\ (Present /\ LocalQueuePrivate => Present')
  <2>1. CASE Register(t)
    BY <2>1, RegisterPlaces
  <2>2. CASE PickStep(t)
    BY <2>2, PickPlaces
  <2> QED BY <1>3, <1>4, <1>6, <2>1, <2>2 DEF ThreadStep
<1>7. ASSUME NEW f \in Fibers, Expire(f)
      PROVE  Placed' /\ (Present => Present')
  BY <1>7, ExpirePlaces
<1>8. Placed' /\ (Present /\ LocalQueuePrivate => Present')
  <2>1. ASSUME Next
        PROVE  Placed' /\ (Present /\ LocalQueuePrivate => Present')
    BY <1>5, <1>6, <1>7, <2>1 DEF Next, Stopped
  <2> QED BY <1>5, <2>1
<1> QED BY <1>1, <1>8 DEF PlaceInv

-----------------------------------------------------------------------------
(* Counting *)

(* A queue without duplicates holds a context once or not at all. *)
LEMMA CopiesOf ==
    ASSUME NEW s, IsInjective(s), NEW c
    PROVE  Copies(s, c) = IF Contains(s, c) THEN 1 ELSE 0
<1>1. CASE Contains(s, c)
  <2>1. PICK i \in DOMAIN s : s[i] = c
    BY <1>1 DEF Contains
  <2>2. In(s, c) = {i}
    BY <2>1 DEF In, IsInjective
  <2> QED BY <1>1, <2>2, FS_Singleton DEF Copies
<1>2. CASE ~Contains(s, c)
  <2>1. In(s, c) = {}
    BY <1>2 DEF In, Contains
  <2> QED BY <1>2, <2>1, FS_EmptySet DEF Copies
<1> QED BY <1>1, <1>2

(* So does a family of queues of which only one holds the fiber. *)
LEMMA InQueuesOf ==
    ASSUME NEW q, NEW f,
           \A t \in Threads, p \in Levels : IsInjective(q[t][p]),
           \A t, u \in Threads, p, l \in Levels :
               Contains(q[t][p], f) /\ Contains(q[u][l], f) => t = u /\ p = l
    PROVE  Cardinality(InQueues(q, f)) =
               IF \E t \in Threads, p \in Levels : Contains(q[t][p], f) THEN 1 ELSE 0
<1>1. ASSUME NEW t \in Threads, NEW p \in Levels, Contains(q[t][p], f)
      PROVE  Cardinality(InQueues(q, f)) = 1
  <2>1. PICK i \in DOMAIN q[t][p] : q[t][p][i] = f
    BY <1>1 DEF Contains
  <2>2. In(q[t][p], f) = {i}
    BY <2>1 DEF In, IsInjective
  <2>3. ASSUME NEW u \in Threads, NEW l \in Levels, In(q[u][l], f) # {}
        PROVE  u = t /\ l = p
    BY <1>1, <2>3 DEF In, Contains
  <2>4. ASSUME NEW x \in InQueues(q, f)
        PROVE  x = <<t, p, i>>
    <3>1. PICK u \in Threads, l \in Levels : x \in {<<u, l, j>> : j \in In(q[u][l], f)}
      BY DEF InQueues
    <3>2. PICK j \in In(q[u][l], f) : x = <<u, l, j>>
      BY <3>1
    <3> QED BY <2>2, <2>3, <3>2
  <2>5. <<t, p, i>> \in InQueues(q, f)
    <3> DEFINE Of(u, l) == {<<u, l, j>> : j \in In(q[u][l], f)}
    <3>1. <<t, p, i>> \in Of(t, p)
      BY <2>2
    <3>2. InQueues(q, f) = UNION {Of(u, l) : u \in Threads, l \in Levels}
      BY DEF InQueues
    <3> HIDE DEF Of
    <3>3. Of(t, p) \in {Of(u, l) : u \in Threads, l \in Levels}
      OBVIOUS
    <3> QED BY <3>1, <3>2, <3>3
  <2>6. InQueues(q, f) = {<<t, p, i>>}
    BY <2>4, <2>5
  <2> QED BY <2>6, FS_Singleton
<1>2. ASSUME \A t \in Threads, p \in Levels : ~Contains(q[t][p], f)
      PROVE  Cardinality(InQueues(q, f)) = 0
  <2>1. ASSUME NEW t \in Threads, NEW p \in Levels
        PROVE  In(q[t][p], f) = {}
    <3>1. ~Contains(q[t][p], f)
      BY <1>2
    <3> QED BY <3>1 DEF In, Contains
  <2>2. InQueues(q, f) = {}
    BY <2>1 DEF InQueues
  <2> QED BY <2>2, FS_EmptySet
<1> QED BY <1>1, <1>2

LEMMA InListsOf ==
    ASSUME NEW q, NEW f,
           \A t \in Threads : IsInjective(q[t]),
           \A t, u \in Threads : Contains(q[t], f) /\ Contains(q[u], f) => t = u
    PROVE  Cardinality(InLists(q, f)) = IF \E t \in Threads : Contains(q[t], f) THEN 1 ELSE 0
<1>1. ASSUME NEW t \in Threads, Contains(q[t], f)
      PROVE  Cardinality(InLists(q, f)) = 1
  <2>1. PICK i \in DOMAIN q[t] : q[t][i] = f
    BY <1>1 DEF Contains
  <2>2. In(q[t], f) = {i}
    BY <2>1 DEF In, IsInjective
  <2>3. ASSUME NEW u \in Threads, In(q[u], f) # {}
        PROVE  u = t
    BY <1>1, <2>3 DEF In, Contains
  <2>4. ASSUME NEW x \in InLists(q, f)
        PROVE  x = <<t, i>>
    <3>1. PICK u \in Threads : x \in {<<u, j>> : j \in In(q[u], f)}
      BY DEF InLists
    <3>2. PICK j \in In(q[u], f) : x = <<u, j>>
      BY <3>1
    <3> QED BY <2>2, <2>3, <3>2
  <2>5. <<t, i>> \in InLists(q, f)
    BY <2>2 DEF InLists
  <2>6. InLists(q, f) = {<<t, i>>}
    BY <2>4, <2>5
  <2> QED BY <2>6, FS_Singleton
<1>2. ASSUME \A t \in Threads : ~Contains(q[t], f)
      PROVE  Cardinality(InLists(q, f)) = 0
  <2>1. \A t \in Threads : In(q[t], f) = {}
    BY <1>2 DEF In, Contains
  <2>2. InLists(q, f) = {}
    BY <2>1 DEF InLists
  <2> QED BY <2>2, FS_EmptySet
<1> QED BY <1>1, <1>2

(* And so does a set of threads with at most one. *)
LEMMA OneThread ==
    ASSUME NEW T \in SUBSET Threads, \A t, u \in T : t = u
    PROVE  Cardinality(T) = IF \E t \in Threads : t \in T THEN 1 ELSE 0
<1>1. ASSUME NEW t \in T
      PROVE  Cardinality(T) = 1
  <2>1. T = {t}
    OBVIOUS
  <2> QED BY <2>1, FS_Singleton
<1>2. CASE T = {}
  BY <1>2, FS_EmptySet
<1> QED BY <1>1, <1>2

(* A fiber is held in as many places as it is: one or none. *)
Somewhere(f, k) == \E t \in Threads, p \in Levels : At(f, k, t, p)

LEMMA HeldOf ==
    ASSUME PlaceInv, NEW f \in Fibers
    PROVE  Held(f) = IF Nowhere(f) THEN 0 ELSE 1
<1> USE DEF PlaceInv, Placed
<1> DEFINE Number(k) == IF Somewhere(f, k) THEN 1 ELSE 0
<1>1. \A k, l \in Kinds, t, u \in Threads, p, q \in Levels :
        At(f, k, t, p) /\ At(f, l, u, q) => k = l /\ t = u /\ p = q
  BY DEF Spots, OnePlace
<1>2. /\ UX \in Levels
      /\ "local" \in Kinds /\ "shared" \in Kinds /\ "remote" \in Kinds
      /\ "drained" \in Kinds /\ "hand" \in Kinds /\ "push" \in Kinds
  BY DEF Levels, Kinds
<1>3. Cardinality(InQueues(local, f)) = Number("local")
  <2>1. \A t \in Threads, p \in Levels : IsInjective(local[t][p])
    BY DEF QueuesInjective
  <2>2. \A t, u \in Threads, p, l \in Levels :
          Contains(local[t][p], f) /\ Contains(local[u][l], f) => t = u /\ p = l
    BY <1>1, <1>2, AtPlaces
  <2>3. Somewhere(f, "local") <=> \E t \in Threads, p \in Levels : Contains(local[t][p], f)
    BY AtPlaces DEF Somewhere
  <2> QED BY <2>1, <2>2, <2>3, InQueuesOf
<1>4. Cardinality(InQueues(shared, f)) = Number("shared")
  <2>1. \A t \in Threads, p \in Levels : IsInjective(shared[t][p])
    BY DEF QueuesInjective
  <2>2. \A t, u \in Threads, p, l \in Levels :
          Contains(shared[t][p], f) /\ Contains(shared[u][l], f) => t = u /\ p = l
    BY <1>1, <1>2, AtPlaces
  <2>3. Somewhere(f, "shared") <=> \E t \in Threads, p \in Levels : Contains(shared[t][p], f)
    BY AtPlaces DEF Somewhere
  <2> QED BY <2>1, <2>2, <2>3, InQueuesOf
<1>5. Cardinality(InLists(remote, f)) = Number("remote")
  <2>1. \A t \in Threads : IsInjective(remote[t])
    BY DEF QueuesInjective
  <2>2. \A t, u \in Threads : Contains(remote[t], f) /\ Contains(remote[u], f) => t = u
    BY <1>1, <1>2, AtPlaces
  <2>3. Somewhere(f, "remote") <=> \E t \in Threads : Contains(remote[t], f)
    BY <1>2, AtPlaces DEF Somewhere
  <2> QED BY <2>1, <2>2, <2>3, InListsOf
<1>6. Cardinality(InLists(drained, f)) = Number("drained")
  <2>1. \A t \in Threads : IsInjective(drained[t])
    BY DEF QueuesInjective
  <2>2. \A t, u \in Threads : Contains(drained[t], f) /\ Contains(drained[u], f) => t = u
    BY <1>1, <1>2, AtPlaces
  <2>3. Somewhere(f, "drained") <=> \E t \in Threads : Contains(drained[t], f)
    BY <1>2, AtPlaces DEF Somewhere
  <2> QED BY <2>1, <2>2, <2>3, InListsOf
<1>7. Cardinality({t \in Threads : f \in {running[t], yielded[t]}}) = Number("hand")
  <2>1. \A t, u \in {v \in Threads : f \in {running[v], yielded[v]}} : t = u
    BY <1>1, <1>2, AtPlaces
  <2>2. Somewhere(f, "hand") <=>
          \E t \in Threads : t \in {v \in Threads : f \in {running[v], yielded[v]}}
    BY <1>2, AtPlaces DEF Somewhere
  <2> QED BY <2>1, <2>2, OneThread
<1>8. Cardinality({t \in Threads : pc[t] = "push" /\ job[t] = f}) = Number("push")
  <2>1. \A t, u \in {v \in Threads : pc[v] = "push" /\ job[v] = f} : t = u
    BY <1>1, <1>2, AtPlaces
  <2>2. Somewhere(f, "push") <=>
          \E t \in Threads : t \in {v \in Threads : pc[v] = "push" /\ job[v] = f}
    BY <1>2, AtPlaces DEF Somewhere
  <2> QED BY <2>1, <2>2, OneThread
<1>9. \A k, l \in Kinds : Somewhere(f, k) /\ Somewhere(f, l) => k = l
  BY <1>1 DEF Somewhere
<1>10. Nowhere(f) <=> \A k \in Kinds : ~Somewhere(f, k)
  BY DEF Nowhere, Somewhere
<1>11. Number("local") + Number("shared") + Number("remote") + Number("drained") + Number("hand")
       + Number("push") = IF Nowhere(f) THEN 0 ELSE 1
  BY <1>9, <1>10 DEF Kinds
<1> HIDE DEF Number
<1> QED BY <1>3, <1>4, <1>5, <1>6, <1>7, <1>8, <1>11 DEF Held

-----------------------------------------------------------------------------
(* The theorems *)

(* Wherever threads launch, push, steal, wake and switch, no fiber is ever in *)
(* two queues or hands: two threads never run one fiber.  This holds even     *)
(* where property_change races with a push (algorithm.cpp).                   *)
THEOREM NeverInTwoPlaces == Spec => []PlaceInv
<1>1. PlaceInv /\ [Next]_vars => PlaceInv'
  BY PlaceStep
<1> QED BY PlaceInit, <1>1, PTL DEF Spec

(* A fiber whose properties name a thread runs on no other: awakened, pushed  *)
(* by property_change or woken from afar, it never reaches a shared queue.    *)
THEOREM RequiredThreadIsKept == Spec => []RequiredThreadKept
<1>1. PlaceInv => RequiredThreadKept
  <2> SUFFICES ASSUME PlaceInv, NEW t \in Threads, running[t] \in Fibers,
                      Required(running[t]) # AnyThread
               PROVE  Required(running[t]) = t
    BY DEF RequiredThreadKept
  <2>1. At(running[t], "hand", t, UX) /\ "hand" \in Kinds /\ UX \in Levels
    BY DEF At, Kinds, Levels
  <2> QED BY <2>1 DEF PlaceInv, Placed, Bound, BoundOf
<1> QED BY <1>1, NeverInTwoPlaces, PTL

(* A registered thread has one dispatcher, ready or running, so that a fiber  *)
(* that blocks, ends or finds its queues empty has something to switch to.    *)
THEOREM DispatcherAlwaysReady == Spec => []DispatcherReady
<1>1. PlaceInv => DispatcherReady
  <2> SUFFICES ASSUME PlaceInv, NEW t \in registered, pc[t] # "crashed"
               PROVE  Copies(local[t][HIGH], Dispatcher)
                      + (IF running[t] = Dispatcher \/ yielded[t] = Dispatcher THEN 1 ELSE 0) = 1
    BY DEF DispatcherReady
  <2>1. t \in Threads /\ HIGH \in Levels
    BY PlaceTypes DEF PlaceInv
  <2>2. IsInjective(local[t][HIGH])
    BY <2>1 DEF PlaceInv, Placed, QueuesInjective
  <2>3. Copies(local[t][HIGH], Dispatcher) =
          IF Contains(local[t][HIGH], Dispatcher) THEN 1 ELSE 0
    BY <2>2, CopiesOf
  <2>4. Contains(local[t][HIGH], Dispatcher) <=>
          ~(running[t] = Dispatcher \/ yielded[t] = Dispatcher)
    BY <2>1 DEF PlaceInv, Placed, Dispatching, DispatchOf
  <2> QED BY <2>3, <2>4
<1> QED BY <1>1, NeverInTwoPlaces, PTL

(* A fiber that is ready or runs is in one place, and one only, as long as no *)
(* thread pushes to a queue while its owner unlinks from it.                  *)
THEOREM FiberInOnePlace == Spec /\ []LocalQueuePrivate => []FiberOnce
<1>1. PlaceInv /\ Present => FiberOnce
  <2> SUFFICES ASSUME PlaceInv, Present, NEW f \in Fibers, pc[MainThread] # "crashed"
               PROVE  Held(f) = IF status[f] \in Alive THEN 1 ELSE 0
    BY DEF FiberOnce, Alive
  <2>1. Nowhere(f) <=> status[f] \notin Alive
    BY DEF PlaceInv, Placed, Spots, Present
  <2> QED BY <2>1, HeldOf
<1>2. PlaceInv /\ Present /\ LocalQueuePrivate /\ [Next]_vars => PlaceInv' /\ Present'
  BY PlaceStep
<1> QED BY PlaceInit, <1>1, <1>2, PTL DEF Spec

(* What the engine launches: only tasks of another priority than HIGH require *)
(* a thread (ForEachThread(UX) in vulkan_command_pool.ixx).                   *)
QueuesPrivate == \A w \in Parameters : w[1] = HIGH => w[2] = AnyThread

(* Then property_change does unlink from a queue that no other thread touches.*)
THEOREM QueuesArePrivate ==
    ASSUME QueuesPrivate
    PROVE  Spec => []LocalQueuePrivate
<1>1. PlaceInv => LocalQueuePrivate
  <2> SUFFICES ASSUME PlaceInv, NEW u \in Threads, pc[u] = "push",
                      Required(job[u]) \in Threads, Priority(job[u]) = HIGH
               PROVE  FALSE
    BY DEF LocalQueuePrivate
  <2>1. props[job[u]] \in Parameters /\ job[u] \in Fibers
    BY Launching DEF PlaceInv, Placed, Launches
  <2>2. props[job[u]][1] = HIGH /\ props[job[u]][2] # AnyThread
    BY <2>1, FibersAssumption, ThreadsAssumption DEF Priority, Required
  <2> QED BY <2>1, <2>2 DEF QueuesPrivate
<1> QED BY <1>1, NeverInTwoPlaces, PTL

(* And no fiber the engine launches is ever lost.                             *)
THEOREM NoFiberLost ==
    ASSUME QueuesPrivate
    PROVE  Spec => []FiberOnce
<1>1. Spec => []LocalQueuePrivate
  BY QueuesArePrivate
<1> QED BY <1>1, FiberInOnePlace, PTL
=============================================================================

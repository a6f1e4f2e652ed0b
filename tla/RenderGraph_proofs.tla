------------------------- MODULE RenderGraph_proofs --------------------------
(***************************************************************************)
(* Proofs about the compilation of a render graph, for every set of        *)
(* descriptors passes are built from and every bound.                      *)
(***************************************************************************)
EXTENDS RenderGraph, FiniteSetTheorems, SequenceTheorems, WellFoundedInduction, TLAPS

(* A compilation is under way, or its result is for the passes as they are. *)
Active == pc # "idle" \/ Compiled
(* ... and it has all its edges, ... *)
Built == (pc # "idle" /\ pc # "build") \/ Compiled
(* ... and its order, ... *)
Sorted == pc \in {"merge", "candidates", "alias", "barriers"} \/ Compiled
(* ... and its groups of resources, or those placed so far. *)
Aliasing == pc \in {"alias", "barriers"} \/ Compiled

(* Passes name resources that exist, and so do the lists of resources. *)
Named ==
    /\ nextHandle \in Nat \ {0}
    /\ DOMAIN transient \subseteq 1 .. nextHandle - 1
    /\ \A d \in {renderPasses[i] : i \in DOMAIN renderPasses}
                \cup {computePasses[i] : i \in DOMAIN computePasses} :
          HandlesOf(d.inputs) \cup HandlesOf(d.outputs) \subseteq 1 .. nextHandle - 1

(* What a compilation has not reached yet is empty. *)
Fresh ==
    /\ pc # "idle" => ~valid
    /\ pc \in {"build", "seed"} => order = << >>
    /\ pc \in {"build", "seed", "sort"} => groups = << >>
    /\ pc \in {"build", "seed", "sort", "merge", "candidates"} => aliases = << >>
    /\ pc \in {"build", "seed", "sort", "merge", "candidates", "alias"} => barriers = << >>
    /\ pc # "alias" => pending = {}

(* The write that an edge or an entry of lastWriter stands for. *)
WritesAs(p, h, u) ==
    \E i \in DOMAIN Desc(p).outputs :
        Desc(p).outputs[i].handle = h /\ Desc(p).outputs[i].usage = u

(* lastWriter holds, of every resource written so far, the last to do it. *)
WriterOf(h) ==
    /\ h \in Nat \ {NoHandle}
    /\ lastWriter[h].pass \in Unified /\ lastWriter[h].pass < pass
    /\ lastWriter[h].usage \in Usages
    /\ WritesAs(lastWriter[h].pass, h, lastWriter[h].usage)
    /\ \A r \in Unified : lastWriter[h].pass < r /\ r < pass => h \notin HandlesOf(Desc(r).outputs)

Writers ==
    pc = "build" =>
        /\ pass >= 1 /\ input >= 1
        /\ \A h \in DOMAIN lastWriter : WriterOf(h)
        /\ \A r \in Unified : r < pass => HandlesOf(Desc(r).outputs) \subseteq DOMAIN lastWriter

(* Edges lead forward in the list of passes: there is no cycle. *)
Forward ==
    Active => \A k \in DOMAIN edges :
        edges[k].source \in Unified /\ edges[k].dest \in Unified /\ edges[k].source < edges[k].dest

(* Pass q has its edge from pass p, which it reads h from. *)
Fed(p, h, q) ==
    \E k \in DOMAIN edges :
        /\ edges[k].source = p /\ edges[k].dest = q /\ edges[k].resource = h
        /\ WritesAs(p, h, edges[k].fromUsage)

Complete ==
    /\ pc = "build" => \A q \in Unified : \A i \in DOMAIN Desc(q).inputs :
          q < pass \/ (q = pass /\ i < input) =>
              \A p \in Unified : Feeds(p, Desc(q).inputs[i].handle, q)
                                   => Fed(p, Desc(q).inputs[i].handle, q)
    /\ Built => \A p, q \in Unified : \A h \in HandlesOf(Desc(q).inputs) :
          Feeds(p, h, q) => Fed(p, h, q)

EdgeInv == Writers /\ Forward /\ Complete

Ordered(p) == \E i \in DOMAIN order : order[i] = p
Queued(p) == \E i \in DOMAIN queue : queue[i] = p
Distinct(s) == \A i, j \in DOMAIN s : s[i] = s[j] => i = j

(* The edges to p that Kahn's algorithm has not taken yet. *)
Left(p) == {k \in EdgesTo(p) : k \in todo \/ ~Ordered(edges[k].source)}

(* The order so far begins with the first pass and respects the edges. *)
OrderInv ==
    pc = "sort" \/ Sorted =>
        /\ order \in Seq(Passes) /\ Distinct(order)
        /\ order # << >> => order[1] = 1
        /\ \A k \in DOMAIN edges, j \in DOMAIN order : order[j] = edges[k].dest =>
              \E i \in 1 .. j - 1 : order[i] = edges[k].source

(* In-degrees count the edges left, and a pass is queued once none is. *)
Kahn ==
    pc \in {"seed", "sort"} =>
        /\ inDegree \in [Passes -> Nat]
        /\ \A p \in Passes : inDegree[p] = Cardinality(Left(p))
        /\ queue \in Seq(Passes) /\ Distinct(queue)
        /\ todo \subseteq DOMAIN edges /\ \A k \in todo : Ordered(edges[k].source)
        /\ \A p \in Passes : ~(Ordered(p) /\ Queued(p))
        /\ pc = "sort" => \A p \in Passes : inDegree[p] = 0 <=> Ordered(p) \/ Queued(p)
        /\ pc = "seed" =>
              /\ todo = {} /\ pass >= 1
              /\ \A p \in Passes : Queued(p) <=> p < pass /\ inDegree[p] = 0
        /\ queue # << >> /\ order = << >> => queue[1] = 1
        /\ pc = "sort" /\ Passes # {} /\ order = << >> => queue # << >>
        /\ pc = "seed" /\ pass > 1 /\ Passes # {} => queue # << >>

SortInv == OrderInv /\ Kahn /\ (Sorted => \A p \in Passes : Ordered(p))

(* Merged groups hold the passes marked as merged, each once. *)
Grouped(p) == \E k \in DOMAIN groups : \E i \in DOMAIN groups[k].passes : groups[k].passes[i] = p

MergeInv ==
    /\ groups \in Seq([passes : Seq(Nat), attachments : SUBSET Nat])
    /\ Sorted =>
          /\ merged \subseteq Renders
          /\ \A p \in Nat : Grouped(p) <=> p \in merged
          /\ \A k, l \in DOMAIN groups :
                \A i \in DOMAIN groups[k].passes, j \in DOMAIN groups[l].passes :
                    groups[k].passes[i] = groups[l].passes[j] => k = l /\ i = j
    /\ pc \in {"merge", "candidates"} => pass >= 1
    /\ pc \in {"merge", "candidates"} => \A i \in DOMAIN order :
          i < pass /\ order[i] \in Renders => order[i] \in merged
    /\ pc = "candidates" =>
          /\ groups # << >> /\ pass \in DOMAIN order /\ order[pass] \in merged /\ input >= 1
    /\ Aliasing => Renders \subseteq merged

(* A resource placed is in the group its aliasGroup names, and there only; *)
(* what is placed or waits for it has a lifetime.                          *)
AliasInv ==
    Aliasing =>
        /\ \A h \in pending : Uses(h) # {}
        /\ \A k \in DOMAIN aliases : \A h \in aliases[k] : Uses(h) # {}
        /\ \A h \in DOMAIN transient : Uses(h) # {} /\ h \notin pending =>
              /\ aliasGroup[h] \in DOMAIN aliases
              /\ \A k \in DOMAIN aliases : h \in aliases[k] <=> aliasGroup[h] = k
        /\ \A h \in pending, k \in DOMAIN aliases : h \notin aliases[k]
        /\ \A k \in DOMAIN aliases : \A g, h \in aliases[k] : g # h => CanAliasWith(g, h)

(* Every edge that needs a barrier has one. *)
Barred(e) == \E l \in DOMAIN barriers : barriers[l] = e

BarrierInv ==
    /\ pc = "barriers" => pass >= 1
    /\ pc = "barriers" => \A k \in DOMAIN edges :
          k < pass /\ NeedsBarrier(edges[k]) => Barred(edges[k])
    /\ Compiled => \A k \in DOMAIN edges : NeedsBarrier(edges[k]) => Barred(edges[k])

IInv ==
    /\ TypeOK /\ Named /\ Fresh /\ EdgeInv /\ SortInv /\ MergeInv /\ AliasInv /\ BarrierInv

-----------------------------------------------------------------------------
(* Numbers and sequences                                                   *)

(* A set of numbers that is not empty has a least element. *)
LEMMA Least ==
    ASSUME NEW T \in SUBSET Nat, T # {}
    PROVE  \E x \in T : \A y \in T : x <= y
<1> DEFINE U == {0 .. x : x \in T}
<1>1. U \subseteq FiniteSubsetsOf(Nat)
  <2>1. \A x \in T : IsFiniteSet(0 .. x)
    BY FS_Interval
  <2> QED BY <2>1 DEF FiniteSubsetsOf
<1>2. U # {}
  OBVIOUS
<1>3. PICK u \in U : \A v \in U : <<v, u>> \notin StrictSubsetOrdering(Nat)
  <2> HIDE DEF U
  <2> QED BY <1>1, <1>2, FS_StrictSubsetOrderingWellFounded, WFMin
<1>4. PICK x \in T : u = 0 .. x
  OBVIOUS
<1>5. ASSUME NEW y \in T, y < x
      PROVE  FALSE
  <2>1. 0 .. y \in U /\ 0 .. y \subseteq 0 .. x /\ x \notin 0 .. y /\ x \in 0 .. x
    BY <1>5
  <2>2. <<0 .. y, 0 .. x>> \notin StrictSubsetOrdering(Nat)
    BY <1>3, <1>4, <2>1
  <2> QED BY <2>1, <2>2 DEF StrictSubsetOrdering
<1> QED BY <1>5

(* The elements of a sequence. *)
LEMMA Elements ==
    ASSUME NEW S, NEW s \in Seq(S)
    PROVE  /\ Len(s) \in Nat /\ DOMAIN s = 1 .. Len(s)
           /\ \A i \in DOMAIN s : s[i] \in S
           /\ s = << >> <=> Len(s) = 0
BY LenProperties, EmptySeq, ElementOfSeq

(* A sequence after an element has joined it. *)
LEMMA Appended ==
    ASSUME NEW S, NEW s \in Seq(S), NEW x \in S
    PROVE  /\ Append(s, x) \in Seq(S) /\ Append(s, x) # << >>
           /\ DOMAIN Append(s, x) = 1 .. Len(s) + 1 /\ Len(Append(s, x)) = Len(s) + 1
           /\ \A i \in DOMAIN s : Append(s, x)[i] = s[i]
           /\ Append(s, x)[Len(s) + 1] = x
BY AppendProperties, LenProperties

(* A sequence without its head. *)
LEMMA Tailed ==
    ASSUME NEW S, NEW s \in Seq(S), s # << >>
    PROVE  /\ Head(s) = s[1] /\ Head(s) \in S /\ 1 \in DOMAIN s
           /\ Tail(s) \in Seq(S) /\ DOMAIN Tail(s) = 1 .. Len(s) - 1
           /\ \A i \in DOMAIN Tail(s) : Tail(s)[i] = s[i + 1] /\ i + 1 \in DOMAIN s
<1>1. Len(s) \in Nat /\ DOMAIN s = 1 .. Len(s) /\ Len(s) # 0
  BY Elements
<1>2. Tail(s) \in Seq(S) /\ Len(Tail(s)) = Len(s) - 1
  BY HeadTailProperties
<1>3. DOMAIN Tail(s) = 1 .. Len(s) - 1
  BY <1>2, LenProperties
<1>4. \A i \in 1 .. Len(s) - 1 : Tail(s)[i] = s[i + 1]
  BY <1>2, HeadTailProperties
<1> QED BY <1>1, <1>2, <1>3, <1>4, HeadTailProperties

(* A sequence with one element changed. *)
LEMMA Excepted ==
    ASSUME NEW S, NEW s \in Seq(S), NEW i \in DOMAIN s, NEW x \in S
    PROVE  /\ [s EXCEPT ![i] = x] \in Seq(S)
           /\ DOMAIN [s EXCEPT ![i] = x] = DOMAIN s
           /\ Len([s EXCEPT ![i] = x]) = Len(s)
           /\ \A j \in DOMAIN s : [s EXCEPT ![i] = x][j] = IF j = i THEN x ELSE s[j]
<1>1. s \in [1 .. Len(s) -> S] /\ Len(s) \in Nat /\ DOMAIN s = 1 .. Len(s)
  BY LenProperties, Elements
<1>2. [s EXCEPT ![i] = x] \in [1 .. Len(s) -> S]
  BY <1>1
<1>3. [s EXCEPT ![i] = x] \in Seq(S)
  BY <1>1, <1>2, IsASeq
<1> QED BY <1>1, <1>2, <1>3, LenProperties

(* A sequence over a larger set. *)
LEMMA Widened ==
    ASSUME NEW S, NEW T, S \subseteq T, NEW s \in Seq(S)
    PROVE  s \in Seq(T)
<1>1. s \in [1 .. Len(s) -> T] /\ Len(s) \in Nat
  BY LenProperties
<1> QED BY <1>1, IsASeq

-----------------------------------------------------------------------------
(* The graph                                                               *)

(* What depends on the passes only. *)
LEMMA SamePasses ==
    ASSUME UNCHANGED <<renderPasses, computePasses, transferPasses>>
    PROVE  /\ Renders' = Renders /\ Unified' = Unified /\ Passes' = Passes
           /\ \A p : Desc(p)' = Desc(p)
           /\ \A p, h, q : Feeds(p, h, q)' <=> Feeds(p, h, q)
           /\ \A p, h, u : WritesAs(p, h, u)' <=> WritesAs(p, h, u)
BY DEF Renders, Unified, Passes, Desc, Feeds, WritesAs, HandlesOf

(* The unified list of passes. *)
LEMMA Lists ==
    ASSUME TypeOK
    PROVE  /\ Len(renderPasses) \in Nat /\ Len(computePasses) \in Nat /\ transferPasses \in Nat
           /\ Renders \subseteq Unified /\ Unified \subseteq Passes
           /\ Passes \subseteq Nat \ {0}
           /\ \A p \in Renders : p \in DOMAIN renderPasses
           /\ \A p \in Unified \ Renders : p - Len(renderPasses) \in DOMAIN computePasses
<1>1. Len(renderPasses) \in Nat /\ DOMAIN renderPasses = 1 .. Len(renderPasses)
  BY Elements DEF TypeOK
<1>2. Len(computePasses) \in Nat /\ DOMAIN computePasses = 1 .. Len(computePasses)
  BY Elements DEF TypeOK
<1>3. transferPasses \in Nat
  BY DEF TypeOK
<1> QED BY <1>1, <1>2, <1>3 DEF Renders, Unified, Passes

(* Every pass has a descriptor. *)
LEMMA Described ==
    ASSUME TypeOK, NEW p \in Unified
    PROVE  /\ Desc(p) \in Descs
           /\ Desc(p).inputs \in Seq(Refs) /\ Desc(p).outputs \in Seq(Refs)
           /\ Desc(p) \in {renderPasses[i] : i \in DOMAIN renderPasses}
                          \cup {computePasses[i] : i \in DOMAIN computePasses}
<1>1. CASE p \in Renders
  <2>1. p \in DOMAIN renderPasses /\ Desc(p) = renderPasses[p]
    BY <1>1, Lists DEF Desc
  <2>2. renderPasses[p] \in RenderDescs
    BY <2>1, Elements DEF TypeOK
  <2> QED BY <2>1, <2>2, DescsAssumption DEF Descs
<1>2. CASE p \notin Renders
  <2>1. p - Len(renderPasses) \in DOMAIN computePasses /\ Desc(p) = computePasses[p - Len(renderPasses)]
    BY <1>2, Lists DEF Desc
  <2>2. computePasses[p - Len(renderPasses)] \in ComputeDescs
    BY <2>1, Elements DEF TypeOK
  <2> QED BY <2>1, <2>2, DescsAssumption DEF Descs
<1> QED BY <1>1, <1>2

(* The handles of a list of references. *)
LEMMA Handles ==
    ASSUME NEW refs \in Seq(Refs)
    PROVE  /\ HandlesOf(refs) \subseteq Nat \ {NoHandle}
           /\ \A i \in DOMAIN refs : refs[i].handle \in Nat /\ refs[i].usage \in Usages
           /\ \A i \in DOMAIN refs : refs[i].handle # NoHandle => refs[i].handle \in HandlesOf(refs)
           /\ \A h \in HandlesOf(refs) : \E i \in DOMAIN refs : refs[i].handle = h
<1>1. \A i \in DOMAIN refs : refs[i] \in Refs
  BY Elements
<1> QED BY <1>1 DEF HandlesOf, Refs

(* Resources that exist are the ones passes name. *)
LEMMA NamedBy ==
    ASSUME TypeOK, Named, NEW p \in Unified
    PROVE  HandlesOf(Desc(p).inputs) \cup HandlesOf(Desc(p).outputs) \subseteq 1 .. nextHandle - 1
BY Described DEF Named

-----------------------------------------------------------------------------
(* Type correctness                                                        *)

(* An edge to a pass that reads what lastWriter knows. *)
LEMMA EdgeType ==
    ASSUME TypeOK, Writers, pc = "build", NEW ref \in Refs, NEW q \in Unified,
           ref.handle \in DOMAIN lastWriter
    PROVE  Edge(ref, q) \in Edges
<1>1. WriterOf(ref.handle)
  BY DEF Writers
<1>2. lastWriter[ref.handle].pass \in Nat /\ q \in Nat
  BY <1>1, Lists DEF WriterOf
<1> QED BY <1>1, <1>2 DEF Edge, Edges, Refs, WriterOf

LEMMA TypeInit == Init => TypeOK
<1> SUFFICES ASSUME Init PROVE TypeOK
  OBVIOUS
<1>1. /\ << >> \in Seq(RenderDescs) /\ << >> \in Seq(ComputeDescs)
      /\ << >> \in Seq(Nat) /\ << >> \in Seq(Edges)
  BY EmptySeq
<1>2. DOMAIN transient = {}
  BY DEF Init
<1>3. << >> \in Seq(SUBSET DOMAIN transient)
  BY EmptySeq
<1>4. aliasGroup \in [DOMAIN transient -> Nat]
  BY <1>2 DEF Init
<1> QED BY <1>1, <1>2, <1>3, <1>4 DEF Init, TypeOK

LEMMA DeclareType ==
    ASSUME TypeOK, Named, Fresh, Declare
    PROVE  TypeOK'
<1>1. ASSUME NEW s \in Sizes, CreateTransient(s)
      PROVE  TypeOK'
  <2>1. nextHandle \in Nat \ {NoHandle} /\ nextHandle' \in Nat
    BY <1>1 DEF CreateTransient, Named, NoHandle
  <2>2. /\ DOMAIN transient' = DOMAIN transient \cup {nextHandle}
        /\ \A h \in DOMAIN transient' : transient'[h] \in Sizes
        /\ aliasGroup' \in [DOMAIN transient' -> Nat]
    BY <1>1 DEF CreateTransient, TypeOK
  <2>3. aliases \in Seq(SUBSET DOMAIN transient')
    <3>1. SUBSET DOMAIN transient \subseteq SUBSET DOMAIN transient'
      BY <2>2
    <3> QED BY <3>1, Widened DEF TypeOK
  <2> QED BY <1>1, <2>1, <2>2, <2>3 DEF CreateTransient, TypeOK, resultVars, loopVars
<1>2. ASSUME ImportExternal
      PROVE  TypeOK'
  BY <1>2 DEF ImportExternal, TypeOK, resultVars, loopVars
<1>3. ASSUME NEW d \in RenderDescs, AddRenderPass(d)
      PROVE  TypeOK'
  <2>1. renderPasses' \in Seq(RenderDescs)
    BY <1>3, Appended DEF AddRenderPass, TypeOK
  <2> QED BY <1>3, <2>1 DEF AddRenderPass, TypeOK, resultVars, loopVars
<1>4. ASSUME NEW d \in ComputeDescs, AddComputePass(d)
      PROVE  TypeOK'
  <2>1. computePasses' \in Seq(ComputeDescs)
    BY <1>4, Appended DEF AddComputePass, TypeOK
  <2> QED BY <1>4, <2>1 DEF AddComputePass, TypeOK, resultVars, loopVars
<1>5. ASSUME AddTransferPass
      PROVE  TypeOK'
  BY <1>5 DEF AddTransferPass, TypeOK, resultVars, loopVars
<1>6. ASSUME NEW i \in DOMAIN renderPasses, NEW d \in RenderDescs, GetRenderPass(i, d)
      PROVE  TypeOK'
  <2>1. renderPasses' \in Seq(RenderDescs)
    BY <1>6, Excepted DEF GetRenderPass, TypeOK
  <2> QED BY <1>6, <2>1 DEF GetRenderPass, TypeOK, resultVars, loopVars
<1>7. ASSUME NEW i \in DOMAIN computePasses, NEW d \in ComputeDescs, GetComputePass(i, d)
      PROVE  TypeOK'
  <2>1. computePasses' \in Seq(ComputeDescs)
    BY <1>7, Excepted DEF GetComputePass, TypeOK
  <2> QED BY <1>7, <2>1 DEF GetComputePass, TypeOK, resultVars, loopVars
<1>8. ASSUME Clear, pending = {}
      PROVE  TypeOK'
  <2>1. /\ << >> \in Seq(RenderDescs) /\ << >> \in Seq(ComputeDescs)
        /\ << >> \in Seq(Nat) /\ << >> \in Seq(Edges)
    BY EmptySeq
  <2>2. DOMAIN transient' = {} /\ aliases' = << >>
    BY <1>8 DEF Clear, EmptyCompiled
  <2>3. aliases' \in Seq(SUBSET DOMAIN transient')
    BY <2>2, EmptySeq
  <2>4. aliasGroup' \in [DOMAIN transient' -> Nat]
    BY <1>8, <2>2 DEF Clear
  <2> QED BY <1>8, <2>1, <2>2, <2>3, <2>4 DEF Clear, EmptyCompiled, TypeOK, loopVars
<1>9. Clear => pending = {}
  BY DEF Clear, Fresh
<1> QED BY <1>1, <1>2, <1>3, <1>4, <1>5, <1>6, <1>7, <1>8, <1>9 DEF Declare

LEMMA CompileType ==
    ASSUME IInv, CompileStep
    PROVE  TypeOK'
<1> USE DEF IInv, graphVars, resultVars, loopVars
<1>1. CASE Compile
  <2>1. << >> \in Seq(Nat) /\ << >> \in Seq(Edges) /\ << >> \in Seq(SUBSET DOMAIN transient)
    BY EmptySeq
  <2>2. UNCHANGED <<renderPasses, computePasses, transferPasses, nextHandle, transient, aliasGroup,
                    dirty, queue, todo, pending>>
    BY <1>1 DEF Compile
  <2>3. /\ pc' = "build" /\ compiles' = compiles + 1 /\ pass' = 1 /\ input' = 1 /\ edges' = << >>
        /\ valid' = FALSE /\ order' = << >> /\ aliases' = << >> /\ barriers' = << >>
    BY <1>1 DEF Compile, EmptyCompiled
  <2>4. /\ aliases' \in Seq(SUBSET DOMAIN transient') /\ pending' \subseteq DOMAIN transient'
        /\ aliasGroup' \in [DOMAIN transient' -> Nat]
        /\ \A h \in DOMAIN transient' : transient'[h] \in Sizes
    BY <2>1, <2>2, <2>3 DEF TypeOK
  <2>5. /\ order' \in Seq(Nat) /\ edges' \in Seq(Edges) /\ barriers' \in Seq(Edges)
        /\ queue' \in Seq(Nat) /\ todo' \subseteq Nat
    BY <2>1, <2>2, <2>3 DEF TypeOK
  <2>6. dirty' \in BOOLEAN /\ valid' \in BOOLEAN /\ compiles' \in Nat
    <3>1. dirty' = dirty
      BY <1>1, Zenon DEF Compile
    <3>2. valid' = FALSE
      BY <1>1, Zenon DEF Compile, EmptyCompiled
    <3>3. compiles' = compiles + 1
      BY <2>3
    <3>4. dirty' \in BOOLEAN
      BY <3>1, Zenon DEF TypeOK
    <3>5. valid' \in BOOLEAN
      BY <3>2, Zenon
    <3>6. compiles' \in Nat
      BY <3>3 DEF TypeOK
    <3> QED BY <3>4, <3>5, <3>6, Zenon
  <2>7. /\ renderPasses' \in Seq(RenderDescs) /\ computePasses' \in Seq(ComputeDescs)
        /\ transferPasses' \in Nat /\ nextHandle' \in Nat
        /\ DOMAIN transient' \subseteq Nat \ {NoHandle}
    BY <2>2 DEF TypeOK
  <2> QED BY <2>3, <2>4, <2>5, <2>6, <2>7 DEF TypeOK
<1>2. CASE ReadInput
  <2>1. edges' \in Seq(Edges)
    <3> DEFINE ref == Desc(pass).inputs[input]
    <3>1. pass \in Unified /\ input \in DOMAIN Desc(pass).inputs
      <4>1. pass \in Unified /\ input \in Nat /\ input >= 1 /\ input <= Len(Desc(pass).inputs)
        BY <1>2 DEF ReadInput, TypeOK, EdgeInv, Writers
      <4> QED BY <4>1, Described, Elements
    <3>2. ref \in Refs
      BY <3>1, Described, Elements
    <3>3. ref.handle \in DOMAIN lastWriter => Edge(ref, pass) \in Edges
      BY <1>2, <3>1, <3>2, EdgeType DEF ReadInput, EdgeInv
    <3>4. edges' = IF ref.handle # NoHandle /\ ref.handle \in DOMAIN lastWriter
                   THEN Append(edges, Edge(ref, pass)) ELSE edges
      BY <1>2 DEF ReadInput
    <3> HIDE DEF ref
    <3> QED BY <3>3, <3>4, Appended DEF TypeOK
  <2> QED BY <1>2, <2>1 DEF ReadInput, TypeOK
<1>3. CASE WriteOutputs
  BY <1>3 DEF WriteOutputs, TypeOK
<1>4. CASE StartSort
  <2>1. << >> \in Seq(Nat)
    BY EmptySeq
  <2> QED BY <1>4, <2>1 DEF StartSort, TypeOK
<1>5. CASE Seed
  <2>1. queue' \in Seq(Nat)
    <3>1. Append(queue, pass) \in Seq(Nat)
      BY Appended DEF TypeOK
    <3> QED BY <1>5, <3>1 DEF Seed, TypeOK
  <2> QED BY <1>5, <2>1 DEF Seed, TypeOK
<1>6. CASE PopPass
  <2>1. Head(queue) \in Nat /\ Tail(queue) \in Seq(Nat)
    BY <1>6, Tailed DEF PopPass, TypeOK
  <2>2. order' \in Seq(Nat) /\ queue' \in Seq(Nat)
    BY <1>6, <2>1, Appended DEF PopPass, TypeOK
  <2>3. DOMAIN edges \subseteq Nat
    BY Elements DEF TypeOK
  <2>4. todo' \subseteq Nat
    BY <1>6, <2>3 DEF PopPass, EdgesFrom
  <2> QED BY <1>6, <2>2, <2>4 DEF PopPass, TypeOK
<1>7. ASSUME NEW k \in todo, Relax(k)
      PROVE  TypeOK'
  <2>1. edges[k] \in Edges
    <3>1. k \in DOMAIN edges
      BY <1>7 DEF Relax, SortInv, Kahn
    <3> QED BY <3>1, Elements DEF TypeOK
  <2>2. queue' \in Seq(Nat)
    BY <1>7, <2>1, Appended DEF Relax, TypeOK, Edges
  <2> QED BY <1>7, <2>2 DEF Relax, TypeOK
<1>8. CASE EndSort
  BY <1>8 DEF EndSort, TypeOK
<1>9. CASE Lead
  BY <1>9 DEF Lead, TypeOK
<1>10. CASE Candidate \/ EndCandidates
  <2>1. CASE Candidate
    BY <2>1 DEF Candidate, TypeOK
  <2>2. CASE EndCandidates
    BY <2>2 DEF EndCandidates, TypeOK
  <2> QED BY <1>10, <2>1, <2>2
<1>11. CASE StartAliasing
  BY <1>11 DEF StartAliasing, TypeOK
<1>12. ASSUME NEW h \in pending, Place(h)
       PROVE  TypeOK'
  <2>1. h \in DOMAIN transient /\ Len(aliases) \in Nat /\ DOMAIN aliases \subseteq Nat
    BY Elements DEF TypeOK
  <2>2. aliases' \in Seq(SUBSET DOMAIN transient) /\ aliasGroup' \in [DOMAIN transient -> Nat]
    <3>1. ASSUME NEW k \in DOMAIN aliases, aliases' = [aliases EXCEPT ![k] = @ \cup {h}],
                 aliasGroup' = [aliasGroup EXCEPT ![h] = k]
          PROVE  aliases' \in Seq(SUBSET DOMAIN transient) /\ aliasGroup' \in [DOMAIN transient -> Nat]
      <4>1. aliases[k] \cup {h} \in SUBSET DOMAIN transient
        BY <2>1, Elements DEF TypeOK
      <4>2. aliases' \in Seq(SUBSET DOMAIN transient)
        BY <3>1, <4>1, Excepted DEF TypeOK
      <4> QED BY <2>1, <3>1, <4>2 DEF TypeOK
    <3>2. ASSUME aliases' = Append(aliases, {h}), aliasGroup' = [aliasGroup EXCEPT ![h] = Len(aliases) + 1]
          PROVE  aliases' \in Seq(SUBSET DOMAIN transient) /\ aliasGroup' \in [DOMAIN transient -> Nat]
      <4>1. {h} \in SUBSET DOMAIN transient
        BY <2>1
      <4>2. aliases' \in Seq(SUBSET DOMAIN transient)
        BY <3>2, <4>1, Appended DEF TypeOK
      <4> QED BY <2>1, <3>2, <4>2 DEF TypeOK
    <3> QED BY <1>12, <3>1, <3>2 DEF Place
  <2> QED BY <1>12, <2>2 DEF Place, TypeOK
<1>13. CASE StartBarriers
  BY <1>13 DEF StartBarriers, TypeOK
<1>14. CASE PlaceBarrier
  <2>1. barriers' \in Seq(Edges)
    <3>1. pass \in Nat /\ pass <= Len(edges) /\ pass >= 1
      BY <1>14 DEF PlaceBarrier, TypeOK, BarrierInv
    <3>2. edges[pass] \in Edges
      BY <3>1, Elements DEF TypeOK
    <3> QED BY <1>14, <3>2, Appended DEF PlaceBarrier, TypeOK
  <2> QED BY <1>14, <2>1 DEF PlaceBarrier, TypeOK
<1>15. CASE EndCompile
  BY <1>15 DEF EndCompile, TypeOK
<1> QED BY <1>1, <1>2, <1>3, <1>4, <1>5, <1>6, <1>7, <1>8, <1>9, <1>10, <1>11, <1>12, <1>13, <1>14,
           <1>15 DEF CompileStep

-----------------------------------------------------------------------------
(* Declaring passes and resources                                          *)

(* A change of the passes leaves nothing compiled; a resource more changes *)
(* no pass.                                                                *)
LEMMA DeclareKinds ==
    ASSUME Declare
    PROVE  /\ pc = "idle" /\ pc' = "idle" /\ pending' = pending
           /\ groups' \in {groups, << >>}
           /\ \/ ~Compiled'
              \/ /\ UNCHANGED <<pc, renderPasses, computePasses, transferPasses, dirty, resultVars,
                                edges, loopVars, compiles>>
                 /\ \/ UNCHANGED <<transient, aliasGroup>>
                    \/ \E s \in Sizes : CreateTransient(s)
<1>1. \A s \in Sizes : CreateTransient(s) =>
        /\ pc = "idle" /\ pc' = "idle" /\ pending' = pending /\ groups' = groups
        /\ UNCHANGED <<pc, renderPasses, computePasses, transferPasses, dirty, resultVars, edges,
                       loopVars, compiles>>
  BY Zenon DEF CreateTransient, resultVars, loopVars
<1>2. ImportExternal =>
        /\ pc = "idle" /\ pc' = "idle" /\ pending' = pending /\ groups' = groups
        /\ UNCHANGED <<pc, renderPasses, computePasses, transferPasses, dirty, resultVars, edges,
                       loopVars, compiles>>
        /\ UNCHANGED <<transient, aliasGroup>>
  BY Zenon DEF ImportExternal, resultVars, loopVars
<1>3. ASSUME \/ \E d \in RenderDescs : AddRenderPass(d)
             \/ \E d \in ComputeDescs : AddComputePass(d)
             \/ AddTransferPass
             \/ \E i \in DOMAIN renderPasses, d \in RenderDescs : GetRenderPass(i, d)
             \/ \E i \in DOMAIN computePasses, d \in ComputeDescs : GetComputePass(i, d)
      PROVE  /\ pc = "idle" /\ pc' = "idle" /\ pending' = pending /\ groups' = groups
             /\ dirty' = TRUE
  BY <1>3, Zenon DEF AddRenderPass, AddComputePass, AddTransferPass, GetRenderPass, GetComputePass,
             resultVars, loopVars
<1>4. Clear => /\ pc = "idle" /\ pc' = "idle" /\ pending' = pending /\ groups' = << >>
               /\ dirty' = TRUE
  BY Zenon DEF Clear, EmptyCompiled, loopVars
<1>5. dirty' = TRUE => ~Compiled'
  BY DEF Compiled
<1> QED BY <1>1, <1>2, <1>3, <1>4, <1>5, Zenon DEF Declare

(* Handles that were known stay known. *)
LEMMA NamedDeclare ==
    ASSUME TypeOK, Named, Declare
    PROVE  Named'
<1> DEFINE InUse == {renderPasses[i] : i \in DOMAIN renderPasses}
                    \cup {computePasses[i] : i \in DOMAIN computePasses}
<1>1. ASSUME nextHandle' \in {nextHandle, nextHandle + 1},
             DOMAIN transient' \subseteq DOMAIN transient \cup 1 .. nextHandle' - 1,
             UNCHANGED <<renderPasses, computePasses>>
      PROVE  Named'
  BY <1>1 DEF Named
<1>2. ASSUME NEW d, Known(d), InUse' \subseteq InUse \cup {d}, UNCHANGED <<nextHandle, transient>>
      PROVE  Named'
  <2>1. HandlesOf(d.inputs) \cup HandlesOf(d.outputs) \subseteq 1 .. nextHandle - 1
    BY <1>2 DEF Known
  <2>2. \A e \in InUse' : HandlesOf(e.inputs) \cup HandlesOf(e.outputs) \subseteq 1 .. nextHandle - 1
    BY <1>2, <2>1 DEF Named
  <2> QED BY <1>2, <2>2 DEF Named
<1>3. ASSUME NEW s \in Sizes, CreateTransient(s)
      PROVE  Named'
  <2>1. nextHandle \in 1 .. nextHandle' - 1
    BY <1>3 DEF CreateTransient, Named
  <2> QED BY <1>1, <1>3, <2>1 DEF CreateTransient
<1>4. ASSUME ImportExternal
      PROVE  Named'
  BY <1>1, <1>4 DEF ImportExternal
<1>5. ASSUME NEW d \in RenderDescs, AddRenderPass(d)
      PROVE  Named'
  <2>1. InUse' \subseteq InUse \cup {d}
    <3>1. /\ DOMAIN renderPasses' = 1 .. Len(renderPasses) + 1
          /\ DOMAIN renderPasses = 1 .. Len(renderPasses) /\ Len(renderPasses) \in Nat
          /\ \A i \in DOMAIN renderPasses : renderPasses'[i] = renderPasses[i]
          /\ renderPasses'[Len(renderPasses) + 1] = d
      BY <1>5, Appended, Elements DEF AddRenderPass, TypeOK
    <3> QED BY <1>5, <3>1 DEF AddRenderPass
  <2> QED BY <1>2, <1>5, <2>1 DEF AddRenderPass
<1>6. ASSUME NEW d \in ComputeDescs, AddComputePass(d)
      PROVE  Named'
  <2>1. InUse' \subseteq InUse \cup {d}
    <3>1. /\ DOMAIN computePasses' = 1 .. Len(computePasses) + 1
          /\ DOMAIN computePasses = 1 .. Len(computePasses) /\ Len(computePasses) \in Nat
          /\ \A i \in DOMAIN computePasses : computePasses'[i] = computePasses[i]
          /\ computePasses'[Len(computePasses) + 1] = d
      BY <1>6, Appended, Elements DEF AddComputePass, TypeOK
    <3> QED BY <1>6, <3>1 DEF AddComputePass
  <2> QED BY <1>2, <1>6, <2>1 DEF AddComputePass
<1>7. ASSUME AddTransferPass
      PROVE  Named'
  BY <1>1, <1>7 DEF AddTransferPass
<1>8. ASSUME NEW i \in DOMAIN renderPasses, NEW d \in RenderDescs, GetRenderPass(i, d)
      PROVE  Named'
  <2>1. InUse' \subseteq InUse \cup {d}
    BY <1>8 DEF GetRenderPass
  <2> QED BY <1>2, <1>8, <2>1 DEF GetRenderPass
<1>9. ASSUME NEW i \in DOMAIN computePasses, NEW d \in ComputeDescs, GetComputePass(i, d)
      PROVE  Named'
  <2>1. InUse' \subseteq InUse \cup {d}
    BY <1>9 DEF GetComputePass
  <2> QED BY <1>2, <1>9, <2>1 DEF GetComputePass
<1>10. ASSUME Clear
       PROVE  Named'
  BY <1>10 DEF Clear, Named
<1> QED BY <1>3, <1>4, <1>5, <1>6, <1>7, <1>8, <1>9, <1>10 DEF Declare

(* A resource more is used by no pass. *)
LEMMA AliasCreate ==
    ASSUME IInv, Compiled, NEW s \in Sizes, CreateTransient(s)
    PROVE  AliasInv'
<1> USE DEF IInv
<1>1. UNCHANGED <<renderPasses, computePasses, transferPasses, order, aliases, pending, pc, valid, dirty>>
  BY Zenon DEF CreateTransient, resultVars, loopVars
<1>2. Aliasing /\ Aliasing'
  BY <1>1 DEF Aliasing, Compiled
<1>3. \A h : Uses(h)' = Uses(h)
  BY <1>1, SamePasses DEF Uses
<1>4. \A g, h : CanAliasWith(g, h)' <=> CanAliasWith(g, h)
  BY <1>3 DEF CanAliasWith
<1>5. Uses(nextHandle) = {}
  <2>1. \A p \in Unified : nextHandle \notin HandlesOf(Desc(p).inputs) \cup HandlesOf(Desc(p).outputs)
    BY NamedBy DEF Named
  <2> QED BY <2>1, Lists DEF Uses
<1>6. nextHandle \notin DOMAIN transient
  BY DEF Named
<1>7. \A h \in DOMAIN transient' : Uses(h)' # {} => h \in DOMAIN transient /\ aliasGroup'[h] = aliasGroup[h]
  BY <1>3, <1>5, <1>6 DEF CreateTransient
<1> QED BY <1>1, <1>2, <1>3, <1>4, <1>7 DEF AliasInv

(* What a compilation found stays true while nothing changes the passes. *)
LEMMA DeclareStep ==
    ASSUME IInv, Declare
    PROVE  IInv'
<1> USE DEF IInv
<1>1. TypeOK' /\ Named'
  BY DeclareType, NamedDeclare
<1>2. Fresh' /\ groups' \in Seq([passes : Seq(Nat), attachments : SUBSET Nat])
  <2>1. /\ pc = "idle" /\ pc' = "idle" /\ pending' = pending
        /\ groups' \in {groups, << >>}
    BY DeclareKinds
  <2>2. << >> \in Seq([passes : Seq(Nat), attachments : SUBSET Nat])
    BY EmptySeq
  <2> QED BY <2>1, <2>2 DEF Fresh, MergeInv
<1>3. ASSUME ~Compiled'
      PROVE  EdgeInv' /\ SortInv' /\ MergeInv' /\ AliasInv' /\ BarrierInv'
  <2>1. pc' = "idle"
    BY DeclareKinds
  <2>2. ~Active' /\ ~Built' /\ ~Sorted' /\ ~Aliasing'
    BY <1>3, <2>1 DEF Active, Built, Sorted, Aliasing
  <2>3. EdgeInv'
    BY <2>1, <2>2 DEF EdgeInv, Writers, Forward, Complete
  <2>4. SortInv'
    BY <2>1, <2>2 DEF SortInv, OrderInv, Kahn
  <2>5. MergeInv'
    BY <1>2, <2>1, <2>2 DEF MergeInv
  <2>6. AliasInv' /\ BarrierInv'
    BY <1>3, <2>1, <2>2 DEF AliasInv, BarrierInv
  <2> QED BY <2>3, <2>4, <2>5, <2>6
<1>4. ASSUME Compiled',
             UNCHANGED <<pc, renderPasses, computePasses, transferPasses, dirty, resultVars, edges,
                         loopVars, compiles>>
      PROVE  Compiled /\ EdgeInv' /\ SortInv' /\ MergeInv' /\ BarrierInv'
  <2>1. Compiled /\ pc = "idle" /\ pc' = "idle"
    BY <1>4, DeclareKinds, Zenon DEF Compiled, resultVars
  <2>2. /\ Active /\ Built /\ Sorted /\ Aliasing
        /\ Active' /\ Built' /\ Sorted' /\ Aliasing'
    BY <1>4, <2>1 DEF Active, Built, Sorted, Aliasing
  <2>3. UNCHANGED <<order, edges, groups, barriers, merged, pass>>
    BY <1>4 DEF resultVars, loopVars
  <2>4. EdgeInv'
    <3>1. \A p, h, q : Fed(p, h, q)' <=> Fed(p, h, q)
      BY <1>4, SamePasses DEF Fed
    <3> QED BY <1>4, <2>1, <2>2, <2>3, <3>1, SamePasses DEF EdgeInv, Writers, Forward, Complete
  <2>5. SortInv'
    <3>1. \A p : Ordered(p)' <=> Ordered(p)
      BY <2>3 DEF Ordered
    <3> QED BY <1>4, <2>1, <2>2, <2>3, <3>1, SamePasses DEF SortInv, OrderInv, Kahn, Distinct
  <2>6. MergeInv'
    <3>1. \A p : Grouped(p)' <=> Grouped(p)
      BY <2>3 DEF Grouped
    <3> QED BY <1>4, <2>1, <2>2, <2>3, <3>1, SamePasses DEF MergeInv
  <2>7. BarrierInv'
    <3>1. \A e : Barred(e)' <=> Barred(e)
      BY <2>3 DEF Barred
    <3> QED BY <1>4, <2>1, <2>2, <2>3, <3>1, SamePasses DEF BarrierInv
  <2> QED BY <2>1, <2>4, <2>5, <2>6, <2>7
<1>5. ASSUME Compiled, UNCHANGED <<transient, aliasGroup>>,
             UNCHANGED <<pc, renderPasses, computePasses, transferPasses, dirty, resultVars, edges,
                         loopVars, compiles>>
      PROVE  AliasInv'
  <2>1. UNCHANGED <<order, aliases, pending>>
    BY <1>5 DEF resultVars, loopVars
  <2>2. \A h : Uses(h)' = Uses(h)
    BY <1>5, <2>1, SamePasses DEF Uses
  <2>3. \A g, h : CanAliasWith(g, h)' <=> CanAliasWith(g, h)
    BY <2>2 DEF CanAliasWith
  <2>4. Aliasing
    BY <1>5 DEF Aliasing
  <2> QED BY <1>5, <2>1, <2>2, <2>3, <2>4 DEF AliasInv
<1>6. \/ ~Compiled'
      \/ /\ Compiled'
         /\ UNCHANGED <<pc, renderPasses, computePasses, transferPasses, dirty, resultVars, edges,
                        loopVars, compiles>>
         /\ UNCHANGED <<transient, aliasGroup>> \/ \E s \in Sizes : CreateTransient(s)
  BY DeclareKinds, Zenon
<1> QED BY <1>1, <1>2, <1>3, <1>4, <1>5, <1>6, AliasCreate

-----------------------------------------------------------------------------
(* What a step of a compilation leaves as it is                            *)

(* The passes and the resources do not change while a graph is compiled. *)
LEMMA GraphKept == CompileStep => UNCHANGED graphVars
BY Zenon DEF CompileStep, Compile, ReadInput, WriteOutputs, StartSort, Seed, PopPass, Relax, EndSort,
             Lead, Candidate, EndCandidates, StartAliasing, Place, StartBarriers, PlaceBarrier,
             EndCompile

LEMMA NamedKept ==
    ASSUME Named, UNCHANGED graphVars
    PROVE  Named'
BY DEF Named, graphVars

LEMMA EdgesKept ==
    ASSUME EdgeInv, Built, pc' # "build",
           UNCHANGED <<renderPasses, computePasses, transferPasses, edges>>
    PROVE  EdgeInv'
<1>1. \A p, h, q : Fed(p, h, q)' <=> Fed(p, h, q)
  BY SamePasses DEF Fed
<1>2. Active
  BY DEF Active, Built
<1> QED BY <1>1, <1>2, SamePasses DEF EdgeInv, Writers, Forward, Complete

LEMMA OrderKept ==
    ASSUME SortInv, Sorted, pc' \notin {"seed", "sort"},
           UNCHANGED <<renderPasses, computePasses, transferPasses, edges, order>>
    PROVE  SortInv'
<1>1. \A p : Ordered(p)' <=> Ordered(p)
  BY DEF Ordered
<1>2. Distinct(order)' <=> Distinct(order)
  BY DEF Distinct
<1>3. OrderInv'
  BY <1>2, SamePasses DEF SortInv, OrderInv
<1> QED BY <1>1, <1>3, SamePasses DEF SortInv, Kahn

LEMMA GroupsKept ==
    ASSUME MergeInv, Aliasing, pc' \notin {"merge", "candidates"},
           UNCHANGED <<renderPasses, computePasses, transferPasses, order, groups, merged>>
    PROVE  MergeInv'
<1>1. \A p : Grouped(p)' <=> Grouped(p)
  BY DEF Grouped
<1>2. Sorted
  BY DEF Aliasing, Sorted
<1> QED BY <1>1, <1>2, SamePasses DEF MergeInv

LEMMA AliasesKept ==
    ASSUME AliasInv, Aliasing,
           UNCHANGED <<renderPasses, computePasses, transferPasses, transient, aliasGroup, order,
                       aliases, pending>>
    PROVE  AliasInv'
<1>1. \A h : Uses(h)' = Uses(h)
  BY SamePasses DEF Uses
<1>2. \A g, h : CanAliasWith(g, h)' <=> CanAliasWith(g, h)
  BY <1>1 DEF CanAliasWith
<1> QED BY <1>1, <1>2 DEF AliasInv

-----------------------------------------------------------------------------
(* BuildDependencies                                                       *)

(* A set of places in a sequence has a last one. *)
LEMMA Largest ==
    ASSUME NEW n \in Nat, NEW T \in SUBSET (1 .. n), T # {}
    PROVE  \E x \in T : \A y \in T : y <= x
<1> DEFINE U == {n - x : x \in T}
<1>1. U \in SUBSET Nat /\ U # {}
  <2>1. PICK t \in T : TRUE
    OBVIOUS
  <2>2. n - t \in U
    BY <2>1
  <2>3. \A x \in T : n - x \in Nat
    OBVIOUS
  <2> QED BY <2>2, <2>3
<1>2. PICK u \in U : \A v \in U : u <= v
  <2> HIDE DEF U
  <2> QED BY <1>1, Least
<1>3. PICK x \in T : u = n - x
  OBVIOUS
<1>4. ASSUME NEW y \in T
      PROVE  y <= x
  <2>1. n - x <= n - y
    BY <1>2, <1>3
  <2> QED BY <2>1
<1> QED BY <1>4

(* The usage recorded for an output is one the pass names it with. *)
LEMMA WrittenAs ==
    ASSUME TypeOK, NEW p \in Unified, NEW h \in HandlesOf(Desc(p).outputs)
    PROVE  /\ Written(p, h).pass = p /\ Written(p, h).usage \in Usages
           /\ WritesAs(p, h, Written(p, h).usage)
<1> DEFINE outs == Desc(p).outputs
           T == {i \in DOMAIN outs : outs[i].handle = h}
           last == CHOOSE i \in DOMAIN outs :
                      outs[i].handle = h /\ \A j \in DOMAIN outs : outs[j].handle = h => j <= i
<1>1. outs \in Seq(Refs)
  BY Described
<1>2. Len(outs) \in Nat /\ DOMAIN outs = 1 .. Len(outs)
  BY <1>1, Elements
<1>3. T \in SUBSET (1 .. Len(outs)) /\ T # {}
  BY <1>1, <1>2, Handles
<1>4. PICK x \in T : \A y \in T : y <= x
  <2> HIDE DEF T
  <2> QED BY <1>2, <1>3, Largest
<1>5. last \in DOMAIN outs /\ outs[last].handle = h
  BY <1>4
<1>6. Written(p, h) = [pass |-> p, usage |-> outs[last].usage]
  BY DEF Written
<1>7. outs[last].usage \in Usages
  BY <1>1, <1>5, Handles
<1> HIDE DEF last
<1> QED BY <1>5, <1>6, <1>7 DEF WritesAs

(* Compile starts over. *)
LEMMA CompileBegins ==
    ASSUME IInv, Compile
    PROVE  IInv'
<1> USE DEF IInv
<1>1. TypeOK' /\ Named'
  BY GraphKept, CompileType, NamedKept DEF CompileStep
<1>2. /\ pc = "idle" /\ pc' = "build" /\ edges' = << >> /\ pass' = 1 /\ input' = 1
      /\ lastWriter' = << >> /\ order' = << >> /\ groups' = << >> /\ aliases' = << >>
      /\ barriers' = << >> /\ pending' = pending
  BY DEF Compile, EmptyCompiled
<1>3. ~valid'
  BY DEF Compile, EmptyCompiled
<1>4. ~Built' /\ ~Sorted' /\ ~Aliasing' /\ ~Compiled'
  BY <1>2 DEF Built, Sorted, Aliasing, Compiled
<1>5. Fresh'
  BY <1>2, <1>3 DEF Fresh
<1>6. EdgeInv'
  <2>1. DOMAIN edges' = {} /\ DOMAIN lastWriter' = {}
    BY <1>2
  <2>2. Unified' \subseteq Nat \ {0}
    <3>1. UNCHANGED <<renderPasses, computePasses, transferPasses>>
      BY GraphKept DEF CompileStep, graphVars
    <3> QED BY <3>1, SamePasses, Lists
  <2>3. \A q \in Unified' : \A i \in DOMAIN Desc(q)'.inputs : i >= 1
    <3>1. UNCHANGED <<renderPasses, computePasses, transferPasses>>
      BY GraphKept DEF CompileStep, graphVars
    <3>2. \A q \in Unified : Desc(q).inputs \in Seq(Refs)
      BY Described
    <3>3. \A q \in Unified : DOMAIN Desc(q).inputs = 1 .. Len(Desc(q).inputs)
      BY <3>2, Elements
    <3> QED BY <3>1, <3>3, SamePasses
  <2>4. Writers'
    BY <1>2, <2>1, <2>2 DEF Writers
  <2>5. Forward'
    BY <2>1 DEF Forward
  <2>7. \A q \in Unified' : \A i \in DOMAIN Desc(q)'.inputs : ~(q < 1 \/ (q = 1 /\ i < 1))
    <3>1. \A q \in Unified' : \A i \in DOMAIN Desc(q)'.inputs : i \in Nat
      <4>1. UNCHANGED <<renderPasses, computePasses, transferPasses>>
        BY GraphKept DEF CompileStep, graphVars
      <4>2. \A q \in Unified : Desc(q).inputs \in Seq(Refs)
        BY Described
      <4>3. \A q \in Unified : DOMAIN Desc(q).inputs \subseteq Nat
        BY <4>2, Elements
      <4> QED BY <4>1, <4>3, SamePasses
    <3> QED BY <2>2, <2>3, <3>1
  <2>8. Complete'
    BY <1>2, <1>4, <2>7 DEF Complete
  <2> QED BY <2>4, <2>5, <2>8 DEF EdgeInv
<1>7. SortInv'
  BY <1>2, <1>4 DEF SortInv, OrderInv, Kahn
<1>8. MergeInv'
  <2>1. << >> \in Seq([passes : Seq(Nat), attachments : SUBSET Nat])
    BY EmptySeq
  <2> QED BY <1>2, <1>4, <2>1 DEF MergeInv
<1>9. AliasInv' /\ BarrierInv'
  BY <1>2, <1>4 DEF AliasInv, BarrierInv
<1> QED BY <1>1, <1>5, <1>6, <1>7, <1>8, <1>9

(* What is not reached while the edges are built. *)
LEMMA BuildQuiet ==
    ASSUME IInv, ReadInput \/ WriteOutputs
    PROVE  /\ TypeOK' /\ Named' /\ Fresh' /\ SortInv' /\ MergeInv' /\ AliasInv' /\ BarrierInv'
           /\ pc = "build" /\ pc' = "build"
           /\ UNCHANGED <<renderPasses, computePasses, transferPasses>>
<1> USE DEF IInv
<1>1. TypeOK' /\ Named'
  BY GraphKept, CompileType, NamedKept DEF CompileStep
<1>2. /\ pc = "build" /\ pc' = "build" /\ order' = order /\ groups' = groups
      /\ aliases' = aliases /\ barriers' = barriers /\ pending' = pending
      /\ UNCHANGED <<renderPasses, computePasses, transferPasses>>
  BY DEF ReadInput, WriteOutputs, resultVars, graphVars
<1>3. ~valid'
  BY <1>2 DEF ReadInput, WriteOutputs, resultVars, Fresh
<1>4. ~Built' /\ ~Sorted' /\ ~Aliasing' /\ ~Compiled'
  BY <1>2 DEF Built, Sorted, Aliasing, Compiled
<1>5. Fresh'
  BY <1>2, <1>3 DEF Fresh
<1> QED BY <1>1, <1>2, <1>4, <1>5 DEF SortInv, OrderInv, Kahn, MergeInv, AliasInv, BarrierInv

LEMMA ReadInputStep ==
    ASSUME IInv, ReadInput
    PROVE  IInv'
<1> USE DEF IInv
<1> DEFINE ref == Desc(pass).inputs[input]
           known == ref.handle # NoHandle /\ ref.handle \in DOMAIN lastWriter
<1>1. /\ pass \in Unified /\ pass \in Nat /\ input \in Nat /\ input >= 1
      /\ input <= Len(Desc(pass).inputs) /\ pc = "build" /\ Writers
  BY DEF ReadInput, TypeOK, EdgeInv, Writers
<1>2. Desc(pass).inputs \in Seq(Refs)
  BY <1>1, Described
<1>3. input \in DOMAIN Desc(pass).inputs /\ ref \in Refs
  BY <1>1, <1>2, Elements
<1>4. /\ edges' = IF known THEN Append(edges, Edge(ref, pass)) ELSE edges
      /\ input' = input + 1 /\ pass' = pass /\ lastWriter' = lastWriter /\ pc' = pc
  BY DEF ReadInput
<1>5. UNCHANGED <<renderPasses, computePasses, transferPasses>>
  BY BuildQuiet
<1>6. known => Edge(ref, pass) \in Edges /\ WriterOf(ref.handle)
  BY <1>1, <1>3, EdgeType DEF Writers
<1>7. edges \in Seq(Edges) /\ DOMAIN edges = 1 .. Len(edges) /\ Len(edges) \in Nat
  BY Elements DEF TypeOK
<1>8. /\ DOMAIN edges \subseteq DOMAIN edges'
      /\ \A k \in DOMAIN edges : edges'[k] = edges[k]
      /\ known => /\ Len(edges) + 1 \in DOMAIN edges'
                  /\ edges'[Len(edges) + 1] = Edge(ref, pass)
                  /\ DOMAIN edges' = DOMAIN edges \cup {Len(edges) + 1}
      /\ ~known => edges' = edges
  <2> HIDE DEF known, ref
  <2>1. CASE known
    BY <1>4, <1>6, <1>7, <2>1, Appended
  <2>2. CASE ~known
    BY <1>4, <2>2
  <2> QED BY <2>1, <2>2
<1> HIDE DEF known
<1>9. Writers'
  <2>1. \A h : WriterOf(h)' <=> WriterOf(h)
    BY <1>4, <1>5, SamePasses DEF WriterOf
  <2>2. pass' >= 1 /\ input' >= 1
    BY <1>1, <1>4 DEF Writers
  <2>3. \A h \in DOMAIN lastWriter' : WriterOf(h)'
    BY <1>1, <1>4, <2>1 DEF Writers
  <2>4. \A r \in Unified : r < pass => HandlesOf(Desc(r).outputs) \subseteq DOMAIN lastWriter
    BY <1>1 DEF Writers
  <2>5. \A r \in Unified' : r < pass' => HandlesOf(Desc(r)'.outputs) \subseteq DOMAIN lastWriter'
    BY <1>4, <1>5, <2>4, SamePasses
  <2> QED BY <2>2, <2>3, <2>5 DEF Writers
<1>10. Forward'
  <2>1. ASSUME NEW k \in DOMAIN edges'
        PROVE  edges'[k].source \in Unified /\ edges'[k].dest \in Unified
               /\ edges'[k].source < edges'[k].dest
    <3>1. CASE k \in DOMAIN edges
      <4>1. Active
        BY <1>1 DEF Active
      <4> QED BY <1>8, <3>1, <4>1 DEF EdgeInv, Forward
    <3>2. CASE k \notin DOMAIN edges
      <4>1. known /\ edges'[k] = Edge(ref, pass)
        BY <1>8, <2>1, <3>2
      <4> QED BY <1>1, <1>6, <4>1 DEF Edge, WriterOf
    <3> QED BY <3>1, <3>2
  <2> QED BY <1>5, <2>1, SamePasses DEF Forward
<1>11. \A p, h, q : Fed(p, h, q) => Fed(p, h, q)'
  BY <1>5, <1>8, SamePasses DEF Fed
<1>12. ASSUME NEW p \in Unified, NEW h, NEW q, h = ref.handle, q = pass, Feeds(p, h, q)
       PROVE  Fed(p, h, q)'
  <2>1. /\ p < pass /\ h \in HandlesOf(Desc(p).outputs) /\ p \in Nat
        /\ \A r \in Unified : p < r /\ r < pass => h \notin HandlesOf(Desc(r).outputs)
        /\ h = ref.handle
    BY <1>12, Lists DEF Feeds
  <2>2. known
    <3>1. h # NoHandle
      BY <2>1 DEF HandlesOf
    <3>2. h \in DOMAIN lastWriter
      BY <1>1, <2>1 DEF Writers
    <3> QED BY <2>1, <3>1, <3>2 DEF known
  <2>3. /\ lastWriter[h].pass \in Unified /\ lastWriter[h].pass < pass
        /\ WritesAs(lastWriter[h].pass, h, lastWriter[h].usage)
        /\ \A r \in Unified : lastWriter[h].pass < r /\ r < pass
                                => h \notin HandlesOf(Desc(r).outputs)
    BY <1>6, <2>1, <2>2 DEF WriterOf
  <2>4. h \in HandlesOf(Desc(lastWriter[h].pass).outputs)
    <3>1. h # NoHandle
      BY <2>1 DEF HandlesOf
    <3> QED BY <2>3, <3>1 DEF WritesAs, HandlesOf
  <2>5. lastWriter[h].pass = p
    <3>1. lastWriter[h].pass \in Nat
      BY <2>3, Lists
    <3> QED BY <2>1, <2>3, <2>4, <3>1
  <2> DEFINE e == Edge(ref, pass)
             new == Len(edges) + 1
  <2>6. e.source = p /\ e.dest = q /\ e.resource = h /\ e.fromUsage = lastWriter[h].usage
    BY <1>12, <2>5 DEF Edge
  <2>7. WritesAs(p, h, e.fromUsage)
    BY <2>3, <2>5, <2>6
  <2>8. new \in DOMAIN edges' /\ edges'[new] = e
    BY <1>8, <2>2
  <2> HIDE DEF e, new
  <2>9. \A u : WritesAs(p, h, u)' <=> WritesAs(p, h, u)
    BY <1>5, SamePasses
  <2> QED BY <2>6, <2>7, <2>8, <2>9 DEF Fed
<1>13. Complete'
  <2>1. ASSUME NEW q \in Unified, NEW i \in DOMAIN Desc(q).inputs, NEW p \in Unified,
               NEW h, h = Desc(q).inputs[i].handle,
               q < pass \/ (q = pass /\ i < input + 1), Feeds(p, h, q)
        PROVE  Fed(p, h, q)'
    <3>1. CASE q < pass \/ (q = pass /\ i < input)
      BY <1>1, <1>11, <2>1, <3>1 DEF EdgeInv, Complete
    <3>2. CASE q = pass /\ i = input
      BY <1>12, <2>1, <3>2
    <3>3. i \in Nat
      <4>1. Desc(q).inputs \in Seq(Refs)
        BY Described
      <4> QED BY <4>1, Elements
    <3> QED BY <1>1, <2>1, <3>1, <3>2, <3>3
  <2>2. ~Built'
    BY <1>1, <1>4 DEF Built, Compiled
  <2> QED BY <1>4, <1>5, <2>1, <2>2, SamePasses DEF Complete
<1> QED BY <1>9, <1>10, <1>13, BuildQuiet DEF EdgeInv

LEMMA WriteOutputsStep ==
    ASSUME IInv, WriteOutputs
    PROVE  IInv'
<1> USE DEF IInv
<1>1. /\ pass \in Unified /\ pass \in Nat /\ pass >= 1 /\ input \in Nat
      /\ input > Len(Desc(pass).inputs) /\ pc = "build" /\ Writers
  BY DEF WriteOutputs, TypeOK, EdgeInv, Writers
<1>2. /\ DOMAIN lastWriter' = DOMAIN lastWriter \cup HandlesOf(Desc(pass).outputs)
      /\ \A h \in DOMAIN lastWriter' :
            lastWriter'[h] = IF h \in HandlesOf(Desc(pass).outputs) THEN Written(pass, h)
                             ELSE lastWriter[h]
      /\ pass' = pass + 1 /\ input' = 1 /\ edges' = edges /\ pc' = pc
  BY DEF WriteOutputs
<1>3. UNCHANGED <<renderPasses, computePasses, transferPasses>>
  BY BuildQuiet
<1>4. Unified \subseteq Nat
  BY Lists
<1>5. Writers'
  <2>1. ASSUME NEW h \in DOMAIN lastWriter'
        PROVE  WriterOf(h)'
    <3>1. CASE h \in HandlesOf(Desc(pass).outputs)
      <4>1. /\ lastWriter'[h].pass = pass /\ lastWriter'[h].usage \in Usages
            /\ WritesAs(pass, h, lastWriter'[h].usage)
        BY <1>1, <1>2, <2>1, <3>1, WrittenAs
      <4>2. h \in Nat \ {NoHandle}
        BY <1>1, <3>1, Described, Handles
      <4>3. WritesAs(lastWriter[h].pass, h, lastWriter[h].usage)'
        BY <1>3, <4>1, SamePasses
      <4>4. \A r \in Unified : ~(pass < r /\ r < pass + 1)
        BY <1>1, <1>4
      <4>5. lastWriter'[h].pass < pass'
        BY <1>1, <1>2, <4>1
      <4> QED BY <1>1, <1>2, <1>3, <4>1, <4>2, <4>3, <4>4, <4>5, SamePasses DEF WriterOf
    <3>2. CASE h \notin HandlesOf(Desc(pass).outputs)
      <4>1. h \in DOMAIN lastWriter /\ lastWriter'[h] = lastWriter[h]
        BY <1>2, <2>1, <3>2
      <4>2. WriterOf(h)
        BY <1>1, <4>1 DEF Writers
      <4>3. /\ lastWriter[h].pass \in Unified /\ lastWriter[h].pass < pass
            /\ WritesAs(lastWriter[h].pass, h, lastWriter[h].usage)
            /\ \A r \in Unified : lastWriter[h].pass < r /\ r < pass
                                   => h \notin HandlesOf(Desc(r).outputs)
        BY <4>2 DEF WriterOf
      <4>4. ASSUME NEW r \in Unified, lastWriter[h].pass < r, r < pass + 1
            PROVE  h \notin HandlesOf(Desc(r).outputs)
        <5>1. r < pass \/ r = pass
          BY <1>1, <1>4, <4>4
        <5> QED BY <3>2, <4>3, <4>4, <5>1
      <4>5. lastWriter[h].pass < pass + 1
        <5>1. lastWriter[h].pass \in Nat /\ lastWriter[h].pass < pass
          BY <1>4, <4>3
        <5> QED BY <1>1, <5>1
      <4>6. WritesAs(lastWriter[h].pass, h, lastWriter[h].usage)'
        BY <1>3, <4>1, <4>3, SamePasses
      <4>7. h \in Nat \ {NoHandle} /\ lastWriter[h].usage \in Usages
        BY <4>2 DEF WriterOf
      <4> QED BY <1>2, <1>3, <4>1, <4>3, <4>4, <4>5, <4>6, <4>7, SamePasses DEF WriterOf
    <3> QED BY <3>1, <3>2
  <2>2. ASSUME NEW r \in Unified, r < pass + 1
        PROVE  HandlesOf(Desc(r).outputs) \subseteq DOMAIN lastWriter'
    BY <1>1, <1>2, <1>4, <2>2 DEF Writers
  <2>3. \A r \in Unified' : r < pass' => HandlesOf(Desc(r)'.outputs) \subseteq DOMAIN lastWriter'
    BY <1>2, <1>3, <2>2, SamePasses
  <2>4. pass' >= 1 /\ input' >= 1
    BY <1>1, <1>2
  <2> QED BY <2>1, <2>3, <2>4 DEF Writers
<1>6. Forward'
  BY <1>1, <1>2, <1>3, SamePasses DEF EdgeInv, Forward, Active
<1>7. Complete'
  <2>1. \A p, h, q : Fed(p, h, q)' <=> Fed(p, h, q)
    BY <1>2, <1>3, SamePasses DEF Fed
  <2>2. ASSUME NEW q \in Unified, NEW i \in DOMAIN Desc(q).inputs, NEW p \in Unified,
               q < pass + 1 \/ (q = pass + 1 /\ i < 1), Feeds(p, Desc(q).inputs[i].handle, q)
        PROVE  Fed(p, Desc(q).inputs[i].handle, q)
    <3>1. /\ DOMAIN Desc(q).inputs = 1 .. Len(Desc(q).inputs) /\ Len(Desc(q).inputs) \in Nat
      BY Described, Elements
    <3>2. q < pass \/ (q = pass /\ i < input)
      BY <1>1, <1>4, <2>2, <3>1
    <3> QED BY <1>1, <2>2, <3>2 DEF EdgeInv, Complete
  <2>3. ~Built'
    BY <1>1, <1>2 DEF Built, Compiled
  <2> QED BY <1>2, <1>3, <2>1, <2>2, <2>3, SamePasses DEF Complete
<1> QED BY <1>5, <1>6, <1>7, BuildQuiet DEF EdgeInv

-----------------------------------------------------------------------------
(* TopologicalSort                                                         *)

(* The edges to a pass are finitely many, and so are those left. *)
LEMMA LeftFinite ==
    ASSUME TypeOK, NEW p
    PROVE  /\ IsFiniteSet(EdgesTo(p)) /\ Cardinality(EdgesTo(p)) \in Nat
           /\ IsFiniteSet(Left(p)) /\ Cardinality(Left(p)) \in Nat
           /\ Cardinality(Left(p)) = 0 <=> Left(p) = {}
<1>1. DOMAIN edges = 1 .. Len(edges) /\ Len(edges) \in Nat
  BY Elements DEF TypeOK
<1>2. IsFiniteSet(DOMAIN edges)
  BY <1>1, FS_Interval
<1>3. EdgesTo(p) \in SUBSET DOMAIN edges /\ Left(p) \in SUBSET DOMAIN edges
  BY DEF EdgesTo, Left
<1>4. IsFiniteSet(EdgesTo(p)) /\ IsFiniteSet(Left(p))
  BY <1>2, <1>3, FS_Subset
<1> QED BY <1>4, FS_CardinalityType, FS_EmptySet

(* A sequence whose elements differ, with another one. *)
LEMMA DistinctAppend ==
    ASSUME NEW S, NEW s \in Seq(S), NEW x \in S, Distinct(s), \A i \in DOMAIN s : s[i] # x
    PROVE  Distinct(Append(s, x))
<1>1. /\ DOMAIN Append(s, x) = 1 .. Len(s) + 1 /\ Append(s, x)[Len(s) + 1] = x
      /\ \A i \in DOMAIN s : Append(s, x)[i] = s[i]
  BY Appended
<1>2. DOMAIN s = 1 .. Len(s) /\ Len(s) \in Nat
  BY Elements
<1>3. \A i \in 1 .. Len(s) + 1 : i \in DOMAIN s \/ i = Len(s) + 1
  BY <1>2
<1>4. ASSUME NEW i \in 1 .. Len(s) + 1, NEW j \in 1 .. Len(s) + 1,
             Append(s, x)[i] = Append(s, x)[j]
      PROVE  i = j
  BY <1>1, <1>3, <1>4 DEF Distinct
<1> QED BY <1>1, <1>4 DEF Distinct

(* What is not reached while the passes are sorted. *)
LEMMA SortQuiet ==
    ASSUME IInv, Seed \/ PopPass \/ \E k \in todo : Relax(k)
    PROVE  /\ TypeOK' /\ Named' /\ Fresh' /\ EdgeInv' /\ MergeInv' /\ AliasInv' /\ BarrierInv'
           /\ pc \in {"seed", "sort"} /\ pc' \in {"seed", "sort"}
           /\ UNCHANGED <<renderPasses, computePasses, transferPasses, edges>>
<1> USE DEF IInv
<1>1. TypeOK' /\ Named'
  BY GraphKept, CompileType, NamedKept DEF CompileStep
<1>2. /\ pc \in {"seed", "sort"} /\ pc' \in {"seed", "sort"} /\ groups' = groups
      /\ aliases' = aliases /\ barriers' = barriers /\ pending' = pending
      /\ UNCHANGED <<renderPasses, computePasses, transferPasses, edges>>
      /\ pc' = "seed" => order' = order /\ pc = "seed"
  BY DEF Seed, PopPass, Relax, resultVars, graphVars
<1>3. ~valid'
  BY <1>2 DEF Seed, PopPass, Relax, resultVars, Fresh
<1>4. Built /\ ~Sorted' /\ ~Aliasing' /\ ~Compiled'
  BY <1>2 DEF Built, Sorted, Aliasing, Compiled
<1>5. Fresh'
  BY <1>2, <1>3 DEF Fresh
<1>6. EdgeInv'
  BY <1>2, <1>4, EdgesKept
<1>7. MergeInv' /\ AliasInv' /\ BarrierInv'
  BY <1>2, <1>4 DEF MergeInv, AliasInv, BarrierInv
<1> QED BY <1>1, <1>2, <1>5, <1>6, <1>7

LEMMA StartSortStep ==
    ASSUME IInv, StartSort
    PROVE  IInv'
<1> USE DEF IInv
<1>1. TypeOK' /\ Named'
  BY GraphKept, CompileType, NamedKept DEF CompileStep
<1>2. /\ pc = "build" /\ pc' = "seed" /\ order' = order /\ groups' = groups
      /\ aliases' = aliases /\ barriers' = barriers /\ pending' = pending
      /\ UNCHANGED <<renderPasses, computePasses, transferPasses, edges>>
      /\ inDegree' = [p \in Passes |-> Cardinality(EdgesTo(p))]
      /\ queue' = << >> /\ todo' = {} /\ pass' = 1
      /\ pass \notin Unified
  BY DEF StartSort, resultVars, graphVars
<1>3. ~valid'
  BY <1>2 DEF StartSort, resultVars, Fresh
<1>4. Built' /\ ~Sorted' /\ ~Aliasing' /\ ~Compiled' /\ Active
  BY <1>2 DEF Active, Built, Sorted, Aliasing, Compiled
<1>5. Fresh'
  BY <1>2, <1>3 DEF Fresh
<1>6. EdgeInv'
  <2>1. \A p, h, q : Fed(p, h, q)' <=> Fed(p, h, q)
    BY <1>2, SamePasses DEF Fed
  <2>2. \A q \in Unified : q < pass
    BY <1>2, Lists DEF EdgeInv, Writers, Unified, TypeOK
  <2>3. ASSUME NEW p \in Unified, NEW q \in Unified, NEW h \in HandlesOf(Desc(q).inputs),
               Feeds(p, h, q)
        PROVE  Fed(p, h, q)
    <3>1. PICK i \in DOMAIN Desc(q).inputs : Desc(q).inputs[i].handle = h
      BY Described, Handles
    <3> QED BY <1>2, <2>2, <2>3, <3>1 DEF EdgeInv, Complete
  <2>4. Complete'
    BY <1>2, <2>1, <2>3, SamePasses DEF Complete
  <2>5. Forward' /\ Writers'
    BY <1>2, <1>4, SamePasses DEF EdgeInv, Forward, Writers
  <2> QED BY <2>4, <2>5 DEF EdgeInv
<1>7. SortInv'
  <2>1. \A p : ~Ordered(p)' /\ ~Queued(p)'
    BY <1>2 DEF Fresh, Ordered, Queued
  <2>2. \A p : Left(p)' = EdgesTo(p)
    BY <1>2, <2>1 DEF Left, EdgesTo
  <2>3. inDegree' \in [Passes -> Nat]
    BY <1>2, LeftFinite
  <2>4. << >> \in Seq(Passes)
    BY EmptySeq
  <2>5. \A p \in Passes : p >= 1
    BY Lists
  <2>6. Kahn'
    <3>1. \A p \in Passes : inDegree'[p] = Cardinality(Left(p)')
      BY <1>2, <2>2
    <3>2. Distinct(queue)'
      BY <1>2 DEF Distinct
    <3>3. \A p \in Passes : Queued(p)' <=> p < pass' /\ inDegree'[p] = 0
      <4>1. Passes \subseteq Nat
        BY Lists
      <4> QED BY <1>2, <2>1, <2>5, <4>1
    <3> QED BY <1>2, <2>1, <2>3, <2>4, <3>1, <3>2, <3>3, SamePasses DEF Kahn
  <2> QED BY <1>2, <1>4, <2>6 DEF SortInv, OrderInv
<1>8. MergeInv' /\ AliasInv' /\ BarrierInv'
  BY <1>2, <1>4 DEF MergeInv, AliasInv, BarrierInv
<1> QED BY <1>1, <1>5, <1>6, <1>7, <1>8

(* Nothing leads to the first pass. *)
LEMMA FirstFree ==
    ASSUME IInv, pc \in {"seed", "sort"}
    PROVE  EdgesTo(1) = {}
<1>1. \A k \in DOMAIN edges : edges[k].source \in Unified /\ edges[k].source < edges[k].dest
  BY DEF IInv, EdgeInv, Forward, Active
<1>2. Unified \subseteq Nat \ {0}
  BY Lists DEF IInv
<1>3. ASSUME NEW k \in DOMAIN edges, edges[k].dest = 1
      PROVE  FALSE
  <2>1. edges[k].source \in Nat \ {0} /\ edges[k].source < 1
    BY <1>1, <1>2, <1>3
  <2> QED BY <2>1
<1> QED BY <1>3 DEF EdgesTo

LEMMA SeedStep ==
    ASSUME IInv, Seed
    PROVE  IInv'
<1> USE DEF IInv
<1>1. /\ pc = "seed" /\ order' = order /\ todo' = todo /\ inDegree' = inDegree
      /\ UNCHANGED <<renderPasses, computePasses, transferPasses, edges>>
  BY DEF Seed, resultVars, graphVars
<1>2. order = << >> /\ todo = {}
  BY <1>1 DEF Fresh, SortInv, Kahn
<1>3. \A p : ~Ordered(p)
  BY <1>2 DEF Ordered
<1>4. \A p : ~Ordered(p)' /\ Left(p)' = Left(p)
  BY <1>1, <1>2, <1>3 DEF Ordered, Left, EdgesTo
<1>5. /\ inDegree \in [Passes -> Nat] /\ queue \in Seq(Passes) /\ Distinct(queue)
      /\ \A p \in Passes : inDegree[p] = Cardinality(Left(p))
      /\ \A p \in Passes : Queued(p) <=> p < pass /\ inDegree[p] = 0
      /\ queue # << >> => queue[1] = 1
      /\ pass > 1 /\ Passes # {} => queue # << >>
      /\ pass >= 1 /\ pass \in Nat
  BY <1>1, <1>2 DEF SortInv, Kahn, TypeOK
<1>6. Len(queue) \in Nat /\ DOMAIN queue = 1 .. Len(queue) /\ (queue = << >> <=> Len(queue) = 0)
  BY <1>5, Elements
<1>7. Passes \subseteq Nat \ {0}
  BY Lists
<1>8. ASSUME pass \in Passes, pc' = "seed", pass' = pass + 1,
             queue' = IF inDegree[pass] = 0 THEN Append(queue, pass) ELSE queue
      PROVE  Kahn'
  <2>1. inDegree[1] = 0 /\ 1 \in Passes
    <3>1. 1 \in Passes
      BY <1>8, Lists DEF Passes
    <3>2. Left(1) = {}
      BY <1>1, FirstFree DEF Left
    <3> QED BY <1>5, <3>1, <3>2, FS_EmptySet
  <2>2. queue' \in Seq(Passes) /\ Distinct(queue)' /\ queue' # << >> /\ queue'[1] = 1
        /\ \A p \in Passes : Queued(p)' <=> Queued(p) \/ (p = pass /\ inDegree[p] = 0)
    <3>1. CASE inDegree[pass] = 0
      <4>1. queue' = Append(queue, pass)
        BY <1>8, <3>1
      <4>2. /\ queue' \in Seq(Passes) /\ queue' # << >>
            /\ DOMAIN queue' = 1 .. Len(queue) + 1 /\ queue'[Len(queue) + 1] = pass
            /\ \A i \in DOMAIN queue : queue'[i] = queue[i]
        BY <1>5, <1>8, <4>1, Appended
      <4>3. \A i \in DOMAIN queue : queue[i] # pass
        <5>1. ~Queued(pass)
          BY <1>5, <1>7, <1>8
        <5> QED BY <5>1 DEF Queued
      <4>4. Distinct(queue)'
        BY <1>5, <1>8, <4>1, <4>3, DistinctAppend
      <4>5. queue'[1] = 1
        <5>1. CASE queue = << >>
          BY <1>5, <1>6, <1>8, <4>2, <5>1
        <5>2. CASE queue # << >>
          BY <1>5, <1>6, <4>2, <5>2
        <5> QED BY <5>1, <5>2
      <4>6. \A p \in Passes : Queued(p)' <=> Queued(p) \/ (p = pass /\ inDegree[p] = 0)
        BY <1>6, <3>1, <4>2 DEF Queued
      <4> QED BY <4>2, <4>4, <4>5, <4>6
    <3>2. CASE inDegree[pass] # 0
      <4>1. queue' = queue /\ queue # << >>
        <5>1. pass # 1
          BY <2>1, <3>2
        <5> QED BY <1>5, <1>8, <3>2, <5>1
      <4> QED BY <1>5, <3>2, <4>1 DEF Distinct, Queued
    <3> QED BY <3>1, <3>2
  <2>3. \A p \in Passes : Queued(p)' <=> p < pass' /\ inDegree'[p] = 0
    BY <1>1, <1>5, <1>7, <1>8, <2>2
  <2>4. /\ Passes' = Passes /\ inDegree' = inDegree /\ todo' = {} /\ pass' >= 1
        /\ order' = << >> /\ pc' = "seed" /\ \A p : ~Ordered(p)'
        /\ \A p \in Passes : inDegree'[p] = Cardinality(Left(p)')
    BY <1>1, <1>2, <1>4, <1>5, <1>8, SamePasses
  <2> QED BY <1>5, <2>2, <2>3, <2>4 DEF Kahn
<1>9. ASSUME pass \notin Passes, pc' = "sort", queue' = queue
      PROVE  Kahn' /\ OrderInv'
  <2>1. \A p \in Passes : p < pass
    BY <1>5, <1>9, Lists DEF Passes
  <2>2. Passes # {} => queue # << >>
    BY <1>5, <1>7, <2>1
  <2>3. \A p : Queued(p)' <=> Queued(p)
    BY <1>9 DEF Queued
  <2>4. Distinct(queue)' /\ Distinct(order)'
    BY <1>1, <1>2, <1>5, <1>9 DEF Distinct
  <2>5. Kahn'
    BY <1>1, <1>2, <1>4, <1>5, <1>9, <2>1, <2>2, <2>3, <2>4, SamePasses DEF Kahn
  <2>6. order' \in Seq(Passes) /\ order' = << >> /\ DOMAIN order' = {}
    BY <1>1, <1>2, EmptySeq
  <2>7. OrderInv'
    BY <1>1, <2>4, <2>6, SamePasses DEF OrderInv
  <2> QED BY <2>5, <2>7
<1>10. ~Sorted'
  BY SortQuiet DEF Sorted, Compiled
<1>11. SortInv'
  <2>1. CASE pass \in Passes
    <3>1. pc' = "seed"
      BY <1>1, <2>1 DEF Seed
    <3> QED BY <1>8, <1>10, <2>1, <3>1 DEF Seed, SortInv, OrderInv
  <2>2. CASE pass \notin Passes
    BY <1>9, <1>10, <2>2 DEF Seed, SortInv
  <2> QED BY <2>1, <2>2
<1> QED BY <1>11, SortQuiet

LEMMA PopPassStep ==
    ASSUME IInv, PopPass
    PROVE  IInv'
<1> USE DEF IInv
<1>p. PICK p : p = queue[1]
  OBVIOUS
<1>1. /\ pc = "sort" /\ pc' = "sort" /\ todo = {} /\ queue # << >> /\ inDegree' = inDegree
      /\ order' = Append(order, Head(queue)) /\ queue' = Tail(queue)
      /\ todo' = EdgesFrom(Head(queue))
      /\ UNCHANGED <<renderPasses, computePasses, transferPasses, edges>>
  BY DEF PopPass, graphVars
<1>2. /\ inDegree \in [Passes -> Nat] /\ queue \in Seq(Passes) /\ Distinct(queue)
      /\ \A x \in Passes : inDegree[x] = Cardinality(Left(x))
      /\ \A x \in Passes : ~(Ordered(x) /\ Queued(x))
      /\ \A x \in Passes : inDegree[x] = 0 <=> Ordered(x) \/ Queued(x)
      /\ order = << >> => queue[1] = 1
      /\ order \in Seq(Passes) /\ Distinct(order)
      /\ order # << >> => order[1] = 1
      /\ \A k \in DOMAIN edges, j \in DOMAIN order : order[j] = edges[k].dest =>
              \E i \in 1 .. j - 1 : order[i] = edges[k].source
  BY <1>1 DEF SortInv, Kahn, OrderInv
<1>3. /\ Head(queue) = p /\ p \in Passes /\ 1 \in DOMAIN queue
      /\ queue' \in Seq(Passes) /\ DOMAIN queue' = 1 .. Len(queue) - 1
      /\ \A i \in DOMAIN queue' : queue'[i] = queue[i + 1] /\ i + 1 \in DOMAIN queue
  BY <1>1, <1>2, <1>p, Tailed
<1>4. DOMAIN queue = 1 .. Len(queue) /\ Len(queue) \in Nat
      /\ DOMAIN order = 1 .. Len(order) /\ Len(order) \in Nat /\ (order = << >> <=> Len(order) = 0)
  BY <1>2, Elements
<1>5. /\ order' \in Seq(Passes) /\ order' # << >>
      /\ DOMAIN order' = 1 .. Len(order) + 1 /\ order'[Len(order) + 1] = p
      /\ \A i \in DOMAIN order : order'[i] = order[i]
  BY <1>1, <1>2, <1>3, Appended
<1>6. Queued(p) /\ ~Ordered(p)
  BY <1>2, <1>3, <1>p DEF Queued
<1>7. \A x : Ordered(x)' <=> Ordered(x) \/ x = p
  BY <1>4, <1>5 DEF Ordered
<1>8. \A x : Queued(x)' <=> Queued(x) /\ x # p
  <2>1. ASSUME NEW i \in DOMAIN queue, i # 1
        PROVE  i - 1 \in DOMAIN queue' /\ queue'[i - 1] = queue[i]
    BY <1>3, <1>4, <2>1
  <2>2. ASSUME NEW i \in DOMAIN queue'
        PROVE  queue'[i] # p
    <3>1. i + 1 \in DOMAIN queue /\ i + 1 # 1 /\ queue'[i] = queue[i + 1]
      BY <1>3, <1>4, <2>2
    <3> QED BY <1>2, <1>3, <1>p, <3>1 DEF Distinct
  <2>3. ASSUME NEW x, Queued(x), x # p
        PROVE  Queued(x)'
    <3>1. PICK i \in DOMAIN queue : queue[i] = x
      BY <2>3 DEF Queued
    <3>2. i # 1
      BY <1>p, <2>3, <3>1
    <3> QED BY <2>1, <3>1, <3>2 DEF Queued
  <2>4. ASSUME NEW x, Queued(x)'
        PROVE  Queued(x) /\ x # p
    BY <1>3, <2>2, <2>4 DEF Queued
  <2> QED BY <2>3, <2>4
<1>9. \A x : Left(x)' = Left(x)
  <2>1. \A k \in DOMAIN edges : k \in todo' <=> edges[k].source = p
    BY <1>1, <1>3 DEF EdgesFrom
  <2>2. \A x : EdgesTo(x)' = EdgesTo(x) /\ EdgesTo(x) \subseteq DOMAIN edges
    BY <1>1 DEF EdgesTo
  <2>3. ASSUME NEW x, NEW k \in EdgesTo(x)
        PROVE  k \in todo' \/ ~Ordered(edges[k].source)' <=> k \in todo \/ ~Ordered(edges[k].source)
    BY <1>1, <1>6, <1>7, <2>1, <2>2
  <2> QED BY <1>1, <2>2, <2>3 DEF Left
<1>10. Distinct(order)'
  <2>1. \A i \in DOMAIN order : order[i] # p
    BY <1>6 DEF Ordered
  <2> QED BY <1>1, <1>2, <1>3, <2>1, DistinctAppend
<1>11. Distinct(queue)'
  <2>1. ASSUME NEW i \in DOMAIN queue', NEW j \in DOMAIN queue', queue'[i] = queue'[j]
        PROVE  i = j
    <3>1. i + 1 = j + 1
      BY <1>2, <1>3, <2>1 DEF Distinct
    <3> QED BY <1>3, <1>4, <3>1
  <2> QED BY <2>1 DEF Distinct
<1>12. order'[1] = 1
  BY <1>2, <1>4, <1>5, <1>p
<1>13. ASSUME NEW k \in DOMAIN edges, NEW j \in DOMAIN order', order'[j] = edges[k].dest
       PROVE  \E i \in 1 .. j - 1 : order'[i] = edges[k].source
  <2>1. CASE j \in DOMAIN order
    <3>1. PICK i \in 1 .. j - 1 : order[i] = edges[k].source
      BY <1>2, <1>5, <1>13, <2>1
    <3> QED BY <1>4, <1>5, <2>1, <3>1
  <2>2. CASE j = Len(order) + 1
    <3>1. k \in EdgesTo(p)
      BY <1>5, <1>13, <2>2 DEF EdgesTo
    <3>2. Left(p) = {}
      BY <1>2, <1>3, <1>6, LeftFinite
    <3>3. PICK i \in DOMAIN order : order[i] = edges[k].source
      BY <3>1, <3>2 DEF Left, Ordered
    <3> QED BY <1>4, <1>5, <2>2, <3>3
  <2> QED BY <1>4, <1>5, <2>1, <2>2
<1>14. todo' \subseteq DOMAIN edges /\ \A k \in todo' : Ordered(edges[k].source)'
  BY <1>1, <1>3, <1>7 DEF EdgesFrom
<1>15. Kahn'
  <2>1. /\ Passes' = Passes /\ inDegree' = inDegree /\ pc' = "sort" /\ order' # << >>
        /\ \A x \in Passes : inDegree'[x] = Cardinality(Left(x)')
    BY <1>1, <1>2, <1>5, <1>9, SamePasses
  <2>2. \A x \in Passes : ~(Ordered(x)' /\ Queued(x)')
    BY <1>2, <1>7, <1>8
  <2>3. \A x \in Passes : inDegree'[x] = 0 <=> Ordered(x)' \/ Queued(x)'
    BY <1>1, <1>2, <1>6, <1>7, <1>8
  <2>4. todo' \subseteq DOMAIN edges' /\ \A k \in todo' : Ordered(edges[k].source)'
    BY <1>1, <1>14
  <2> QED BY <1>2, <1>3, <1>11, <2>1, <2>2, <2>3, <2>4 DEF Kahn
<1>16. OrderInv'
  BY <1>1, <1>5, <1>10, <1>12, <1>13, SamePasses DEF OrderInv
<1>17. ~Sorted'
  BY <1>1 DEF Sorted, Compiled
<1> QED BY <1>15, <1>16, <1>17, SortQuiet DEF SortInv

LEMMA RelaxStep ==
    ASSUME IInv, NEW k \in todo, Relax(k)
    PROVE  IInv'
<1> USE DEF IInv
<1>p. PICK p : p = edges[k].dest
  OBVIOUS
<1>1. /\ pc = "sort" /\ pc' = "sort" /\ order' = order /\ todo' = todo \ {k}
      /\ inDegree' = [inDegree EXCEPT ![p] = @ - 1]
      /\ queue' = IF inDegree[p] = 1 THEN Append(queue, p) ELSE queue
      /\ UNCHANGED <<renderPasses, computePasses, transferPasses, edges>>
  BY <1>p DEF Relax, resultVars, graphVars
<1>2. /\ inDegree \in [Passes -> Nat] /\ queue \in Seq(Passes) /\ Distinct(queue)
      /\ todo \subseteq DOMAIN edges /\ \A l \in todo : Ordered(edges[l].source)
      /\ \A x \in Passes : inDegree[x] = Cardinality(Left(x))
      /\ \A x \in Passes : ~(Ordered(x) /\ Queued(x))
      /\ \A x \in Passes : inDegree[x] = 0 <=> Ordered(x) \/ Queued(x)
  BY <1>1 DEF SortInv, Kahn
<1>3. p \in Passes
  <2>1. p \in Unified
    BY <1>1, <1>2, <1>p DEF EdgeInv, Forward, Active
  <2> QED BY <2>1, Lists
<1>4. order # << >>
  BY <1>2 DEF Ordered
<1>5. \A x : Ordered(x)' <=> Ordered(x)
  BY <1>1 DEF Ordered
<1>6. k \in Left(p) /\ Left(p)' = Left(p) \ {k}
  BY <1>1, <1>2, <1>5, <1>p DEF Left, EdgesTo
<1>7. \A x : x # p => Left(x)' = Left(x)
  BY <1>1, <1>2, <1>5, <1>p DEF Left, EdgesTo
<1>8. /\ Cardinality(Left(p)') = inDegree[p] - 1 /\ inDegree[p] - 1 \in Nat
  <2>1. IsFiniteSet(Left(p))
    BY LeftFinite
  <2>2. IsFiniteSet(Left(p) \ {k}) /\ Cardinality(Left(p) \ {k}) = Cardinality(Left(p)) - 1
    BY <1>6, <2>1, FS_RemoveElement
  <2>3. Cardinality(Left(p) \ {k}) \in Nat
    BY <2>2, FS_CardinalityType
  <2> QED BY <1>2, <1>3, <1>6, <2>2, <2>3
<1>9. ~Ordered(p) /\ ~Queued(p)
  BY <1>2, <1>3, <1>8
<1>10. /\ queue' \in Seq(Passes) /\ Distinct(queue)'
       /\ \A x : Queued(x)' <=> Queued(x) \/ (x = p /\ inDegree[p] = 1)
  <2>1. CASE inDegree[p] = 1
    <3>1. queue' = Append(queue, p)
      BY <1>1, <2>1
    <3>2. /\ queue' \in Seq(Passes)
          /\ DOMAIN queue' = 1 .. Len(queue) + 1 /\ queue'[Len(queue) + 1] = p
          /\ \A i \in DOMAIN queue : queue'[i] = queue[i]
      BY <1>2, <1>3, <3>1, Appended
    <3>3. DOMAIN queue = 1 .. Len(queue) /\ Len(queue) \in Nat
      BY <1>2, Elements
    <3>4. \A i \in DOMAIN queue : queue[i] # p
      BY <1>9 DEF Queued
    <3>5. Distinct(queue)'
      BY <1>2, <1>3, <3>1, <3>4, DistinctAppend
    <3> QED BY <2>1, <3>2, <3>3, <3>5 DEF Queued
  <2>2. CASE inDegree[p] # 1
    BY <1>1, <1>2, <2>2 DEF Distinct, Queued
  <2> QED BY <2>1, <2>2
<1>11. inDegree' \in [Passes -> Nat]
       /\ \A x \in Passes : inDegree'[x] = IF x = p THEN inDegree[p] - 1 ELSE inDegree[x]
  BY <1>1, <1>2, <1>3, <1>8
<1>12. \A x \in Passes : inDegree'[x] = Cardinality(Left(x)')
  BY <1>2, <1>7, <1>8, <1>11
<1>13. \A x \in Passes : inDegree'[x] = 0 <=> Ordered(x)' \/ Queued(x)'
  BY <1>2, <1>5, <1>9, <1>10, <1>11
<1>14. \A x \in Passes : ~(Ordered(x)' /\ Queued(x)')
  BY <1>2, <1>5, <1>9, <1>10
<1>15. Kahn'
  BY <1>1, <1>2, <1>4, <1>5, <1>10, <1>11, <1>12, <1>13, <1>14, SamePasses DEF Kahn
<1>16. OrderInv'
  BY <1>1, SamePasses DEF SortInv, OrderInv, Distinct
<1>17. ~Sorted'
  BY <1>1 DEF Sorted, Compiled
<1> QED BY <1>15, <1>16, <1>17, SortQuiet DEF SortInv

(* When the queue is empty every pass is in the order: the least that were *)
(* not would have an edge from a pass that is not either, and edges lead   *)
(* forward.                                                                *)
LEMMA AllOrdered ==
    ASSUME IInv, pc = "sort", todo = {}, queue = << >>
    PROVE  \A p \in Passes : Ordered(p)
<1> USE DEF IInv
<1> DEFINE T == {p \in Passes : ~Ordered(p)}
<1>1. Passes \subseteq Nat /\ Unified \subseteq Passes
  BY Lists
<1>2. ASSUME T # {}
      PROVE  FALSE
  <2>1. PICK p \in T : \A x \in T : p <= x
    <3>1. T \in SUBSET Nat
      BY <1>1
    <3> HIDE DEF T
    <3> QED BY <1>2, <3>1, Least
  <2>2. ~Queued(p)
    BY EmptySeq DEF Queued
  <2>3. Left(p) # {}
    <3>1. inDegree[p] # 0 /\ inDegree[p] = Cardinality(Left(p))
      BY <2>1, <2>2 DEF SortInv, Kahn
    <3> QED BY <3>1, LeftFinite
  <2>4. PICK k \in DOMAIN edges : edges[k].dest = p /\ ~Ordered(edges[k].source)
    BY <2>3 DEF Left, EdgesTo
  <2>5. edges[k].source \in Passes /\ edges[k].source < p
    BY <1>1, <2>4 DEF EdgeInv, Forward, Active
  <2>6. edges[k].source \in T
    BY <2>4, <2>5
  <2>7. p \in Nat /\ edges[k].source \in Nat
    BY <1>1, <2>1, <2>5
  <2>8. p <= edges[k].source
    BY <2>1, <2>6
  <2> QED BY <2>5, <2>7, <2>8
<1> QED BY <1>2

(* An order with every pass once is as long as the lists of passes. *)
LEMMA OrderLength ==
    ASSUME TypeOK, order \in Seq(Passes), Distinct(order), \A p \in Passes : Ordered(p)
    PROVE  Len(order) = Len(renderPasses) + Len(computePasses) + transferPasses
<1> DEFINE n == Len(renderPasses) + Len(computePasses) + transferPasses
           m == Len(order)
<1>1. n \in Nat /\ m \in Nat /\ Passes = 1 .. n /\ DOMAIN order = 1 .. m
  BY Lists, Elements DEF Passes
<1>2. order \in Bijection(1 .. m, Passes)
  <2>1. order \in [1 .. m -> Passes]
    BY LenProperties
  <2>2. \A i, j \in 1 .. m : order[i] = order[j] => i = j
    BY <1>1 DEF Distinct
  <2>3. \A p \in Passes : \E i \in 1 .. m : order[i] = p
    BY <1>1 DEF Ordered
  <2> HIDE DEF m, n
  <2>4. order \in Injection(1 .. m, Passes)
    BY <2>1, <2>2 DEF Injection, IsInjective
  <2>5. order \in Surjection(1 .. m, Passes)
    BY <2>1, <2>3 DEF Surjection
  <2> QED BY <2>4, <2>5 DEF Bijection
<1>3. \A k \in Nat : IsFiniteSet(1 .. k) /\ Cardinality(1 .. k) = k
  <2> SUFFICES ASSUME NEW k \in Nat PROVE IsFiniteSet(1 .. k) /\ Cardinality(1 .. k) = k
    OBVIOUS
  <2>1. IsFiniteSet(1 .. k) /\ Cardinality(1 .. k) = IF 1 > k THEN 0 ELSE k - 1 + 1
    BY FS_Interval
  <2> QED BY <2>1
<1>4. IsFiniteSet(1 .. m) /\ Cardinality(1 .. m) = m /\ Cardinality(1 .. n) = n
  <2> HIDE DEF m, n
  <2> QED BY <1>1, <1>3
<1>5. Cardinality(Passes) = Cardinality(1 .. m)
  <2> HIDE DEF m, n
  <2> QED BY <1>2, <1>4, FS_Bijection DEF ExistsBijection
<1> QED BY <1>1, <1>4, <1>5

LEMMA EndSortStep ==
    ASSUME IInv, EndSort
    PROVE  IInv'
<1> USE DEF IInv
<1>1. TypeOK' /\ Named'
  BY GraphKept, CompileType, NamedKept DEF CompileStep
<1>2. /\ pc = "sort" /\ todo = {} /\ queue = << >> /\ order' = order /\ groups' = groups
      /\ aliases' = aliases /\ barriers' = barriers /\ pending' = pending
      /\ UNCHANGED <<renderPasses, computePasses, transferPasses, edges>>
      /\ pass' = 1 /\ merged' = {}
  BY DEF EndSort, resultVars, graphVars
<1>3. ~valid'
  BY <1>2 DEF EndSort, resultVars, Fresh
<1>4. \A p \in Passes : Ordered(p)
  BY <1>2, AllOrdered
<1>5. OrderInv /\ order \in Seq(Passes) /\ Distinct(order)
  BY <1>2 DEF SortInv, OrderInv
<1>6. pc' = "merge"
  BY <1>4, <1>5, OrderLength DEF EndSort
<1>7. Built /\ Sorted' /\ ~Aliasing' /\ ~Compiled'
  BY <1>2, <1>6 DEF Built, Sorted, Aliasing, Compiled
<1>8. Fresh'
  BY <1>2, <1>3, <1>6 DEF Fresh
<1>9. EdgeInv'
  BY <1>2, <1>6, <1>7, EdgesKept
<1>10. SortInv'
  <2>1. \A p : Ordered(p)' <=> Ordered(p)
    BY <1>2 DEF Ordered
  <2>2. OrderInv'
    BY <1>2, <1>5, SamePasses DEF OrderInv, Distinct
  <2> QED BY <1>2, <1>4, <1>6, <2>1, <2>2, SamePasses DEF SortInv, Kahn
<1>11. MergeInv'
  <2>1. groups' = << >> /\ DOMAIN groups' = {}
    BY <1>2 DEF Fresh
  <2>2. \A p : ~Grouped(p)'
    BY <2>1 DEF Grouped
  <2>3. \A i \in DOMAIN order' : i >= 1 /\ i \in Nat
    BY <1>2, <1>5, Elements
  <2>4. groups' \in Seq([passes : Seq(Nat), attachments : SUBSET Nat])
    BY <2>1, EmptySeq
  <2>5. \A i \in DOMAIN order' : ~(i < pass')
    BY <1>2, <2>3
  <2> QED BY <1>2, <1>6, <1>7, <2>1, <2>2, <2>4, <2>5 DEF MergeInv
<1>12. AliasInv' /\ BarrierInv'
  BY <1>6, <1>7 DEF AliasInv, BarrierInv
<1> QED BY <1>1, <1>8, <1>9, <1>10, <1>11, <1>12

-----------------------------------------------------------------------------
(* MergePasses                                                             *)

Groups == [passes : Seq(Nat), attachments : SUBSET Nat]

(* What the merge loops leave alone. *)
LEMMA MergeQuiet ==
    ASSUME IInv, Lead \/ Candidate \/ EndCandidates
    PROVE  /\ TypeOK' /\ Named' /\ Fresh' /\ EdgeInv' /\ SortInv' /\ AliasInv' /\ BarrierInv'
           /\ pc \in {"merge", "candidates"} /\ pc' \in {"merge", "candidates"}
           /\ UNCHANGED <<renderPasses, computePasses, transferPasses, order>>
           /\ Sorted /\ Sorted' /\ ~Aliasing'
<1> USE DEF IInv
<1>1. TypeOK' /\ Named'
  BY GraphKept, CompileType, NamedKept DEF CompileStep
<1>2. /\ pc \in {"merge", "candidates"} /\ pc' \in {"merge", "candidates"} /\ order' = order
      /\ aliases' = aliases /\ barriers' = barriers /\ pending' = pending
      /\ UNCHANGED <<renderPasses, computePasses, transferPasses, edges>>
  BY DEF Lead, Candidate, EndCandidates, resultVars, graphVars
<1>3. ~valid'
  BY <1>2 DEF Lead, Candidate, EndCandidates, resultVars, Fresh
<1>4. Built /\ Sorted /\ Sorted' /\ ~Aliasing' /\ ~Compiled'
  BY <1>2 DEF Built, Sorted, Aliasing, Compiled
<1>5. Fresh'
  BY <1>2, <1>3 DEF Fresh
<1>6. EdgeInv' /\ SortInv'
  BY <1>2, <1>4, EdgesKept, OrderKept
<1>7. AliasInv' /\ BarrierInv'
  BY <1>2, <1>4 DEF AliasInv, BarrierInv
<1> QED BY <1>1, <1>2, <1>4, <1>5, <1>6, <1>7

(* Each place of a pass in the groups is its only one. *)
GroupedOnce ==
    \A k, l \in DOMAIN groups : \A i \in DOMAIN groups[k].passes, j \in DOMAIN groups[l].passes :
        groups[k].passes[i] = groups[l].passes[j] => k = l /\ i = j

LEMMA MergeFacts ==
    ASSUME IInv, pc \in {"merge", "candidates"}
    PROVE  /\ groups \in Seq(Groups) /\ merged \subseteq Renders /\ pass \in Nat /\ pass >= 1
           /\ \A p \in Nat : Grouped(p) <=> p \in merged
           /\ GroupedOnce
           /\ Len(groups) \in Nat /\ DOMAIN groups = 1 .. Len(groups)
           /\ \A k \in DOMAIN groups : groups[k] \in Groups
           /\ Len(order) \in Nat /\ DOMAIN order = 1 .. Len(order)
           /\ Renders \subseteq Nat
           /\ \A i \in DOMAIN order : i < pass /\ order[i] \in Renders => order[i] \in merged
<1>1. Sorted
  BY DEF Sorted
<1>2. groups \in Seq(Groups) /\ order \in Seq(Nat)
  BY DEF IInv, MergeInv, Groups, TypeOK
<1>3. Len(groups) \in Nat /\ DOMAIN groups = 1 .. Len(groups)
      /\ \A k \in DOMAIN groups : groups[k] \in Groups
      /\ Len(order) \in Nat /\ DOMAIN order = 1 .. Len(order)
  BY <1>2, Elements
<1>4. Renders \subseteq Nat
  BY Lists DEF IInv
<1> QED BY <1>1, <1>2, <1>3, <1>4 DEF IInv, MergeInv, GroupedOnce, TypeOK

(* A pass joins a group: it is in that one, at its end. *)
LEMMA Joined ==
    ASSUME NEW q \in Nat, NEW n \in Nat, NEW m \in Nat,
           ~Grouped(q), GroupedOnce,
           n \in DOMAIN groups', DOMAIN groups \subseteq DOMAIN groups',
           \A k \in DOMAIN groups' : k = n \/ (k \in DOMAIN groups /\ groups'[k] = groups[k]),
           DOMAIN groups'[n].passes = 1 .. m + 1, groups'[n].passes[m + 1] = q,
           m # 0 => n \in DOMAIN groups,
           n \in DOMAIN groups => /\ DOMAIN groups[n].passes = 1 .. m
                                  /\ \A i \in 1 .. m : groups'[n].passes[i] = groups[n].passes[i]
    PROVE  /\ \A p : Grouped(p)' <=> Grouped(p) \/ p = q
           /\ GroupedOnce'
<1>1. ASSUME NEW k \in DOMAIN groups', NEW i \in DOMAIN groups'[k].passes
      PROVE  \/ k = n /\ i = m + 1 /\ groups'[k].passes[i] = q
             \/ /\ k \in DOMAIN groups /\ i \in DOMAIN groups[k].passes
                /\ groups'[k].passes[i] = groups[k].passes[i] /\ groups[k].passes[i] # q
  <2>1. CASE k = n /\ i = m + 1
    BY <2>1
  <2>2. CASE k = n /\ i # m + 1
    <3>1. i \in 1 .. m /\ m # 0
      BY <1>1, <2>2
    <3> QED BY <2>2, <3>1 DEF Grouped
  <2>3. CASE k # n
    BY <1>1, <2>3 DEF Grouped
  <2> QED BY <2>1, <2>2, <2>3
<1>2. ASSUME NEW k \in DOMAIN groups, NEW i \in DOMAIN groups[k].passes
      PROVE  i \in DOMAIN groups'[k].passes /\ groups'[k].passes[i] = groups[k].passes[i]
  BY <1>2
<1>3. ASSUME NEW p
      PROVE  Grouped(p)' <=> Grouped(p) \/ p = q
  <2>1. Grouped(p)' => Grouped(p) \/ p = q
    BY <1>1 DEF Grouped
  <2>2. Grouped(p) => Grouped(p)'
    BY <1>2 DEF Grouped
  <2>3. Grouped(q)'
    <3>1. m + 1 \in DOMAIN groups'[n].passes
      OBVIOUS
    <3> QED BY <3>1 DEF Grouped
  <2> QED BY <2>1, <2>2, <2>3
<1>4. GroupedOnce'
  <2>1. ASSUME NEW k \in DOMAIN groups', NEW l \in DOMAIN groups',
               NEW i \in DOMAIN groups'[k].passes, NEW j \in DOMAIN groups'[l].passes,
               groups'[k].passes[i] = groups'[l].passes[j]
        PROVE  k = l /\ i = j
    <3>1. \/ k = n /\ i = m + 1 /\ groups'[k].passes[i] = q
          \/ /\ k \in DOMAIN groups /\ i \in DOMAIN groups[k].passes
             /\ groups'[k].passes[i] = groups[k].passes[i] /\ groups[k].passes[i] # q
      BY <1>1
    <3>2. \/ l = n /\ j = m + 1 /\ groups'[l].passes[j] = q
          \/ /\ l \in DOMAIN groups /\ j \in DOMAIN groups[l].passes
             /\ groups'[l].passes[j] = groups[l].passes[j] /\ groups[l].passes[j] # q
      BY <1>1
    <3> QED BY <2>1, <3>1, <3>2 DEF GroupedOnce
  <2> QED BY <2>1 DEF GroupedOnce
<1> QED BY <1>3, <1>4

(* The group of one pass. *)
LEMMA NewGroupType ==
    ASSUME TypeOK, NEW p \in Renders
    PROVE  /\ NewGroup(p) \in Groups /\ p \in Nat
           /\ DOMAIN NewGroup(p).passes = 1 .. 1 /\ NewGroup(p).passes[1] = p
           /\ HandlesOf(Desc(p).outputs) \in SUBSET Nat
<1>1. p \in Unified /\ p \in Nat
  BY Lists
<1>2. HandlesOf(Desc(p).outputs) \in SUBSET Nat
  BY <1>1, Described, Handles
<1>3. <<p>> \in Seq(Nat) /\ DOMAIN <<p>> = 1 .. 1 /\ <<p>>[1] = p
  BY <1>1
<1> QED BY <1>1, <1>2, <1>3 DEF NewGroup, Groups

LEMMA LeadStep ==
    ASSUME IInv, Lead
    PROVE  IInv'
<1> USE DEF IInv
<1>1. pc = "merge" /\ pass <= Len(order) /\ order' = order
  BY DEF Lead
<1>2. /\ groups \in Seq(Groups) /\ merged \subseteq Renders /\ pass \in Nat /\ pass >= 1
      /\ \A p \in Nat : Grouped(p) <=> p \in merged
      /\ GroupedOnce
      /\ Len(groups) \in Nat /\ DOMAIN groups = 1 .. Len(groups)
      /\ Len(order) \in Nat /\ DOMAIN order = 1 .. Len(order)
      /\ Renders \subseteq Nat
      /\ \A i \in DOMAIN order : i < pass /\ order[i] \in Renders => order[i] \in merged
  BY <1>1, MergeFacts
<1>3. pass \in DOMAIN order
  BY <1>1, <1>2
<1>4. Renders' = Renders
  BY MergeQuiet, SamePasses
<1>5. CASE Unmerged(pass)
  <2>1. PICK q \in Renders : q = order[pass] /\ q \notin merged
    BY <1>5 DEF Unmerged
  <2>2. /\ groups' = Append(groups, NewGroup(q)) /\ merged' = merged \cup {q}
        /\ input' = pass + 1 /\ pc' = "candidates" /\ pass' = pass
    BY <1>5, <2>1 DEF Lead
  <2>3. /\ NewGroup(q) \in Groups /\ q \in Nat
        /\ DOMAIN NewGroup(q).passes = 1 .. 1 /\ NewGroup(q).passes[1] = q
    BY <2>1, NewGroupType
  <2>4. PICK n \in Nat : n = Len(groups) + 1
    BY <1>2
  <2>5. /\ groups' \in Seq(Groups) /\ groups' # << >>
        /\ DOMAIN groups' = 1 .. n /\ groups'[n] = NewGroup(q)
        /\ \A k \in DOMAIN groups : groups'[k] = groups[k]
    BY <1>2, <2>2, <2>3, <2>4, Appended
  <2>6. /\ n \in DOMAIN groups' /\ DOMAIN groups \subseteq DOMAIN groups' /\ n \notin DOMAIN groups
        /\ \A k \in DOMAIN groups' : k = n \/ (k \in DOMAIN groups /\ groups'[k] = groups[k])
    BY <1>2, <2>4, <2>5
  <2>7. ~Grouped(q)
    BY <1>2, <2>1
  <2>8. DOMAIN groups'[n].passes = 1 .. 0 + 1 /\ groups'[n].passes[0 + 1] = q
    BY <2>3, <2>5
  <2>9. (\A p : Grouped(p)' <=> Grouped(p) \/ p = q) /\ GroupedOnce'
    BY <1>2, <2>3, <2>6, <2>7, <2>8, Joined
  <2>10. \A p \in Nat : Grouped(p)' <=> p \in merged'
    BY <1>2, <2>2, <2>9
  <2>11. MergeInv'
    <3>1. merged' \subseteq Renders
      BY <1>2, <2>1, <2>2
    <3>2. \A i \in DOMAIN order : i < pass' /\ order[i] \in Renders => order[i] \in merged'
      BY <1>2, <2>2
    <3>3. pass' \in DOMAIN order' /\ order'[pass'] \in merged' /\ input' >= 1 /\ pass' >= 1
      BY <1>1, <1>2, <1>3, <2>1, <2>2
    <3> QED BY <1>1, <1>4, <2>2, <2>5, <2>9, <2>10, <3>1, <3>2, <3>3, MergeQuiet
            DEF MergeInv, Groups, GroupedOnce
  <2> QED BY <2>11, MergeQuiet
<1>6. CASE ~Unmerged(pass)
  <2>1. /\ pc' = "merge" /\ pass' = pass + 1 /\ groups' = groups /\ merged' = merged
    BY <1>1, <1>6 DEF Lead
  <2>2. ASSUME NEW i \in DOMAIN order, i < pass + 1, order[i] \in Renders
        PROVE  order[i] \in merged
    <3>1. i < pass \/ i = pass
      BY <1>2, <2>2
    <3> QED BY <1>2, <1>6, <2>2, <3>1 DEF Unmerged
  <2>3. \A p : Grouped(p)' <=> Grouped(p)
    BY <2>1 DEF Grouped
  <2>4. GroupedOnce'
    BY <1>2, <2>1 DEF GroupedOnce
  <2>5. MergeInv'
    BY <1>1, <1>2, <1>4, <2>1, <2>2, <2>3, <2>4, MergeQuiet DEF MergeInv, Groups, GroupedOnce
  <2> QED BY <2>5, MergeQuiet
<1> QED BY <1>5, <1>6

LEMMA CandidateStep ==
    ASSUME IInv, Candidate
    PROVE  IInv'
<1> USE DEF IInv
<1>1. pc = "candidates" /\ pc' = "candidates" /\ pass' = pass /\ order' = order
      /\ input' = input + 1 /\ input <= Len(order) /\ input \in Nat /\ input >= 1
      /\ groups # << >> /\ pass \in DOMAIN order /\ order[pass] \in merged
  BY DEF Candidate, TypeOK, MergeInv
<1>2. /\ groups \in Seq(Groups) /\ merged \subseteq Renders /\ pass \in Nat /\ pass >= 1
      /\ \A p \in Nat : Grouped(p) <=> p \in merged
      /\ GroupedOnce
      /\ Len(groups) \in Nat /\ DOMAIN groups = 1 .. Len(groups)
      /\ \A k \in DOMAIN groups : groups[k] \in Groups
      /\ Len(order) \in Nat /\ DOMAIN order = 1 .. Len(order)
      /\ Renders \subseteq Nat
      /\ \A i \in DOMAIN order : i < pass /\ order[i] \in Renders => order[i] \in merged
  BY <1>1, MergeFacts
<1>3. Renders' = Renders
  BY MergeQuiet, SamePasses
<1>4. CASE Unmerged(input) /\ Joins(order[input])
  <2>1. PICK q \in Renders : q = order[input] /\ q \notin merged
    BY <1>4 DEF Unmerged
  <2>2. PICK n \in DOMAIN groups : n = Len(groups) /\ n \in Nat
    <3>1. Len(groups) # 0
      BY <1>1, <1>2, Elements
    <3> QED BY <1>2, <3>1
  <2>3. PICK new : new = [passes |-> Append(groups[n].passes, q),
                          attachments |-> groups[n].attachments \cup HandlesOf(Desc(q).outputs)]
    OBVIOUS
  <2>4. groups' = [groups EXCEPT ![n] = new] /\ merged' = merged \cup {q}
    BY <1>4, <2>1, <2>2, <2>3 DEF Candidate
  <2>5. groups[n] \in Groups /\ groups[n].passes \in Seq(Nat) /\ q \in Nat
    BY <1>2, <2>1 DEF Groups
  <2>6. PICK m \in Nat : m = Len(groups[n].passes)
    BY <2>5, Elements
  <2>7. /\ new.passes \in Seq(Nat) /\ DOMAIN new.passes = 1 .. m + 1 /\ new.passes[m + 1] = q
        /\ DOMAIN groups[n].passes = 1 .. m
        /\ \A i \in 1 .. m : new.passes[i] = groups[n].passes[i]
    BY <2>3, <2>5, <2>6, Appended, Elements
  <2>8. new \in Groups
    <3>1. groups[n].attachments \in SUBSET Nat
      BY <2>5 DEF Groups
    <3>2. HandlesOf(Desc(q).outputs) \in SUBSET Nat
      BY <2>1, NewGroupType
    <3>3. Append(groups[n].passes, q) \in Seq(Nat)
      BY <2>5, Appended
    <3> QED BY <2>3, <3>1, <3>2, <3>3 DEF Groups
  <2>9. /\ groups' \in Seq(Groups) /\ DOMAIN groups' = DOMAIN groups /\ Len(groups') = Len(groups)
        /\ \A k \in DOMAIN groups : groups'[k] = IF k = n THEN new ELSE groups[k]
    BY <1>2, <2>4, <2>8, Excepted
  <2>10. groups' # << >>
    BY <1>1, <1>2, <2>9, Elements
  <2>11. ~Grouped(q)
    BY <1>2, <2>1
  <2>12. (\A p : Grouped(p)' <=> Grouped(p) \/ p = q) /\ GroupedOnce'
    <3>1. /\ n \in DOMAIN groups' /\ DOMAIN groups \subseteq DOMAIN groups'
          /\ \A k \in DOMAIN groups' : k = n \/ (k \in DOMAIN groups /\ groups'[k] = groups[k])
          /\ groups'[n] = new
      BY <2>2, <2>9
    <3>2. DOMAIN groups'[n].passes = 1 .. m + 1 /\ groups'[n].passes[m + 1] = q
      BY <2>7, <3>1
    <3>3. n \in DOMAIN groups => /\ DOMAIN groups[n].passes = 1 .. m
                                 /\ \A i \in 1 .. m : groups'[n].passes[i] = groups[n].passes[i]
      BY <2>7, <3>1
    <3>4. GroupedOnce /\ q \in Nat /\ n \in Nat /\ n \in DOMAIN groups
      BY <1>2, <2>2, <2>5
    <3> HIDE DEF IInv
    <3> QED BY <2>6, <2>11, <3>1, <3>2, <3>3, <3>4, Joined
  <2>13. \A p \in Nat : Grouped(p)' <=> p \in merged'
    BY <1>2, <2>4, <2>12
  <2>14. merged' \subseteq Renders
    BY <1>2, <2>1, <2>4
  <2>15. \A i \in DOMAIN order : i < pass' /\ order[i] \in Renders => order[i] \in merged'
    BY <1>1, <1>2, <2>4
  <2>16. pass' \in DOMAIN order' /\ order'[pass'] \in merged' /\ input' >= 1 /\ pass' >= 1
    BY <1>1, <1>2, <2>4
  <2>17. MergeInv'
    BY <1>1, <1>3, <2>9, <2>10, <2>12, <2>13, <2>14, <2>15, <2>16, MergeQuiet
       DEF MergeInv, Groups, GroupedOnce
  <2> QED BY <2>17, MergeQuiet
<1>5. CASE ~(Unmerged(input) /\ Joins(order[input]))
  <2>1. groups' = groups /\ merged' = merged
    BY <1>5 DEF Candidate
  <2>2. (\A p : Grouped(p)' <=> Grouped(p)) /\ GroupedOnce'
    BY <1>2, <2>1 DEF Grouped, GroupedOnce
  <2>3. MergeInv'
    BY <1>1, <1>2, <1>3, <2>1, <2>2, MergeQuiet DEF MergeInv, Groups, GroupedOnce
  <2> QED BY <2>3, MergeQuiet
<1> QED BY <1>4, <1>5

LEMMA EndCandidatesStep ==
    ASSUME IInv, EndCandidates
    PROVE  IInv'
<1> USE DEF IInv
<1>1. pc = "candidates" /\ pc' = "merge" /\ pass' = pass + 1 /\ order' = order
      /\ groups' = groups /\ merged' = merged
      /\ pass \in DOMAIN order /\ order[pass] \in merged
  BY DEF EndCandidates, resultVars, MergeInv
<1>2. /\ groups \in Seq(Groups) /\ merged \subseteq Renders /\ pass \in Nat /\ pass >= 1
      /\ \A p \in Nat : Grouped(p) <=> p \in merged
      /\ GroupedOnce
      /\ Len(order) \in Nat /\ DOMAIN order = 1 .. Len(order)
      /\ \A i \in DOMAIN order : i < pass /\ order[i] \in Renders => order[i] \in merged
  BY <1>1, MergeFacts
<1>3. Renders' = Renders
  BY MergeQuiet, SamePasses
<1>4. ASSUME NEW i \in DOMAIN order, i < pass + 1, order[i] \in Renders
      PROVE  order[i] \in merged
  <2>1. i < pass \/ i = pass
    BY <1>2, <1>4
  <2> QED BY <1>1, <1>2, <1>4, <2>1
<1>5. (\A p : Grouped(p)' <=> Grouped(p)) /\ GroupedOnce'
  BY <1>1, <1>2 DEF Grouped, GroupedOnce
<1>6. MergeInv'
  BY <1>1, <1>2, <1>3, <1>4, <1>5, MergeQuiet DEF MergeInv, Groups, GroupedOnce
<1> QED BY <1>6, MergeQuiet


-----------------------------------------------------------------------------
(* ComputeAliasing                                                         *)

(* What the loops after the merge leave alone. *)
LEMMA LateQuiet ==
    ASSUME IInv, StartAliasing \/ (\E h \in pending : Place(h)) \/ StartBarriers \/ PlaceBarrier
                 \/ EndCompile
    PROVE  /\ TypeOK' /\ Named' /\ EdgeInv' /\ SortInv'
           /\ pc \in {"merge", "alias", "barriers"} /\ pc' \in {"alias", "barriers", "idle"}
           /\ UNCHANGED <<renderPasses, computePasses, transferPasses, transient, order, groups,
                          merged, edges>>
           /\ Sorted
<1> USE DEF IInv
<1>1. TypeOK' /\ Named'
  BY GraphKept, CompileType, NamedKept DEF CompileStep
<1>2. /\ pc \in {"merge", "alias", "barriers"} /\ pc' \in {"alias", "barriers", "idle"}
      /\ UNCHANGED <<renderPasses, computePasses, transferPasses, transient, order, groups,
                     merged, edges>>
  BY DEF StartAliasing, Place, StartBarriers, PlaceBarrier, EndCompile, resultVars, graphVars,
         loopVars
<1>3. Built /\ Sorted
  BY <1>2 DEF Built, Sorted
<1>4. EdgeInv' /\ SortInv'
  BY <1>2, <1>3, EdgesKept, OrderKept
<1> QED BY <1>1, <1>2, <1>3, <1>4

LEMMA StartAliasingStep ==
    ASSUME IInv, StartAliasing
    PROVE  IInv'
<1> USE DEF IInv
<1>1. /\ pc = "merge" /\ pc' = "alias" /\ pass > Len(order)
      /\ UNCHANGED <<renderPasses, computePasses, transferPasses, transient, aliasGroup, order,
                     groups, aliases, barriers, merged>>
      /\ pending' = {h \in DOMAIN transient : Uses(h) # {}}
  BY DEF StartAliasing, resultVars, graphVars
<1>2. ~valid'
  BY <1>1 DEF StartAliasing, resultVars, Fresh
<1>3. aliases' = << >> /\ barriers' = << >>
  BY <1>1 DEF Fresh
<1>4. Fresh'
  BY <1>1, <1>2, <1>3 DEF Fresh
<1>5. MergeInv'
  <2>1. /\ pass \in Nat /\ Len(order) \in Nat /\ DOMAIN order = 1 .. Len(order)
        /\ \A i \in DOMAIN order : i < pass /\ order[i] \in Renders => order[i] \in merged
    BY <1>1, MergeFacts
  <2>2. ASSUME NEW p \in Renders
        PROVE  p \in merged
    <3>1. p \in Passes /\ Sorted
      BY <1>1, Lists DEF Sorted
    <3>2. PICK i \in DOMAIN order : order[i] = p
      BY <3>1 DEF SortInv, Ordered
    <3>3. i < pass
      BY <1>1, <2>1
    <3> QED BY <2>1, <3>2, <3>3
  <2>3. \A p : Grouped(p)' <=> Grouped(p)
    BY <1>1 DEF Grouped
  <2>4. Sorted
    BY <1>1 DEF Sorted
  <2> QED BY <1>1, <2>2, <2>3, <2>4, SamePasses DEF MergeInv
<1>6. AliasInv'
  <2>1. \A h : Uses(h)' = Uses(h)
    BY <1>1, SamePasses DEF Uses
  <2>2. DOMAIN aliases' = {}
    BY <1>3
  <2> QED BY <1>1, <2>1, <2>2 DEF AliasInv
<1>7. BarrierInv'
  BY <1>1 DEF BarrierInv, Compiled
<1> QED BY <1>4, <1>5, <1>6, <1>7, LateQuiet

(* Two resources can share memory or cannot, whichever is asked about. *)
LEMMA CanAliasSymmetric ==
    ASSUME NEW g, NEW h, CanAliasWith(g, h)
    PROVE  CanAliasWith(h, g)
BY Zenon DEF CanAliasWith

(* The resource placed joins group k, which holds it from then on. *)
LEMMA PlacedIn ==
    ASSUME IInv, pc = "alias", NEW h \in pending, NEW k \in Nat,
           UNCHANGED <<renderPasses, computePasses, transferPasses, transient, order>>,
           pending' = pending \ {h},
           aliasGroup' = [aliasGroup EXCEPT ![h] = k],
           k \in DOMAIN aliases', DOMAIN aliases \subseteq DOMAIN aliases',
           \A l \in DOMAIN aliases' : l = k \/ (l \in DOMAIN aliases /\ aliases'[l] = aliases[l]),
           \A g : g \in aliases'[k] <=> g = h \/ (k \in DOMAIN aliases /\ g \in aliases[k]),
           k \in DOMAIN aliases => Fits(h, k)
    PROVE  AliasInv'
<1> USE DEF IInv
<1>1. /\ Aliasing /\ h \in DOMAIN transient /\ aliasGroup \in [DOMAIN transient -> Nat]
      /\ pending \subseteq DOMAIN transient
  BY DEF Aliasing, TypeOK
<1>2. aliasGroup'[h] = k /\ \A g \in DOMAIN transient : g # h => aliasGroup'[g] = aliasGroup[g]
  BY <1>1
<1>3. \A g : Uses(g)' = Uses(g)
  BY SamePasses DEF Uses
<1>4. \A f, g : CanAliasWith(f, g)' <=> CanAliasWith(f, g)
  BY <1>3 DEF CanAliasWith
<1>5. ASSUME NEW g \in DOMAIN transient, Uses(g) # {}, g \notin pending'
      PROVE  /\ aliasGroup'[g] \in DOMAIN aliases'
             /\ \A l \in DOMAIN aliases' : g \in aliases'[l] <=> aliasGroup'[g] = l
  <2>1. CASE g = h
    <3>1. \A l \in DOMAIN aliases : h \notin aliases[l]
      BY <1>1 DEF AliasInv
    <3>2. \A l \in DOMAIN aliases' : h \in aliases'[l] <=> k = l
      BY <3>1
    <3> QED BY <1>2, <2>1, <3>2
  <2>2. CASE g # h
    <3>1. g \notin pending
      BY <1>5, <2>2
    <3>2. /\ aliasGroup[g] \in DOMAIN aliases
          /\ \A l \in DOMAIN aliases : g \in aliases[l] <=> aliasGroup[g] = l
      BY <1>1, <1>5, <3>1 DEF AliasInv
    <3>3. aliasGroup'[g] = aliasGroup[g]
      BY <1>2, <2>2
    <3>4. ASSUME NEW l \in DOMAIN aliases'
          PROVE  g \in aliases'[l] <=> aliasGroup[g] = l
      <4>1. CASE l # k
        BY <3>2, <4>1
      <4>2. CASE l = k
        BY <2>2, <3>2, <4>2
      <4> QED BY <4>1, <4>2
    <3> QED BY <3>2, <3>3, <3>4
  <2> QED BY <2>1, <2>2
<1>6. ASSUME NEW g \in pending', NEW l \in DOMAIN aliases'
      PROVE  g \notin aliases'[l]
  <2>1. g \in pending /\ g # h /\ \A j \in DOMAIN aliases : g \notin aliases[j]
    BY <1>1, <1>6 DEF AliasInv
  <2> QED BY <2>1
<1>8. /\ \A g \in pending' : Uses(g) # {}
      /\ \A l \in DOMAIN aliases' : \A g \in aliases'[l] : Uses(g) # {}
  <2>1. /\ \A g \in pending : Uses(g) # {}
        /\ \A l \in DOMAIN aliases : \A g \in aliases[l] : Uses(g) # {}
    BY <1>1 DEF AliasInv
  <2>2. ASSUME NEW l \in DOMAIN aliases', NEW g \in aliases'[l]
        PROVE  Uses(g) # {}
    <3>1. CASE l # k
      BY <2>1, <2>2, <3>1
    <3>2. CASE l = k /\ g = h
      BY <2>1, <3>2
    <3>3. CASE l = k /\ g # h
      BY <2>1, <2>2, <3>3
    <3> QED BY <3>1, <3>2, <3>3
  <2> QED BY <2>1, <2>2
<1>7. ASSUME NEW l \in DOMAIN aliases', NEW f \in aliases'[l], NEW g \in aliases'[l], f # g
      PROVE  CanAliasWith(f, g)
  <2>1. \A j \in DOMAIN aliases : \A x, y \in aliases[j] : x # y => CanAliasWith(x, y)
    BY <1>1 DEF AliasInv
  <2>2. CASE l # k
    BY <1>7, <2>1, <2>2
  <2>3. CASE l = k /\ f = h
    <3>1. k \in DOMAIN aliases /\ g \in aliases[k]
      BY <1>7, <2>3
    <3> QED BY <2>3, <3>1 DEF Fits
  <2>4. CASE l = k /\ g = h
    <3>1. k \in DOMAIN aliases /\ f \in aliases[k]
      BY <1>7, <2>4
    <3>2. CanAliasWith(h, f)
      BY <3>1 DEF Fits
    <3> QED BY <2>4, <3>2, CanAliasSymmetric
  <2>5. CASE l = k /\ f # h /\ g # h
    BY <1>7, <2>1, <2>5
  <2> QED BY <2>2, <2>3, <2>4, <2>5
<1> QED BY <1>3, <1>4, <1>5, <1>6, <1>7, <1>8 DEF AliasInv

LEMMA PlaceStep ==
    ASSUME IInv, NEW h \in pending, Place(h)
    PROVE  IInv'
<1> USE DEF IInv
<1>1. /\ pc = "alias" /\ pc' = "alias" /\ pending' = pending \ {h}
      /\ UNCHANGED <<renderPasses, computePasses, transferPasses, transient, order, groups,
                     barriers, merged>>
  BY DEF Place, graphVars
<1>2. ~valid'
  BY <1>1 DEF Place, Fresh
<1>3. Fresh'
  BY <1>1, <1>2 DEF Fresh
<1>4. Aliasing
  BY <1>1 DEF Aliasing
<1>5. MergeInv'
  BY <1>1, <1>4, GroupsKept
<1>6. /\ aliases \in Seq(SUBSET DOMAIN transient) /\ Len(aliases) \in Nat
      /\ DOMAIN aliases = 1 .. Len(aliases) /\ h \in DOMAIN transient
      /\ \A l \in DOMAIN aliases : aliases[l] \in SUBSET DOMAIN transient
  <2>1. aliases \in Seq(SUBSET DOMAIN transient) /\ h \in DOMAIN transient
    BY DEF TypeOK
  <2> QED BY <2>1, Elements
<1>7. AliasInv'
  <2>1. ASSUME NEW k \in DOMAIN aliases, Fits(h, k),
               aliases' = [aliases EXCEPT ![k] = @ \cup {h}],
               aliasGroup' = [aliasGroup EXCEPT ![h] = k]
        PROVE  AliasInv'
    <3>1. aliases[k] \cup {h} \in SUBSET DOMAIN transient /\ k \in Nat
      BY <1>6
    <3>2. /\ DOMAIN aliases' = DOMAIN aliases
          /\ \A l \in DOMAIN aliases : aliases'[l] = IF l = k THEN aliases[k] \cup {h} ELSE aliases[l]
      BY <1>6, <2>1, <3>1, Excepted
    <3>3. /\ k \in DOMAIN aliases' /\ DOMAIN aliases \subseteq DOMAIN aliases'
          /\ \A l \in DOMAIN aliases' : l = k \/ (l \in DOMAIN aliases /\ aliases'[l] = aliases[l])
          /\ \A g : g \in aliases'[k] <=> g = h \/ (k \in DOMAIN aliases /\ g \in aliases[k])
      BY <3>2
    <3> QED BY <1>1, <2>1, <3>1, <3>3, PlacedIn
  <2>2. ASSUME \A k \in DOMAIN aliases : ~Fits(h, k),
               aliases' = Append(aliases, {h}),
               aliasGroup' = [aliasGroup EXCEPT ![h] = Len(aliases) + 1]
        PROVE  AliasInv'
    <3>1. PICK k \in Nat : k = Len(aliases) + 1
      BY <1>6
    <3>2. {h} \in SUBSET DOMAIN transient
      BY <1>6
    <3>3. /\ DOMAIN aliases' = 1 .. k /\ aliases'[k] = {h}
          /\ \A l \in DOMAIN aliases : aliases'[l] = aliases[l]
      BY <1>6, <2>2, <3>1, <3>2, Appended
    <3>4. k \notin DOMAIN aliases
      BY <1>6, <3>1
    <3>5. /\ k \in DOMAIN aliases' /\ DOMAIN aliases \subseteq DOMAIN aliases'
          /\ \A l \in DOMAIN aliases' : l = k \/ (l \in DOMAIN aliases /\ aliases'[l] = aliases[l])
          /\ \A g : g \in aliases'[k] <=> g = h \/ (k \in DOMAIN aliases /\ g \in aliases[k])
      BY <1>6, <3>1, <3>3, <3>4
    <3>6. aliasGroup' = [aliasGroup EXCEPT ![h] = k]
      BY <2>2, <3>1
    <3> QED BY <1>1, <3>4, <3>5, <3>6, PlacedIn
  <2> QED BY <2>1, <2>2 DEF Place
<1>8. BarrierInv'
  BY <1>1 DEF BarrierInv, Compiled
<1> QED BY <1>3, <1>5, <1>7, <1>8, LateQuiet

-----------------------------------------------------------------------------
(* ComputeBarriers                                                         *)

LEMMA StartBarriersStep ==
    ASSUME IInv, StartBarriers
    PROVE  IInv'
<1> USE DEF IInv
<1>1. /\ pc = "alias" /\ pc' = "barriers" /\ pass' = 1 /\ pending = {} /\ pending' = {}
      /\ UNCHANGED <<renderPasses, computePasses, transferPasses, transient, aliasGroup, order,
                     groups, aliases, barriers, merged, edges>>
  BY DEF StartBarriers, resultVars, graphVars
<1>2. ~valid'
  BY <1>1 DEF StartBarriers, resultVars, Fresh
<1>3. Fresh'
  BY <1>1, <1>2 DEF Fresh
<1>4. Aliasing
  BY <1>1 DEF Aliasing
<1>5. MergeInv' /\ AliasInv'
  BY <1>1, <1>4, GroupsKept, AliasesKept
<1>6. BarrierInv'
  <2>1. edges \in Seq(Edges)
    BY DEF TypeOK
  <2>2. \A k \in DOMAIN edges : k \in Nat /\ k >= 1
    BY <2>1, Elements
  <2>3. \A k \in DOMAIN edges' : ~(k < pass')
    BY <1>1, <2>2
  <2> QED BY <1>1, <2>3 DEF BarrierInv, Compiled
<1> QED BY <1>3, <1>5, <1>6, LateQuiet

LEMMA PlaceBarrierStep ==
    ASSUME IInv, PlaceBarrier
    PROVE  IInv'
<1> USE DEF IInv
<1>1. /\ pc = "barriers" /\ pc' = "barriers" /\ pass' = pass + 1 /\ pending' = pending
      /\ pass \in Nat /\ pass >= 1 /\ pass <= Len(edges)
      /\ UNCHANGED <<renderPasses, computePasses, transferPasses, transient, aliasGroup, order,
                     groups, aliases, merged, edges>>
      /\ barriers' = IF NeedsBarrier(edges[pass]) THEN Append(barriers, edges[pass]) ELSE barriers
  BY DEF PlaceBarrier, graphVars, TypeOK, BarrierInv
<1>2. ~valid'
  BY <1>1 DEF PlaceBarrier, Fresh
<1>3. Fresh'
  BY <1>1, <1>2 DEF Fresh
<1>4. Aliasing
  BY <1>1 DEF Aliasing
<1>5. MergeInv' /\ AliasInv'
  BY <1>1, <1>4, GroupsKept, AliasesKept
<1>6. BarrierInv'
  <2>1. edges \in Seq(Edges) /\ barriers \in Seq(Edges)
    BY DEF TypeOK
  <2>2. /\ DOMAIN edges = 1 .. Len(edges) /\ Len(edges) \in Nat
        /\ \A k \in DOMAIN edges : edges[k] \in Edges
        /\ DOMAIN barriers = 1 .. Len(barriers) /\ Len(barriers) \in Nat
    BY <2>1, Elements
  <2>3. edges[pass] \in Edges /\ pass \in DOMAIN edges
    BY <1>1, <2>2
  <2>4. ASSUME NEW e, Barred(e)
        PROVE  Barred(e)'
    <3>1. PICK l \in DOMAIN barriers : barriers[l] = e
      BY <2>4 DEF Barred
    <3>2. l \in DOMAIN barriers' /\ barriers'[l] = barriers[l]
      BY <1>1, <2>1, <2>2, <2>3, Appended
    <3> QED BY <3>1, <3>2 DEF Barred
  <2>5. ASSUME NEW e, e = edges[pass], NeedsBarrier(edges[pass])
        PROVE  Barred(e)'
    <3>1. PICK l \in Nat : l = Len(barriers) + 1
      BY <2>2
    <3>2. l \in DOMAIN barriers' /\ barriers'[l] = e
      BY <1>1, <2>1, <2>2, <2>3, <2>5, <3>1, Appended
    <3> QED BY <3>2 DEF Barred
  <2>6. ASSUME NEW k \in DOMAIN edges, k < pass + 1, NeedsBarrier(edges[k])
        PROVE  Barred(edges[k])'
    <3>1. PICK e : e = edges[k]
      OBVIOUS
    <3>2. Barred(e)'
      <4>1. CASE k < pass
        BY <1>1, <2>4, <2>6, <3>1, <4>1 DEF BarrierInv
      <4>2. CASE k = pass
        BY <2>5, <2>6, <3>1, <4>2
      <4> QED BY <1>1, <2>2, <2>6, <4>1, <4>2
    <3> QED BY <1>1, <3>1, <3>2 DEF Barred
  <2>7. \A e : NeedsBarrier(e)' <=> NeedsBarrier(e)
    BY DEF NeedsBarrier
  <2> QED BY <1>1, <2>6, <2>7 DEF BarrierInv, Compiled
<1> QED BY <1>3, <1>5, <1>6, LateQuiet

LEMMA EndCompileStep ==
    ASSUME IInv, EndCompile
    PROVE  IInv'
<1> USE DEF IInv
<1>1. /\ pc = "barriers" /\ pc' = "idle" /\ pending' = pending /\ pass > Len(edges)
      /\ UNCHANGED <<renderPasses, computePasses, transferPasses, transient, aliasGroup, order,
                     groups, aliases, barriers, merged, edges>>
  BY DEF EndCompile, graphVars, loopVars
<1>2. Fresh'
  BY <1>1 DEF Fresh
<1>3. Aliasing
  BY <1>1 DEF Aliasing
<1>4. MergeInv' /\ AliasInv'
  BY <1>1, <1>3, GroupsKept, AliasesKept
<1>5. BarrierInv'
  <2>1. edges \in Seq(Edges) /\ pass \in Nat
    BY DEF TypeOK
  <2>2. \A k \in DOMAIN edges : k < pass
    <3>1. Len(edges) \in Nat /\ DOMAIN edges = 1 .. Len(edges)
      BY <2>1, Elements
    <3> QED BY <1>1, <2>1, <3>1
  <2>3. \A k \in DOMAIN edges : NeedsBarrier(edges[k]) => Barred(edges[k])
    BY <1>1, <2>2 DEF BarrierInv
  <2>4. \A e : (NeedsBarrier(e)' <=> NeedsBarrier(e)) /\ (Barred(e)' <=> Barred(e))
    BY <1>1 DEF NeedsBarrier, Barred
  <2> QED BY <1>1, <2>3, <2>4 DEF BarrierInv
<1> QED BY <1>2, <1>4, <1>5, LateQuiet

-----------------------------------------------------------------------------
(* The invariant                                                           *)

LEMMA InitHolds == Init => IInv
<1> SUFFICES ASSUME Init PROVE IInv
  OBVIOUS
<1>1. TypeOK
  BY TypeInit
<1>2. /\ pc = "idle" /\ ~valid /\ order = << >> /\ groups = << >> /\ aliases = << >>
      /\ barriers = << >> /\ pending = {} /\ renderPasses = << >> /\ computePasses = << >>
      /\ nextHandle = 1 /\ transient = << >>
  BY DEF Init
<1>3. Named
  <2>1. DOMAIN renderPasses = {} /\ DOMAIN computePasses = {} /\ DOMAIN transient = {}
    BY <1>2
  <2> QED BY <1>2, <2>1 DEF Named
<1>4. Fresh
  BY <1>2 DEF Fresh
<1>5. ~Active /\ ~Built /\ ~Sorted /\ ~Aliasing /\ ~Compiled
  BY <1>2 DEF Active, Built, Sorted, Aliasing, Compiled
<1>6. EdgeInv /\ SortInv
  BY <1>2, <1>5 DEF EdgeInv, Writers, Forward, Complete, SortInv, OrderInv, Kahn
<1>7. MergeInv
  <2>1. << >> \in Seq([passes : Seq(Nat), attachments : SUBSET Nat])
    BY EmptySeq
  <2> QED BY <1>2, <1>5, <2>1 DEF MergeInv
<1>8. AliasInv /\ BarrierInv
  BY <1>2, <1>5 DEF AliasInv, BarrierInv
<1> QED BY <1>1, <1>3, <1>4, <1>6, <1>7, <1>8 DEF IInv

LEMMA StutterHolds ==
    ASSUME IInv, UNCHANGED vars
    PROVE  IInv'
<1>1. UNCHANGED <<pc, renderPasses, computePasses, transferPasses, nextHandle, transient,
                  aliasGroup, dirty, valid, order, groups, aliases, barriers, edges, pass, input,
                  lastWriter, inDegree, queue, todo, merged, pending, compiles>>
  BY DEF vars, graphVars, resultVars, loopVars
<1>2. TypeOK' /\ Named' /\ Fresh'
  <2>1. TypeOK'
    BY <1>1 DEF IInv, TypeOK
  <2>2. Named' /\ Fresh'
    BY <1>1 DEF IInv, Named, Fresh
  <2> QED BY <2>1, <2>2
<1>3. /\ Active' <=> Active
      /\ Built' <=> Built
      /\ Sorted' <=> Sorted
      /\ Aliasing' <=> Aliasing
      /\ Compiled' <=> Compiled
  <2>1. Compiled' <=> Compiled
    BY <1>1, Zenon DEF Compiled
  <2> QED BY <1>1, <2>1 DEF Active, Built, Sorted, Aliasing
<1>4. EdgeInv'
  <2>1. \A p, h, q : Fed(p, h, q)' <=> Fed(p, h, q)
    BY <1>1, SamePasses DEF Fed
  <2> QED BY <1>1, <1>3, <2>1, SamePasses DEF IInv, EdgeInv, Writers, WriterOf, Forward, Complete
<1>5. SortInv'
  <2>1. \A p : (Ordered(p)' <=> Ordered(p)) /\ (Queued(p)' <=> Queued(p)) /\ Left(p)' = Left(p)
    BY <1>1 DEF Ordered, Queued, Left, EdgesTo
  <2>2. OrderInv'
    BY <1>1, <1>3, SamePasses DEF IInv, SortInv, OrderInv, Distinct
  <2>3. Kahn'
    BY <1>1, <2>1, SamePasses DEF IInv, SortInv, Kahn, Distinct
  <2> QED BY <1>3, <2>1, <2>2, <2>3, <1>1, SamePasses DEF IInv, SortInv
<1>6. MergeInv'
  <2>1. \A p : Grouped(p)' <=> Grouped(p)
    BY <1>1 DEF Grouped
  <2> QED BY <1>1, <1>3, <2>1, SamePasses DEF IInv, MergeInv
<1>7. AliasInv'
  <2>1. \A h : Uses(h)' = Uses(h)
    BY <1>1, SamePasses DEF Uses
  <2>2. \A g, h : CanAliasWith(g, h)' <=> CanAliasWith(g, h)
    BY <2>1 DEF CanAliasWith
  <2> QED BY <1>1, <1>3, <2>1, <2>2 DEF IInv, AliasInv
<1>8. BarrierInv'
  <2>1. \A e : (NeedsBarrier(e)' <=> NeedsBarrier(e)) /\ (Barred(e)' <=> Barred(e))
    BY <1>1 DEF NeedsBarrier, Barred
  <2> QED BY <1>1, <1>3, <2>1 DEF IInv, BarrierInv
<1> QED BY <1>2, <1>4, <1>5, <1>6, <1>7, <1>8 DEF IInv

(* The compilation of a graph keeps its invariant: in every loop, what the *)
(* finished turns have built is right for the passes and resources there   *)
(* are, and after Compile it stays so until a change marks the graph dirty.*)
THEOREM Inductive == Spec => []IInv
<1>1. ASSUME IInv, [Next]_vars
      PROVE  IInv'
  <2>1. CASE Declare
    BY <1>1, <2>1, DeclareStep
  <2>2. CASE Compile \/ ReadInput \/ WriteOutputs
    BY <1>1, <2>2, CompileBegins, ReadInputStep, WriteOutputsStep
  <2>3. CASE StartSort \/ Seed \/ PopPass \/ (\E k \in todo : Relax(k)) \/ EndSort
    BY <1>1, <2>3, StartSortStep, SeedStep, PopPassStep, RelaxStep, EndSortStep
  <2>4. CASE Lead \/ Candidate \/ EndCandidates
    BY <1>1, <2>4, LeadStep, CandidateStep, EndCandidatesStep
  <2>5. CASE StartAliasing \/ (\E h \in pending : Place(h))
    BY <1>1, <2>5, StartAliasingStep, PlaceStep
  <2>6. CASE StartBarriers \/ PlaceBarrier \/ EndCompile
    BY <1>1, <2>6, StartBarriersStep, PlaceBarrierStep, EndCompileStep
  <2>7. CASE UNCHANGED vars
    BY <1>1, <2>7, StutterHolds
  <2> QED BY <1>1, <2>1, <2>2, <2>3, <2>4, <2>5, <2>6, <2>7 DEF Next, CompileStep
<1> QED BY <1>1, InitHolds, PTL DEF Spec

(* Every variable keeps its type, for all descriptors. *)
THEOREM TypeCorrect == Spec => []TypeOK
<1>1. IInv => TypeOK
  BY DEF IInv
<1> QED BY <1>1, Inductive, PTL

(* A pass executes after the one that produced what it reads, in whatever  *)
(* order the passes were declared and whatever resources they share.       *)
THEOREM ReadersAfterWriters == Spec => []ReadersFollowWriters
<1>1. ASSUME IInv, Compiled, NEW p \in Unified, NEW q \in Unified,
             NEW h \in HandlesOf(Desc(q).inputs), Feeds(p, h, q)
      PROVE  \E i, j \in DOMAIN order : i < j /\ order[i] = p /\ order[j] = q
  <2> USE DEF IInv
  <2>1. Fed(p, h, q)
    BY <1>1 DEF EdgeInv, Complete, Built
  <2>2. PICK k \in DOMAIN edges : edges[k].source = p /\ edges[k].dest = q
    BY <2>1 DEF Fed
  <2>3. q \in Passes /\ Sorted
    BY <1>1, Lists DEF Sorted
  <2>4. PICK j \in DOMAIN order : order[j] = q
    BY <1>1, <2>3 DEF SortInv, Ordered
  <2>5. PICK i \in 1 .. j - 1 : order[i] = p
    BY <1>1, <2>2, <2>3, <2>4 DEF SortInv, OrderInv
  <2>6. order \in Seq(Nat)
    BY <1>1 DEF TypeOK
  <2>7. DOMAIN order = 1 .. Len(order) /\ Len(order) \in Nat
    BY <2>6, Elements
  <2>8. i \in DOMAIN order /\ i < j
    BY <2>7
  <2> QED BY <2>4, <2>5, <2>8
<1>2. IInv => ReadersFollowWriters
  BY <1>1 DEF ReadersFollowWriters
<1> QED BY <1>2, Inductive, PTL

(* TopologicalSort never fails: edges lead forward in the list of passes,  *)
(* so no graph the application can declare has a cycle.                    *)
THEOREM OrderIsTotal == Spec => []EveryPassOrdered
<1>1. ASSUME IInv, pc = "sort", todo = {}, queue = << >>
      PROVE  /\ \A p \in Passes : \E i \in DOMAIN order : order[i] = p
             /\ \A i, j \in DOMAIN order : order[i] = order[j] => i = j
             /\ Len(order) = Len(renderPasses) + Len(computePasses) + transferPasses
  <2>1. \A p \in Passes : Ordered(p)
    BY <1>1, AllOrdered
  <2>2. TypeOK /\ order \in Seq(Passes) /\ Distinct(order)
    BY <1>1 DEF IInv, SortInv, OrderInv
  <2>3. Len(order) = Len(renderPasses) + Len(computePasses) + transferPasses
    BY <2>1, <2>2, OrderLength
  <2> QED BY <2>1, <2>2, <2>3 DEF Ordered, Distinct
<1>2. IInv => EveryPassOrdered
  BY <1>1 DEF EveryPassOrdered
<1> QED BY <1>2, Inductive, PTL

(* A graph with a render pass executes one first, the first declared: the  *)
(* queue starts with the passes nothing leads to, in their order.          *)
THEOREM FirstIsRender == Spec => []FirstPassRenders
<1>1. ASSUME IInv, Compiled, renderPasses # << >>
      PROVE  order # << >> /\ order[1] \in Renders
  <2> USE DEF IInv
  <2>1. 1 \in Renders
    <3>1. Len(renderPasses) \in Nat /\ Len(renderPasses) # 0
      BY <1>1, Elements DEF TypeOK
    <3> QED BY <3>1 DEF Renders
  <2>2. 1 \in Passes /\ Sorted
    BY <1>1, <2>1, Lists DEF Sorted
  <2>3. order # << >>
    BY <1>1, <2>2 DEF SortInv, Ordered
  <2>4. order[1] = 1
    BY <1>1, <2>2, <2>3 DEF SortInv, OrderInv
  <2> QED BY <2>1, <2>3, <2>4
<1>2. IInv => FirstPassRenders
  BY <1>1 DEF FirstPassRenders
<1> QED BY <1>2, Inductive, PTL

(* What is done with a colour-only resource is what its lifetime counts.  *)
LEMMA TouchesCounted ==
    ASSUME NEW h, ColourOnly(h)
    PROVE  Touches(h) \subseteq Uses(h)
BY DEF Touches, ColourOnly, InColour, Uses

(* Of colour-only resources that share memory, none is in use between two  *)
(* uses of another: neither read nor written, in no pass of any kind.      *)
THEOREM SharedMemoryDisjoint == Spec => []AliasesDisjoint
<1>1. ASSUME IInv, Compiled, NEW k \in DOMAIN aliases, NEW g \in aliases[k], NEW h \in aliases[k],
             g # h, ColourOnly(g), ColourOnly(h),
             NEW i \in Touches(g), NEW l \in Touches(g), NEW j \in Touches(h), i <= j, j <= l
      PROVE  FALSE
  <2>1. order \in Seq(Nat)
    BY <1>1 DEF IInv, TypeOK
  <2>2. \A x \in DOMAIN order : x \in Nat
    BY <2>1, Elements
  <2>3. i \in Uses(g) /\ l \in Uses(g) /\ j \in Uses(h)
    BY <1>1, TouchesCounted
  <2>4. i \in Nat /\ j \in Nat /\ l \in Nat
    BY <2>2, <2>3 DEF Uses
  <2>5. CanAliasWith(g, h)
    BY <1>1 DEF IInv, AliasInv, Aliasing
  <2>6. l < j \/ j < i
    BY <2>3, <2>5 DEF CanAliasWith
  <2> QED BY <1>1, <2>4, <2>6
<1>2. IInv => AliasesDisjoint
  BY <1>1 DEF AliasesDisjoint
<1> QED BY <1>2, Inductive, PTL

(* A transient resource is in one group, the one its aliasGroup names, when*)
(* a render pass reads it or has it as a colour output, and else in none.  *)
THEOREM GroupsAreNamed == Spec => []AliasGroupsAgree
<1>1. ASSUME IInv, Compiled, NEW h \in DOMAIN transient
      PROVE  /\ (\E p \in Renders : InColour(p, h)) => aliasGroup[h] \in DOMAIN aliases
             /\ \A k \in DOMAIN aliases :
                   h \in aliases[k] <=> (\E p \in Renders : InColour(p, h)) /\ aliasGroup[h] = k
  <2>1. Aliasing /\ Sorted /\ pending = {}
    BY <1>1 DEF IInv, Aliasing, Sorted, Fresh, Compiled
  <2>2. (\E p \in Renders : InColour(p, h)) <=> Uses(h) # {}
    <3>1. ASSUME NEW p \in Renders, InColour(p, h)
          PROVE  Uses(h) # {}
      <4>1. p \in Passes
        BY <1>1, <3>1, Lists DEF IInv
      <4>2. PICK i \in DOMAIN order : order[i] = p
        BY <1>1, <2>1, <4>1 DEF IInv, SortInv, Ordered
      <4>3. i \in Uses(h)
        BY <3>1, <4>2 DEF Uses, InColour
      <4> QED BY <4>3
    <3>2. ASSUME NEW i \in Uses(h)
          PROVE  InColour(order[i], h)
      BY <3>2 DEF Uses, InColour
    <3>3. \A i \in Uses(h) : order[i] \in Renders
      BY DEF Uses
    <3> QED BY <3>1, <3>2, <3>3
  <2>3. Uses(h) # {} =>
          /\ aliasGroup[h] \in DOMAIN aliases
          /\ \A k \in DOMAIN aliases : h \in aliases[k] <=> aliasGroup[h] = k
    BY <1>1, <2>1 DEF IInv, AliasInv
  <2>4. \A k \in DOMAIN aliases : h \in aliases[k] => Uses(h) # {}
    BY <1>1, <2>1 DEF IInv, AliasInv
  <2> QED BY <2>2, <2>3, <2>4
<1>2. IInv => AliasGroupsAgree
  BY <1>1 DEF AliasGroupsAgree
<1> QED BY <1>2, Inductive, PTL

(* Every render pass is in one merged group, once. *)
THEOREM MergedOnce == Spec => []RenderPassesMergedOnce
<1>1. ASSUME IInv, Compiled, NEW p \in Renders
      PROVE  \E k \in DOMAIN groups : \E i \in DOMAIN groups[k].passes :
                /\ groups[k].passes[i] = p
                /\ \A l \in DOMAIN groups : \A j \in DOMAIN groups[l].passes :
                      groups[l].passes[j] = p => l = k /\ j = i
  <2> USE DEF IInv
  <2>1. Sorted /\ Aliasing
    BY <1>1 DEF Sorted, Aliasing
  <2>2. p \in Nat /\ p \in merged
    BY <1>1, <2>1, Lists DEF MergeInv
  <2>3. Grouped(p)
    BY <1>1, <2>1, <2>2 DEF MergeInv
  <2>4. GroupedOnce
    BY <1>1, <2>1 DEF MergeInv, GroupedOnce
  <2>5. PICK k \in DOMAIN groups : \E i \in DOMAIN groups[k].passes : groups[k].passes[i] = p
    BY <2>3 DEF Grouped
  <2>6. PICK i \in DOMAIN groups[k].passes : groups[k].passes[i] = p
    BY <2>5
  <2> QED BY <2>4, <2>5, <2>6 DEF GroupedOnce
<1>2. IInv => RenderPassesMergedOnce
  BY <1>1 DEF RenderPassesMergedOnce
<1> QED BY <1>2, Inductive, PTL

(* Outputs are declared as the builders of passes declare them, written:   *)
(* ColorOutput of render passes does, and Output of compute passes does    *)
(* unless its caller says otherwise.                                       *)
OutputsWritten ==
    \A d \in RenderDescs \cup ComputeDescs : \A i \in DOMAIN d.outputs : d.outputs[i].usage = "write"

(* Between a pass and the one it feeds there is a barrier for the resource.*)
THEOREM BarriersPlaced ==
    ASSUME OutputsWritten
    PROVE  Spec => []ReadsHaveBarriers
<1>1. ASSUME IInv, Compiled, NEW p \in Unified, NEW q \in Unified,
             NEW h \in HandlesOf(Desc(q).inputs), Feeds(p, h, q)
      PROVE  \E k \in DOMAIN barriers :
                barriers[k].source = p /\ barriers[k].dest = q /\ barriers[k].resource = h
  <2> USE DEF IInv
  <2>1. Fed(p, h, q)
    BY <1>1 DEF EdgeInv, Complete, Built
  <2>2. PICK k \in DOMAIN edges :
            /\ edges[k].source = p /\ edges[k].dest = q /\ edges[k].resource = h
            /\ WritesAs(p, h, edges[k].fromUsage)
    BY <2>1 DEF Fed
  <2>3. Desc(p) \in RenderDescs \cup ComputeDescs
    <3>1. CASE p \in Renders
      BY <1>1, <3>1, Lists, Elements DEF Desc, TypeOK
    <3>2. CASE p \notin Renders
      BY <1>1, <3>2, Lists, Elements DEF Desc, TypeOK
    <3> QED BY <3>1, <3>2
  <2>4. edges[k].fromUsage = "write"
    BY <2>2, <2>3, OutputsWritten DEF WritesAs, OutputsWritten
  <2>5. p # q
    <3>1. p \in Nat /\ q \in Nat /\ p < q
      BY <1>1, Lists DEF Feeds
    <3> QED BY <3>1
  <2>6. NeedsBarrier(edges[k])
    BY <2>2, <2>4, <2>5 DEF NeedsBarrier
  <2>7. PICK l \in DOMAIN barriers : barriers[l] = edges[k]
    BY <1>1, <2>6 DEF BarrierInv, Barred
  <2> QED BY <2>2, <2>7
<1>2. IInv => ReadsHaveBarriers
  BY <1>1 DEF ReadsHaveBarriers
<1> QED BY <1>2, Inductive, PTL
=============================================================================

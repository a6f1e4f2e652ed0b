----------------------------- MODULE RenderGraph -----------------------------
(***************************************************************************)
(* RenderGraph: passes and transient resources are declared, Compile turns *)
(* them into an execution order, merged groups, groups of resources that   *)
(* share memory, and barriers.                                             *)
(*                                                                         *)
(* Compile runs on one thread and its loops are taken one turn at a time:  *)
(* BuildDependencies (per input, then per pass), Kahn's algorithm (per     *)
(* pass popped and per edge), MergePasses (per leader and candidate),      *)
(* ComputeAliasing (per resource), ComputeBarriers (per edge).             *)
(*                                                                         *)
(* Passes are named by their place in the unified list, from 1: the render *)
(* passes, then the compute passes, then the transfer passes.              *)
(***************************************************************************)
EXTENDS Naturals, Sequences, FiniteSets

CONSTANTS
    RenderDescs,   \* descriptors of render passes the application may build
    ComputeDescs,  \* descriptors of compute passes
    Sizes,         \* memory sizes of transient resources
    MaxHandles,    \* bound: resources created
    MaxRender,     \* bound: render passes
    MaxCompute,    \* bound: compute passes
    MaxTransfer,   \* bound: transfer passes
    MaxCompiles    \* bound: calls of Compile that compile

NoHandle == 0      \* InvalidResourceHandle
\* ResourceUsage, as the test for a barrier tells usages apart: writes and reads
\* it lists, and the others.
Usages == {"write", "read", "other"}
Refs == [handle : Nat, usage : Usages]
Descs == [inputs : Seq(Refs), outputs : Seq(Refs), depth : SUBSET Refs]

ASSUME DescsAssumption == RenderDescs \subseteq Descs /\ ComputeDescs \subseteq Descs
ASSUME SizesAssumption == Sizes \subseteq Nat
ASSUME GraphBoundsAssumption ==
    {MaxHandles, MaxRender, MaxCompute, MaxTransfer, MaxCompiles} \subseteq Nat

VARIABLES
    pc,             \* "idle", or the loop of Compile that runs
    renderPasses, computePasses,
    transferPasses, \* how many: Compile looks at nothing else of them
    nextHandle,     \* ResourceRegistry::nextHandle_
    transient,      \* transientResources_: handle to size
    aliasGroup,     \* TransientResource::aliasGroup of each, from 1
    dirty,          \* dirty_
    valid,          \* compiled_.isValid
    order,          \* compiled_.executionOrder
    groups,         \* compiled_.mergedGroups
    aliases,        \* compiled_.aliasingGroups: sets of handles
    barriers,       \* compiled_.barriers
    edges,          \* edges_
    pass, input,    \* loop counters: the pass, its input, a place in the order, an edge
    lastWriter,     \* local to BuildDependencies: pass and usage, of the handles written
    inDegree, queue, todo, \* locals of TopologicalSort; todo is what is left of adj[current]
    merged,         \* local to MergePasses
    pending,        \* lifetimes that ComputeAliasing has not placed
    compiles        \* calls so far

graphVars == <<renderPasses, computePasses, transferPasses, nextHandle, transient>>
resultVars == <<valid, order, groups, aliases, barriers>>
loopVars == <<pass, input, lastWriter, inDegree, queue, todo, merged, pending>>
vars == <<pc, graphVars, aliasGroup, dirty, resultVars, edges, loopVars, compiles>>

-----------------------------------------------------------------------------
Renders == 1 .. Len(renderPasses)
\* The passes of the unified list of BuildDependencies.
Unified == 1 .. Len(renderPasses) + Len(computePasses)
Passes == 1 .. Len(renderPasses) + Len(computePasses) + transferPasses

Desc(p) == IF p \in Renders THEN renderPasses[p] ELSE computePasses[p - Len(renderPasses)]

\* The valid handles of a list of references.
HandlesOf(refs) == {refs[i].handle : i \in DOMAIN refs} \ {NoHandle}

Edges == [source : Nat, dest : Nat, resource : Nat, fromUsage : Usages, toUsage : Usages]

EmptyCompiled ==
    /\ valid' = FALSE
    /\ order' = <<>> /\ groups' = <<>> /\ aliases' = <<>> /\ barriers' = <<>>

Init ==
    /\ pc = "idle"
    /\ renderPasses = <<>> /\ computePasses = <<>> /\ transferPasses = 0
    /\ nextHandle = 1 /\ transient = <<>> /\ aliasGroup = <<>>
    /\ dirty = TRUE /\ valid = FALSE
    /\ order = <<>> /\ groups = <<>> /\ aliases = <<>> /\ barriers = <<>> /\ edges = <<>>
    /\ pass = 1 /\ input = 1 /\ lastWriter = << >>
    /\ inDegree = <<>> /\ queue = <<>> /\ todo = {} /\ merged = {} /\ pending = {}
    /\ compiles = 0

-----------------------------------------------------------------------------
(* The application declares passes and resources.                          *)

\* Descriptors are built from handles the graph has returned.
Known(d) ==
    HandlesOf(d.inputs) \cup HandlesOf(d.outputs) \cup {r.handle : r \in d.depth}
        \subseteq 1 .. nextHandle - 1

CreateTransient(size) ==
    /\ pc = "idle" /\ nextHandle <= MaxHandles
    /\ nextHandle' = nextHandle + 1
    /\ transient' = [h \in DOMAIN transient \cup {nextHandle} |->
                        IF h = nextHandle THEN size ELSE transient[h]]
    /\ aliasGroup' = [h \in DOMAIN transient \cup {nextHandle} |->
                        IF h = nextHandle THEN 1 ELSE aliasGroup[h]]
    /\ UNCHANGED <<pc, renderPasses, computePasses, transferPasses, dirty, resultVars,
                   edges, loopVars, compiles>>

ImportExternal ==
    /\ pc = "idle" /\ nextHandle <= MaxHandles
    /\ nextHandle' = nextHandle + 1
    /\ UNCHANGED <<pc, renderPasses, computePasses, transferPasses, transient, aliasGroup,
                   dirty, resultVars, edges, loopVars, compiles>>

AddRenderPass(d) ==
    /\ pc = "idle" /\ Len(renderPasses) < MaxRender /\ Known(d)
    /\ renderPasses' = Append(renderPasses, d)
    /\ dirty' = TRUE
    /\ UNCHANGED <<pc, computePasses, transferPasses, nextHandle, transient, aliasGroup,
                   resultVars, edges, loopVars, compiles>>

AddComputePass(d) ==
    /\ pc = "idle" /\ Len(computePasses) < MaxCompute /\ Known(d)
    /\ computePasses' = Append(computePasses, d)
    /\ dirty' = TRUE
    /\ UNCHANGED <<pc, renderPasses, transferPasses, nextHandle, transient, aliasGroup,
                   resultVars, edges, loopVars, compiles>>

AddTransferPass ==
    /\ pc = "idle" /\ transferPasses < MaxTransfer
    /\ transferPasses' = transferPasses + 1
    /\ dirty' = TRUE
    /\ UNCHANGED <<pc, renderPasses, computePasses, nextHandle, transient, aliasGroup,
                   resultVars, edges, loopVars, compiles>>

\* GetRenderPass, and the caller's change through the pointer before any other call.
GetRenderPass(i, d) ==
    /\ pc = "idle" /\ Known(d)
    /\ renderPasses' = [renderPasses EXCEPT ![i] = d]
    /\ dirty' = TRUE
    /\ UNCHANGED <<pc, computePasses, transferPasses, nextHandle, transient, aliasGroup,
                   resultVars, edges, loopVars, compiles>>

GetComputePass(i, d) ==
    /\ pc = "idle" /\ Known(d)
    /\ computePasses' = [computePasses EXCEPT ![i] = d]
    /\ dirty' = TRUE
    /\ UNCHANGED <<pc, renderPasses, transferPasses, nextHandle, transient, aliasGroup,
                   resultVars, edges, loopVars, compiles>>

Clear ==
    /\ pc = "idle"
    /\ renderPasses' = <<>> /\ computePasses' = <<>> /\ transferPasses' = 0
    /\ nextHandle' = 1 /\ transient' = <<>> /\ aliasGroup' = <<>>
    /\ EmptyCompiled
    /\ edges' = <<>> /\ dirty' = TRUE
    /\ UNCHANGED <<pc, loopVars, compiles>>

-----------------------------------------------------------------------------
(* Compile: BuildDependencies.                                             *)

\* A call that finds the graph clean returns what it has and changes nothing.
Compile ==
    /\ pc = "idle" /\ (dirty \/ ~valid) /\ compiles < MaxCompiles
    /\ EmptyCompiled
    /\ edges' = <<>> /\ pass' = 1 /\ input' = 1 /\ lastWriter' = << >>
    /\ compiles' = compiles + 1
    /\ pc' = "build"
    /\ UNCHANGED <<graphVars, aliasGroup, dirty, inDegree, queue, todo, merged, pending>>

Edge(ref, to) ==
    [source |-> lastWriter[ref.handle].pass, dest |-> to, resource |-> ref.handle,
     fromUsage |-> lastWriter[ref.handle].usage, toUsage |-> ref.usage]

\* One input: an edge from the pass that wrote it last, if one did.
ReadInput ==
    /\ pc = "build" /\ pass \in Unified /\ input <= Len(Desc(pass).inputs)
    /\ LET ref == Desc(pass).inputs[input] IN
        edges' = IF ref.handle # NoHandle /\ ref.handle \in DOMAIN lastWriter
                 THEN Append(edges, Edge(ref, pass)) ELSE edges
    /\ input' = input + 1
    /\ UNCHANGED <<pc, graphVars, aliasGroup, dirty, resultVars, pass, lastWriter, inDegree,
                   queue, todo, merged, pending, compiles>>

\* What lastWriter says of h once pass p has recorded its outputs: the last of
\* them that names h counts.
Written(p, h) ==
    LET outs == Desc(p).outputs
        i == CHOOSE i \in DOMAIN outs :
                outs[i].handle = h /\ \A j \in DOMAIN outs : outs[j].handle = h => j <= i
    IN  [pass |-> p, usage |-> outs[i].usage]

\* Mutant: the first writer of a resource stays its writer.
WriteOutputsOnce ==
    /\ pc = "build" /\ pass \in Unified /\ input > Len(Desc(pass).inputs)
    /\ lastWriter' = [h \in DOMAIN lastWriter \cup HandlesOf(Desc(pass).outputs) |->
                        IF h \in DOMAIN lastWriter THEN lastWriter[h] ELSE Written(pass, h)]
    /\ pass' = pass + 1 /\ input' = 1
    /\ UNCHANGED <<pc, graphVars, aliasGroup, dirty, resultVars, edges, inDegree, queue, todo,
                   merged, pending, compiles>>

\* After the inputs, the pass is the writer of its outputs; depthStencilOutput
\* is not among them.
WriteOutputs ==
    /\ pc = "build" /\ pass \in Unified /\ input > Len(Desc(pass).inputs)
    /\ lastWriter' = [h \in DOMAIN lastWriter \cup HandlesOf(Desc(pass).outputs) |->
                        IF h \in HandlesOf(Desc(pass).outputs) THEN Written(pass, h)
                        ELSE lastWriter[h]]
    /\ pass' = pass + 1 /\ input' = 1
    /\ UNCHANGED <<pc, graphVars, aliasGroup, dirty, resultVars, edges, inDegree, queue, todo,
                   merged, pending, compiles>>

-----------------------------------------------------------------------------
(* Compile: TopologicalSort, Kahn's algorithm.                             *)

EdgesTo(p) == {k \in DOMAIN edges : edges[k].dest = p}
EdgesFrom(p) == {k \in DOMAIN edges : edges[k].source = p}

StartSort ==
    /\ pc = "build" /\ pass \notin Unified
    /\ inDegree' = [p \in Passes |-> Cardinality(EdgesTo(p))]
    /\ queue' = <<>> /\ todo' = {} /\ pass' = 1
    /\ pc' = "seed"
    /\ UNCHANGED <<graphVars, aliasGroup, dirty, resultVars, edges, input, lastWriter, merged,
                   pending, compiles>>

\* Mutant: the queue is filled from the last pass to the first.
SeedBackwards ==
    /\ pc = "seed"
    /\ IF pass \in Passes
       THEN /\ queue' = IF inDegree[pass] = 0 THEN <<pass>> \o queue ELSE queue
            /\ pass' = pass + 1 /\ UNCHANGED pc
       ELSE pc' = "sort" /\ UNCHANGED <<queue, pass>>
    /\ UNCHANGED <<graphVars, aliasGroup, dirty, resultVars, edges, input, lastWriter, inDegree,
                   todo, merged, pending, compiles>>

\* The queue starts with the passes nothing leads to.
Seed ==
    /\ pc = "seed"
    /\ IF pass \in Passes
       THEN /\ queue' = IF inDegree[pass] = 0 THEN Append(queue, pass) ELSE queue
            /\ pass' = pass + 1 /\ UNCHANGED pc
       ELSE pc' = "sort" /\ UNCHANGED <<queue, pass>>
    /\ UNCHANGED <<graphVars, aliasGroup, dirty, resultVars, edges, input, lastWriter, inDegree,
                   todo, merged, pending, compiles>>

PopPass ==
    /\ pc = "sort" /\ todo = {} /\ queue # <<>>
    /\ order' = Append(order, Head(queue))
    /\ queue' = Tail(queue)
    /\ todo' = EdgesFrom(Head(queue))
    /\ UNCHANGED <<pc, graphVars, aliasGroup, dirty, valid, groups, aliases, barriers, edges,
                   pass, input, lastWriter, inDegree, merged, pending, compiles>>

\* Mutant: a neighbour is queued at each of its edges.
RelaxEach(k) ==
    LET p == edges[k].dest IN
    /\ pc = "sort" /\ k \in todo /\ \A l \in todo : k <= l
    /\ inDegree' = [inDegree EXCEPT ![p] = @ - 1]
    /\ queue' = Append(queue, p)
    /\ todo' = todo \ {k}
    /\ UNCHANGED <<pc, graphVars, aliasGroup, dirty, resultVars, edges, pass, input, lastWriter,
                   merged, pending, compiles>>

\* One neighbour in adj[current], in the order of the edges.
Relax(k) ==
    LET p == edges[k].dest IN
    /\ pc = "sort" /\ k \in todo /\ \A l \in todo : k <= l
    /\ inDegree' = [inDegree EXCEPT ![p] = @ - 1]
    /\ queue' = IF inDegree[p] = 1 THEN Append(queue, p) ELSE queue
    /\ todo' = todo \ {k}
    /\ UNCHANGED <<pc, graphVars, aliasGroup, dirty, resultVars, edges, pass, input, lastWriter,
                   merged, pending, compiles>>

\* A pass that was never queued is on a cycle: Compile returns, still invalid.
EndSort ==
    /\ pc = "sort" /\ todo = {} /\ queue = <<>>
    /\ pc' = IF Len(order) = Len(renderPasses) + Len(computePasses) + transferPasses
             THEN "merge" ELSE "idle"
    /\ pass' = 1 /\ merged' = {}
    /\ UNCHANGED <<graphVars, aliasGroup, dirty, resultVars, edges, input, lastWriter, inDegree,
                   queue, todo, pending, compiles>>

-----------------------------------------------------------------------------
(* Compile: MergePasses.  "pass" and "input" are the loop counters i and j. *)

\* A group: the passes merged, in the order they join, and its attachments.
NewGroup(p) == [passes |-> <<p>>, attachments |-> HandlesOf(Desc(p).outputs)]

Unmerged(i) == order[i] \in Renders \ merged

Lead ==
    /\ pc = "merge" /\ pass <= Len(order)
    /\ IF Unmerged(pass)
       THEN /\ groups' = Append(groups, NewGroup(order[pass]))
            /\ merged' = merged \cup {order[pass]}
            /\ input' = pass + 1 /\ pc' = "candidates" /\ UNCHANGED pass
       ELSE pass' = pass + 1 /\ UNCHANGED <<groups, merged, input, pc>>
    /\ UNCHANGED <<graphVars, aliasGroup, dirty, valid, order, aliases, barriers, edges,
                   lastWriter, inDegree, queue, todo, pending, compiles>>

\* A candidate joins the group when it reads one of its attachments.
Joins(p) == HandlesOf(Desc(p).inputs) \cap groups[Len(groups)].attachments # {}

\* Mutant: a pass that joined a group is not marked.
CandidateUnmarked ==
    /\ pc = "candidates" /\ input <= Len(order)
    /\ IF Unmerged(input) /\ Joins(order[input])
       THEN groups' = [groups EXCEPT ![Len(groups)] =
                [passes |-> Append(@.passes, order[input]),
                 attachments |-> @.attachments \cup HandlesOf(Desc(order[input]).outputs)]]
       ELSE UNCHANGED groups
    /\ input' = input + 1
    /\ UNCHANGED <<pc, graphVars, aliasGroup, dirty, valid, order, aliases, barriers, edges,
                   pass, lastWriter, inDegree, queue, todo, merged, pending, compiles>>

Candidate ==
    /\ pc = "candidates" /\ input <= Len(order)
    /\ IF Unmerged(input) /\ Joins(order[input])
       THEN /\ groups' = [groups EXCEPT ![Len(groups)] =
                    [passes |-> Append(@.passes, order[input]),
                     attachments |-> @.attachments \cup HandlesOf(Desc(order[input]).outputs)]]
            /\ merged' = merged \cup {order[input]}
       ELSE UNCHANGED <<groups, merged>>
    /\ input' = input + 1
    /\ UNCHANGED <<pc, graphVars, aliasGroup, dirty, valid, order, aliases, barriers, edges,
                   pass, lastWriter, inDegree, queue, todo, pending, compiles>>

EndCandidates ==
    /\ pc = "candidates" /\ input > Len(order)
    /\ pass' = pass + 1 /\ pc' = "merge"
    /\ UNCHANGED <<graphVars, aliasGroup, dirty, resultVars, edges, input, lastWriter, inDegree,
                   queue, todo, merged, pending, compiles>>

-----------------------------------------------------------------------------
(* Compile: ComputeAliasing and ComputeBarriers.                           *)

\* The positions in the order that a lifetime counts: those of the render passes
\* that read the resource or have it as a colour output.  Depth outputs and the
\* passes of other kinds do not lengthen a lifetime.
Uses(h) == {i \in DOMAIN order : order[i] \in Renders
                /\ h \in HandlesOf(Desc(order[i]).inputs) \cup HandlesOf(Desc(order[i]).outputs)}

\* Mutant: imported resources have lifetimes too.
StartAliasingAll ==
    /\ pc = "merge" /\ pass > Len(order)
    /\ pending' = {h \in 1 .. nextHandle - 1 : Uses(h) # {}}
    /\ pc' = "alias"
    /\ UNCHANGED <<graphVars, aliasGroup, dirty, resultVars, edges, pass, input, lastWriter,
                   inDegree, queue, todo, merged, compiles>>

\* Every render pass is in the order, so the loop over those left finds none.
StartAliasing ==
    /\ pc = "merge" /\ pass > Len(order)
    /\ pending' = {h \in DOMAIN transient : Uses(h) # {}}
    /\ pc' = "alias"
    /\ UNCHANGED <<graphVars, aliasGroup, dirty, resultVars, edges, pass, input, lastWriter,
                   inDegree, queue, todo, merged, compiles>>

\* Mutant: lifetimes may touch.
CanAliasWithTouching(g, h) ==
    \/ \A i \in Uses(g), j \in Uses(h) : i <= j
    \/ \A i \in Uses(g), j \in Uses(h) : j <= i

\* From first to last use, neither lifetime reaches into the other.
CanAliasWith(g, h) ==
    \/ \A i \in Uses(g), j \in Uses(h) : i < j
    \/ \A i \in Uses(g), j \in Uses(h) : j < i

Fits(h, k) == \A g \in aliases[k] : CanAliasWith(h, g)

\* Mutant: a resource that joins a group is not told so.
PlaceUnrecorded(h) ==
    /\ pc = "alias" /\ h \in pending /\ \A g \in pending : transient[g] <= transient[h]
    /\ aliases' = IF \E k \in DOMAIN aliases : Fits(h, k)
                  THEN LET k == CHOOSE k \in DOMAIN aliases : Fits(h, k)
                       IN  [aliases EXCEPT ![k] = @ \cup {h}]
                  ELSE Append(aliases, {h})
    /\ pending' = pending \ {h}
    /\ UNCHANGED <<pc, graphVars, aliasGroup, dirty, valid, order, groups, barriers, edges, pass,
                   input, lastWriter, inDegree, queue, todo, merged, compiles>>

\* The next resource in order of size, in any order among equals, goes to the
\* first group all of whose members it can alias with, or to a new one.
Place(h) ==
    /\ pc = "alias" /\ h \in pending /\ \A g \in pending : transient[g] <= transient[h]
    /\ \/ \E k \in DOMAIN aliases :
            /\ Fits(h, k) /\ \A l \in 1 .. k - 1 : ~Fits(h, l)
            /\ aliases' = [aliases EXCEPT ![k] = @ \cup {h}]
            /\ aliasGroup' = [aliasGroup EXCEPT ![h] = k]
       \/ /\ \A k \in DOMAIN aliases : ~Fits(h, k)
          /\ aliases' = Append(aliases, {h})
          /\ aliasGroup' = [aliasGroup EXCEPT ![h] = Len(aliases) + 1]
    /\ pending' = pending \ {h}
    /\ UNCHANGED <<pc, graphVars, dirty, valid, order, groups, barriers, edges, pass, input,
                   lastWriter, inDegree, queue, todo, merged, compiles>>

\* Mutant: a barrier asks for a listed write and a listed read.
NeedsBarrierBoth(e) == e.source # e.dest /\ e.fromUsage = "write" /\ e.toUsage = "read"

NeedsBarrier(e) == e.source # e.dest /\ (e.fromUsage = "write" \/ e.toUsage = "read")

StartBarriers ==
    /\ pc = "alias" /\ pending = {}
    /\ pass' = 1
    /\ pc' = "barriers"
    /\ UNCHANGED <<graphVars, aliasGroup, dirty, resultVars, edges, input, lastWriter, inDegree,
                   queue, todo, merged, pending, compiles>>

\* One edge, "pass" counts them: a barrier carries what its edge carries.
PlaceBarrier ==
    /\ pc = "barriers" /\ pass <= Len(edges)
    /\ barriers' = IF NeedsBarrier(edges[pass]) THEN Append(barriers, edges[pass]) ELSE barriers
    /\ pass' = pass + 1
    /\ UNCHANGED <<pc, graphVars, aliasGroup, dirty, valid, order, groups, aliases, edges, input,
                   lastWriter, inDegree, queue, todo, merged, pending, compiles>>

EndCompile ==
    /\ pc = "barriers" /\ pass > Len(edges)
    /\ valid' = TRUE /\ dirty' = FALSE
    /\ pc' = "idle"
    /\ UNCHANGED <<graphVars, aliasGroup, order, groups, aliases, barriers, edges, loopVars,
                   compiles>>

-----------------------------------------------------------------------------
Declare ==
    \/ \E s \in Sizes : CreateTransient(s)
    \/ ImportExternal
    \/ \E d \in RenderDescs : AddRenderPass(d)
    \/ \E d \in ComputeDescs : AddComputePass(d)
    \/ AddTransferPass
    \/ \E i \in DOMAIN renderPasses, d \in RenderDescs : GetRenderPass(i, d)
    \/ \E i \in DOMAIN computePasses, d \in ComputeDescs : GetComputePass(i, d)
    \/ Clear

CompileStep ==
    \/ Compile \/ ReadInput \/ WriteOutputs
    \/ StartSort \/ Seed \/ PopPass \/ (\E k \in todo : Relax(k)) \/ EndSort
    \/ Lead \/ Candidate \/ EndCandidates
    \/ StartAliasing \/ (\E h \in pending : Place(h))
    \/ StartBarriers \/ PlaceBarrier \/ EndCompile

Next == Declare \/ CompileStep

Spec == Init /\ [][Next]_vars

-----------------------------------------------------------------------------
TypeOK ==
    /\ pc \in {"idle", "build", "seed", "sort", "merge", "candidates", "alias", "barriers"}
    /\ renderPasses \in Seq(RenderDescs) /\ computePasses \in Seq(ComputeDescs)
    /\ transferPasses \in Nat /\ compiles \in Nat
    /\ nextHandle \in Nat
    /\ DOMAIN transient \subseteq Nat \ {NoHandle}
    /\ aliasGroup \in [DOMAIN transient -> Nat]
    /\ \A h \in DOMAIN transient : transient[h] \in Sizes
    /\ dirty \in BOOLEAN /\ valid \in BOOLEAN
    /\ order \in Seq(Nat)
    /\ edges \in Seq(Edges) /\ barriers \in Seq(Edges)
    /\ aliases \in Seq(SUBSET DOMAIN transient)
    /\ pass \in Nat /\ input \in Nat
    /\ queue \in Seq(Nat) /\ todo \subseteq Nat
    /\ pending \subseteq DOMAIN transient

\* What Compile left is for the passes as they are now.
Compiled == pc = "idle" /\ valid /\ ~dirty

\* Pass p is the last in the list before q to have h among its outputs, and q
\* has it among its inputs.
Feeds(p, h, q) ==
    /\ p < q /\ h \in HandlesOf(Desc(p).outputs) /\ h \in HandlesOf(Desc(q).inputs)
    /\ \A r \in Unified : p < r /\ r < q => h \notin HandlesOf(Desc(r).outputs)

\* "passes execute in topological order based on resource usage": in the order
\* Compile returns, a pass comes after the one that produced what it reads.
ReadersFollowWriters ==
    Compiled => \A p, q \in Unified : \A h \in HandlesOf(Desc(q).inputs) :
        Feeds(p, h, q) => \E i, j \in DOMAIN order : i < j /\ order[i] = p /\ order[j] = q

\* Compile never gives a graph up as cyclic: Kahn's algorithm ends with every
\* pass in the order, once.
EveryPassOrdered ==
    pc = "sort" /\ todo = {} /\ queue = <<>> =>
        /\ \A p \in Passes : \E i \in DOMAIN order : order[i] = p
        /\ \A i, j \in DOMAIN order : order[i] = order[j] => i = j
        /\ Len(order) = Len(renderPasses) + Len(computePasses) + transferPasses

\* A graph with a render pass executes one first: what the backend does with
\* the first pass (the wait for its slot and the acquire) it does in a render
\* pass, which is the assumption of the frame loop on its execution orders.
FirstPassRenders ==
    Compiled /\ renderPasses # <<>> => order # <<>> /\ order[1] \in Renders

\* Everything a pass writes, and everything it names.
Writes(p) == HandlesOf(Desc(p).outputs) \cup {r.handle : r \in Desc(p).depth}
Names(p) == HandlesOf(Desc(p).inputs) \cup Writes(p)

\* The positions at which a resource is in use, be it as a depth output or in a
\* compute pass.  (Of transfer passes Compile knows no resources.)
Touches(h) == {i \in DOMAIN order : order[i] \in Unified /\ h \in Names(order[i])}

\* A render pass reads the resource or has it as a colour output.
InColour(p, h) ==
    p \in Renders /\ h \in HandlesOf(Desc(p).inputs) \cup HandlesOf(Desc(p).outputs)

\* Nothing else is done with the resource: no pass has it as its depth output
\* alone, and no compute pass names it.
ColourOnly(h) == \A p \in Unified : h \in Names(p) => InColour(p, h)

\* "transient resources with non-overlapping lifetimes share backing memory"
\* (docs/render-graph.md:28): of resources that share memory, none is in use
\* between two uses of another, provided that both are colour only.  Of a resource
\* that is a depth output, or is used by a compute pass, this is not so: Compile
\* may let it share memory while it is alive (graph.ixx:390-402).
AliasesDisjoint ==
    Compiled => \A k \in DOMAIN aliases : \A g, h \in aliases[k] :
        g # h /\ ColourOnly(g) /\ ColourOnly(h) =>
            \A i, l \in Touches(g), j \in Touches(h) : ~(i <= j /\ j <= l)

\* A transient resource that a render pass reads or has as a colour output is in
\* one group, the one its aliasGroup names; any other is in none, although its
\* aliasGroup is that of the first group, or of an earlier compilation
\* (resource.ixx:19).
AliasGroupsAgree ==
    Compiled => \A h \in DOMAIN transient :
        LET placed == \E p \in Renders : InColour(p, h) IN
        /\ placed => aliasGroup[h] \in DOMAIN aliases
        /\ \A k \in DOMAIN aliases : h \in aliases[k] <=> placed /\ aliasGroup[h] = k

\* Every render pass is in one merged group, once, whatever order the groups
\* were opened in.
RenderPassesMergedOnce ==
    Compiled => \A p \in Renders : \E k \in DOMAIN groups : \E i \in DOMAIN groups[k].passes :
        /\ groups[k].passes[i] = p
        /\ \A l \in DOMAIN groups : \A j \in DOMAIN groups[l].passes :
              groups[l].passes[j] = p => l = k /\ j = i

\* "synchronization barriers are automatically placed between passes": between
\* a pass and the one it feeds there is a barrier for the resource.
ReadsHaveBarriers ==
    Compiled => \A p, q \in Unified : \A h \in HandlesOf(Desc(q).inputs) :
        Feeds(p, h, q) => \E k \in DOMAIN barriers :
            barriers[k].source = p /\ barriers[k].dest = q /\ barriers[k].resource = h

\* "passes execute in topological order based on resource usage", for every
\* output: when a pass reads a resource, the last to have written it is the
\* last to do so before it in the list, depth included.
ReadsSeeLatestWrite ==
    Compiled => \A i \in DOMAIN order : order[i] \in Unified =>
        \A h \in HandlesOf(Desc(order[i]).inputs) :
            LET before == {p \in Unified : p < order[i] /\ h \in Writes(p)}
                done == {j \in 1 .. i - 1 : order[j] \in Unified /\ h \in Writes(order[j])}
            IN  before # {} =>
                    \E j \in done : /\ \A k \in done : k <= j
                                    /\ \A p \in before : p <= order[j]
=============================================================================

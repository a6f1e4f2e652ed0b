---------------------------- MODULE VulkanObjects ----------------------------
(***************************************************************************)
(* The C++ objects that own what the Vulkan API and the memory allocator   *)
(* create: src/src/render/raster/backend/vulkan.  Each class holds raw     *)
(* handles; its constructors create them one by one and may throw between, *)
(* its destructor destroys them, its move operations hand them on.         *)
(*                                                                         *)
(* A behaviour is about one class.  Its objects live in Slots: locals,     *)
(* members, optionals and vector elements.  A client constructs, moves,    *)
(* copies, assigns, maps and destroys them in any order the language       *)
(* allows; a growing vector is a move construction into the new place and  *)
(* the destruction of the old one.  A class is described by the step       *)
(* sequences of its constructors and by what its special members do with   *)
(* the fields that hold handles.                                           *)
(***************************************************************************)
EXTENDS Naturals, Sequences

CONSTANTS Slots,     \* places an object may live in
          Handles,   \* what the API returns; a destroyed handle may come back
          Returned(_), \* the handles the API may return while a set of them is live
          Null,      \* a null handle or pointer
          Bindless   \* the pipeline layout of VulkanBindlessLayout, owned there

ASSUME ObjectsAssumption ==
  /\ Null \notin Handles /\ Null \notin Slots
  /\ Bindless \notin Handles /\ Bindless # Null
  /\ \A used \in SUBSET Handles : Returned(used) \subseteq Handles \ used

VARIABLES class,   \* the class this behaviour is about
          stage,   \* absent, building (inside a constructor), alive, hollow (moved from)
          steps,   \* the constructor that runs or ran, as its sequence of steps
          done,    \* how many of its steps have been taken
          own,     \* the handle each owning field holds, or Null
          attr,    \* the other members the properties tell apart
          live,    \* handles created and not destroyed
          mapped,  \* buffers whose memory is mapped
          moved    \* history: a command buffer has been moved

vars == <<class, stage, steps, done, own, attr, live, mapped, moved>>

----------------------------------------------------------------------------
(* Steps of constructors.  A member is an object of its own, destroyed when *)
(* a later step throws; a handle created in the body is not, because the    *)
(* destructor of an object whose constructor threw never runs.              *)

Member(f)   == [field |-> f, member |-> TRUE, throws |-> TRUE]
Body(f)     == [field |-> f, member |-> FALSE, throws |-> TRUE]
Tolerant(f) == [field |-> f, member |-> FALSE, throws |-> FALSE]
Check       == [field |-> "none", member |-> TRUE, throws |-> TRUE]

AllocatorSteps == {<<Body("allocator")>>}
BufferSteps == {<<Body("buffer")>>}

\* From a resource or a path the file must exist; from bytes there is no file.
ShaderFromFile == <<Check, Body("module")>>
ShaderFromBytes == <<Body("module")>>
ShaderSteps == {ShaderFromFile, ShaderFromBytes}

\* The vectors of attachments are copied and the description filled in.
SubPassSteps == {<<>>}

\* Cache and layout are members, whether or not an external layout is used.
PipelineSteps == {<<Member("cache"), Member("layout"), Body("pipeline")>>}
PipelineCacheSteps == {<<Body("cache")>>}
PipelineLayoutSteps == {<<Body("layout")>>}

SemaphoreSteps == {<<Body("semaphore")>>}
TimelineSteps == {<<Body("timeline")>>}
FenceSteps == {<<Body("fence")>>}
CommandBufferSteps == {<<Body("command")>>}
RenderPassSteps == {<<Body("renderpass")>>}
FrameBufferSteps == {<<Body("framebuffer")>>}

\* A swap chain is a local of its factory, which its destructor cleans up: the
\* surface is asked first, then come the chain, its images and a view of each.
SwapChainSteps ==
  {<<Check, Member("swapchain"), Check, Member("firstview"), Member("secondview")>>}

\* A debug messenger that cannot be made is done without; a release build
\* makes none.
InstanceSteps == {<<Body("instance"), Tolerant("messenger")>>}

----------------------------------------------------------------------------
(* Special members.  frees: destroyed by the destructor; nulls: cleared in  *)
(* the source of a move construction; drops and clears: destroyed in the    *)
(* target, and cleared in the source, of a move assignment; repoints: the   *)
(* pointers into the object are set anew.                                   *)

Raii(fields) == [frees |-> fields, nulls |-> fields, drops |-> fields,
                 clears |-> fields, repoints |-> FALSE]

AllocatorMembers == Raii({"allocator"})
BufferMembers    == Raii({"buffer"})

\* Mutant: a move assignment forgets the module the target had.
ShaderMembersLeaky == [Raii({"module"}) EXCEPT !.repoints = TRUE, !.drops = {}]

ShaderMembers    == [Raii({"module"}) EXCEPT !.repoints = TRUE]

\* Mutant: the pointer to the depth attachment is copied as it is.
SubPassMembersShared == Raii({})

SubPassMembers   == [Raii({}) EXCEPT !.repoints = TRUE]
PipelineMembers  == Raii({"cache", "layout", "pipeline"})
PipelineCacheMembers  == Raii({"cache"})
PipelineLayoutMembers == Raii({"layout"})
SemaphoreMembers == Raii({"semaphore"})
TimelineMembers  == Raii({"timeline"})
FenceMembers     == Raii({"fence"})
RenderPassMembers  == Raii({"renderpass"})
FrameBufferMembers == Raii({"framebuffer"})

\* The views go with the chain: there are none without one.
SwapChainMembers == Raii({"swapchain", "firstview", "secondview"})
InstanceMembers  == Raii({"instance", "messenger"})

\* Its moves are defaulted: the source keeps the handle the target now has too,
\* what the target had is forgotten, and each destructor frees what it holds.
CommandBufferMembers == [Raii({}) EXCEPT !.frees = {"command"}]

Classes == {"allocator", "buffer", "shader", "subpass", "pipeline", "cache",
            "layout", "semaphore", "timeline", "fence", "instance", "command",
            "renderpass", "framebuffer", "swapchain"}

Constructors ==
  [allocator |-> AllocatorSteps, buffer |-> BufferSteps, shader |-> ShaderSteps,
   subpass |-> SubPassSteps, pipeline |-> PipelineSteps, cache |-> PipelineCacheSteps,
   layout |-> PipelineLayoutSteps, semaphore |-> SemaphoreSteps, timeline |-> TimelineSteps,
   fence |-> FenceSteps, instance |-> InstanceSteps, command |-> CommandBufferSteps,
   renderpass |-> RenderPassSteps, framebuffer |-> FrameBufferSteps, swapchain |-> SwapChainSteps]

Members ==
  [allocator |-> AllocatorMembers, buffer |-> BufferMembers, shader |-> ShaderMembers,
   subpass |-> SubPassMembers, pipeline |-> PipelineMembers, cache |-> PipelineCacheMembers,
   layout |-> PipelineLayoutMembers, semaphore |-> SemaphoreMembers, timeline |-> TimelineMembers,
   fence |-> FenceMembers, instance |-> InstanceMembers, command |-> CommandBufferMembers,
   renderpass |-> RenderPassMembers, framebuffer |-> FrameBufferMembers,
   swapchain |-> SwapChainMembers]

Fields == {"allocator", "buffer", "module", "cache", "layout", "pipeline",
           "semaphore", "timeline", "fence", "instance", "messenger", "command",
           "renderpass", "framebuffer", "swapchain", "firstview", "secondview"}

----------------------------------------------------------------------------
(* What a pipeline is created with, and what it answers later.              *)

\* A mesh pipeline has no vertex input at all; the others describe their
\* attributes or, when the shader makes its own vertices, none.  A custom format
\* that lists no attributes counts as no format.
VertexInput(format) ==
  CASE format = "Mesh" -> "absent"
    [] format \in {"PBR", "Custom"} -> "attributes"
    [] format = "None" -> "empty"

\* The external layout when one is given, else the pipeline's own.
ActiveLayout(s) == IF attr[s].external THEN Bindless ELSE own[s]["layout"]

\* LayoutHandle and IsMeshPipeline, what drawing binds and chooses by.
LayoutHandle(s) == IF attr[s].external THEN Bindless ELSE own[s]["layout"]
IsMeshPipeline(s) == attr[s].format = "Mesh"

Blank == [points |-> Null, depth |-> FALSE, external |-> FALSE, format |-> "None",
          layout |-> Null, input |-> "absent", data |-> FALSE, persistent |-> FALSE]

\* The arguments of a constructor that later behaviour depends on.
Arguments ==
  CASE class = "buffer"  -> {[Blank EXCEPT !.persistent = p] : p \in BOOLEAN}
    [] class = "subpass" -> {[Blank EXCEPT !.depth = d] : d \in BOOLEAN}
    [] class = "pipeline" -> {[Blank EXCEPT !.external = x.external, !.format = x.format] :
                               x \in [external : BOOLEAN, format : {"PBR", "None", "Mesh"}]}
    [] OTHER -> {Blank}

\* The pointers into the object: a shader's entry point name, a sub-pass's
\* depth attachment.
HomePointers(a, s) ==
  IF class = "shader" \/ a.depth THEN [a EXCEPT !.points = s] ELSE a

----------------------------------------------------------------------------
(* Handles come and go.                                                     *)

Empty == [f \in Fields |-> Null]
HandlesIn(s, fields) == {own[s][f] : f \in fields} \ {Null}

\* The API destroys handles.  Memory the allocator was asked to keep mapped goes
\* with its buffer; what Map has mapped nobody unmaps on this way.
Release(s, handles) ==
  /\ live' = live \ handles
  /\ mapped' = IF attr[s].persistent THEN mapped \ handles ELSE mapped

\* The allocator maps the memory of a buffer it is asked to keep mapped.
MappedOnCreation(s, h) == IF attr[s].persistent THEN {h} ELSE {}

Taken(s, fields) == [f \in Fields |-> IF f \in fields THEN Null ELSE own[s][f]]

\* What the members are once another object has taken them over.
Handed(a) == [a EXCEPT !.external = FALSE, !.data = FALSE]

----------------------------------------------------------------------------
Init ==
  /\ class \in Classes
  /\ stage = [s \in Slots |-> "absent"]
  /\ steps = [s \in Slots |-> <<>>]
  /\ done = [s \in Slots |-> 0]
  /\ own = [s \in Slots |-> Empty]
  /\ attr = [s \in Slots |-> Blank]
  /\ live = {}
  /\ mapped = {}
  /\ moved = FALSE

Construct(s) ==
  /\ stage[s] = "absent"
  /\ stage' = [stage EXCEPT ![s] = "building"]
  /\ \E c \in Constructors[class] : steps' = [steps EXCEPT ![s] = c]
  /\ \E a \in Arguments : attr' = [attr EXCEPT ![s] = a]
  /\ UNCHANGED <<class, done, own, live, mapped, moved>>

NextStep(s) == steps[s][done[s] + 1]
MoreSteps(s) == stage[s] = "building" /\ done[s] < Len(steps[s])

\* A step succeeds: the handle it made is the object's, whatever was known of an
\* earlier one of that name.
Create(s) ==
  /\ MoreSteps(s)
  /\ done' = [done EXCEPT ![s] = @ + 1]
  /\ IF NextStep(s).field = "none"
     THEN UNCHANGED <<own, live, mapped>>
     ELSE \E h \in Returned(live) :
            /\ own' = [own EXCEPT ![s][NextStep(s).field] = h]
            /\ live' = live \cup {h}
            /\ mapped' = (mapped \ {h}) \cup MappedOnCreation(s, h)
  /\ UNCHANGED <<class, stage, steps, attr, moved>>

\* A step the constructor tolerates fails.
GoWithout(s) ==
  /\ MoreSteps(s) /\ ~NextStep(s).throws
  /\ done' = [done EXCEPT ![s] = @ + 1]
  /\ UNCHANGED <<class, stage, steps, own, attr, live, mapped, moved>>

\* A step throws: the members made so far are destroyed, and nothing else.
Throw(s) ==
  /\ MoreSteps(s) /\ NextStep(s).throws
  /\ Release(s, HandlesIn(s, {steps[s][i].field : i \in {j \in 1..done[s] : steps[s][j].member}}
                               \cap Fields))
  /\ stage' = [stage EXCEPT ![s] = "absent"]
  /\ own' = [own EXCEPT ![s] = Empty]
  /\ attr' = [attr EXCEPT ![s] = Blank]
  /\ steps' = [steps EXCEPT ![s] = <<>>]
  /\ done' = [done EXCEPT ![s] = 0]
  /\ UNCHANGED <<class, moved>>

FinishConstruction(s) ==
  /\ stage[s] = "building" /\ done[s] = Len(steps[s])
  /\ stage' = [stage EXCEPT ![s] = "alive"]
  /\ attr' = [attr EXCEPT ![s] =
                [HomePointers(@, s) EXCEPT
                   !.layout = IF class = "pipeline" THEN ActiveLayout(s) ELSE Null,
                   !.input = VertexInput(attr[s].format),
                   !.data = attr[s].persistent]]
  /\ steps' = [steps EXCEPT ![s] = <<>>]
  /\ done' = [done EXCEPT ![s] = 0]
  /\ UNCHANGED <<class, own, live, mapped, moved>>

----------------------------------------------------------------------------
Repointed(a, s) == IF Members[class].repoints THEN HomePointers(a, s) ELSE a

MoveConstruct(to, from) ==
  /\ stage[to] = "absent" /\ stage[from] = "alive"
  /\ stage' = [stage EXCEPT ![to] = "alive", ![from] = "hollow"]
  /\ own' = [own EXCEPT ![to] = own[from], ![from] = Taken(from, Members[class].nulls)]
  /\ attr' = [attr EXCEPT ![to] = Repointed(attr[from], to), ![from] = Handed(@)]
  /\ moved' = (moved \/ class = "command")
  /\ UNCHANGED <<class, steps, done, live, mapped>>

\* Moving an object onto itself changes nothing.
MoveAssign(to, from) ==
  /\ to # from
  /\ stage[to] \in {"alive", "hollow"} /\ stage[from] = "alive"
  /\ Release(to, HandlesIn(to, Members[class].drops))
  /\ stage' = [stage EXCEPT ![to] = "alive", ![from] = "hollow"]
  /\ own' = [own EXCEPT ![to] = own[from], ![from] = Taken(from, Members[class].clears)]
  /\ attr' = [attr EXCEPT ![to] = Repointed(attr[from], to), ![from] = Handed(@)]
  /\ moved' = (moved \/ class = "command")
  /\ UNCHANGED <<class, steps, done>>

\* Only sub-passes can be copied.
CopyConstruct(to, from) ==
  /\ class = "subpass"
  /\ stage[to] = "absent" /\ stage[from] = "alive"
  /\ stage' = [stage EXCEPT ![to] = "alive"]
  /\ attr' = [attr EXCEPT ![to] = Repointed(attr[from], to)]
  /\ UNCHANGED <<class, steps, done, own, live, mapped, moved>>

CopyAssign(to, from) ==
  /\ class = "subpass" /\ to # from
  /\ stage[to] \in {"alive", "hollow"} /\ stage[from] = "alive"
  /\ stage' = [stage EXCEPT ![to] = "alive"]
  /\ attr' = [attr EXCEPT ![to] = Repointed(attr[from], to)]
  /\ UNCHANGED <<class, steps, done, own, live, mapped, moved>>

Destroy(s) ==
  /\ stage[s] \in {"alive", "hollow"}
  /\ Release(s, HandlesIn(s, Members[class].frees))
  /\ stage' = [stage EXCEPT ![s] = "absent"]
  /\ own' = [own EXCEPT ![s] = Empty]
  /\ attr' = [attr EXCEPT ![s] = Blank]
  /\ UNCHANGED <<class, steps, done, moved>>

----------------------------------------------------------------------------
(* Mapping a buffer that is mapped, or unmapping one that is not, is no     *)
(* call to the allocator; one that fails changes nothing.                   *)

Map(s) ==
  /\ class = "buffer" /\ stage[s] = "alive" /\ ~attr[s].data
  /\ mapped' = mapped \cup {own[s]["buffer"]}
  /\ attr' = [attr EXCEPT ![s].data = TRUE]
  /\ UNCHANGED <<class, stage, steps, done, own, live, moved>>

\* Mutant: the buffer keeps the span it had mapped.
UnmapKept(s) ==
  /\ class = "buffer" /\ stage[s] = "alive" /\ ~attr[s].persistent /\ attr[s].data
  /\ mapped' = mapped \ {own[s]["buffer"]}
  /\ UNCHANGED <<class, stage, steps, done, own, attr, live, moved>>

Unmap(s) ==
  /\ class = "buffer" /\ stage[s] = "alive" /\ ~attr[s].persistent /\ attr[s].data
  /\ mapped' = mapped \ {own[s]["buffer"]}
  /\ attr' = [attr EXCEPT ![s].data = FALSE]
  /\ UNCHANGED <<class, stage, steps, done, own, live, moved>>

Next ==
  \/ \E s \in Slots : \/ Construct(s) \/ Create(s) \/ GoWithout(s) \/ Throw(s)
                      \/ FinishConstruction(s) \/ Destroy(s) \/ Map(s) \/ Unmap(s)
  \/ \E to, from \in Slots : \/ MoveConstruct(to, from) \/ MoveAssign(to, from)
                             \/ CopyConstruct(to, from) \/ CopyAssign(to, from)

Spec == Init /\ [][Next]_vars

----------------------------------------------------------------------------
Attributes ==
  [points : Slots \cup {Null}, depth : BOOLEAN, external : BOOLEAN,
   format : {"PBR", "Custom", "None", "Mesh"}, layout : Handles \cup {Null, Bindless},
   input : {"absent", "attributes", "empty"}, data : BOOLEAN, persistent : BOOLEAN]

TypeOK ==
  /\ class \in Classes
  /\ stage \in [Slots -> {"absent", "building", "alive", "hollow"}]
  /\ steps \in [Slots -> Constructors[class] \cup {<<>>}]
  /\ done \in [Slots -> Nat]
  /\ own \in [Slots -> [Fields -> Handles \cup {Null}]]
  /\ attr \in [Slots -> Attributes]
  /\ live \subseteq Handles /\ mapped \subseteq Handles
  /\ moved \in BOOLEAN

\* A handle in a field has not been destroyed: nothing is used or destroyed
\* after it was destroyed.
HeldIsLive == \A s \in Slots, f \in Fields : own[s][f] # Null => own[s][f] \in live

\* Two fields never hold the same handle: nothing is destroyed twice.
HeldOnce ==
  \A s1, s2 \in Slots : \A f1, f2 \in Fields :
    own[s1][f1] # Null /\ own[s1][f1] = own[s2][f2] => s1 = s2 /\ f1 = f2

\* Every live handle is in a field whose object will destroy it: nothing leaks,
\* whatever constructor throws half-way and however objects are moved.
LiveIsHeld == \A h \in live : \E s \in Slots, f \in Fields : own[s][f] = h

OnlyOwned == HeldIsLive /\ HeldOnce /\ LiveIsHeld

\* Each handle is owned once: the special members and the constructors of the
\* classes above, in every order a program may run them, neither leak a handle
\* nor destroy one twice.  For command buffers this is so only as long as none is
\* moved (vulkan_command_buffer.ixx:20,23): a frame holds one and has defaulted
\* moves of its own (vulkan_raster_backend.ixx:138-148), the backend grows its
\* frames while they hold none (:1232,1240), and no caller moves one.
OwnedOnce == ~moved => OnlyOwned

\* A move or a copy keeps an object whole: its pointers lead into itself and not
\* into the object it was made from (vulkan_shader.cpp:99, vulkan_sub_pass.cpp:81),
\* and a pipeline is drawn with the layout and the kind it was created with
\* (vulkan_pipeline.cpp:219, vulkan_pipeline.ixx:203).
KeptWhole ==
  \A s \in Slots : stage[s] = "alive" =>
    /\ attr[s].points = IF class = "shader" \/ attr[s].depth THEN s ELSE Null
    /\ class = "pipeline" => /\ LayoutHandle(s) = attr[s].layout
                             /\ IsMeshPipeline(s) <=> attr[s].input = "absent"

\* A buffer believes its memory mapped exactly when the allocator holds it
\* mapped, through moves and through memory kept mapped for its whole life
\* (vulkan_buffer.cpp:67-98): no span leads into unmapped memory, and memory is
\* not unmapped twice.  (That a buffer is unmapped before it goes is its owner's
\* business: neither the destructor nor a move assignment sees to it.)
MappedAgree ==
  class = "buffer" =>
    \A s \in Slots : stage[s] = "alive" => (attr[s].data <=> own[s]["buffer"] \in mapped)
=============================================================================

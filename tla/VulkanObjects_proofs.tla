------------------------- MODULE VulkanObjects_proofs -------------------------
(* Every handle of a Vulkan object is owned once, and what an object believes *)
(* of itself stays true (the mapping of buffers, the pointers into shaders    *)
(* and sub-passes, the layout and kind of pipelines), for any number of       *)
(* objects and whatever handles the API returns.                              *)
EXTENDS VulkanObjects, TLAPS

Step == [field : Fields \cup {"none"}, member : BOOLEAN, throws : BOOLEAN]

\* A constructor each step of which fills a field of its own, one that is freed,
\* and where only members come before a step that may throw.
WellFormed(c, frees) ==
  /\ c \in Seq(Step)
  /\ \A i \in 1..Len(c) : c[i].field # "none" => c[i].field \in frees
  /\ \A i, j \in 1..Len(c) : i # j /\ c[i].field # "none" => c[i].field # c[j].field
  /\ \A i, j \in 1..Len(c) : i < j /\ c[j].throws => c[i].member

LEMMA SingleStep ==
  ASSUME NEW f \in Fields, NEW frees, f \in frees
  PROVE  WellFormed(<<Body(f)>>, frees)
<1> DEFINE c == <<Body(f)>>
<1>1. Len(c) = 1 /\ c[1] = Body(f) /\ Body(f) \in Step
  BY DEF Body, Step
<1>2. c \in Seq(Step)
  BY <1>1
<1> QED
  BY <1>1, <1>2 DEF WellFormed, Body

LEMMA TwoSteps ==
  ASSUME NEW a \in Step, NEW b \in Step, NEW frees,
         a.field \in frees \cup {"none"}, b.field \in frees \cup {"none"},
         a.field # b.field, b.throws => a.member
  PROVE  WellFormed(<<a, b>>, frees)
<1> DEFINE c == <<a, b>>
<1>1. Len(c) = 2 /\ c[1] = a /\ c[2] = b /\ c \in Seq(Step)
  OBVIOUS
<1> HIDE DEF c
<1>2. 1..2 = {1, 2}
  OBVIOUS
<1> QED
  BY <1>1, <1>2 DEF WellFormed

\* What the constructors of a class have in common.
LEMMA StepFacts ==
  ASSUME NEW k \in Classes, NEW c \in Constructors[k]
  PROVE  WellFormed(c, Members[k].frees)
<1>1. CASE k = "allocator"
  <2>1. Constructors[k] = {<<Body("allocator")>>}
    BY <1>1 DEF Constructors, AllocatorSteps
  <2>2. Members[k].frees = {"allocator"}
    BY <1>1 DEF Members, AllocatorMembers, Raii
  <2> QED
    BY <2>1, <2>2, SingleStep DEF Fields
<1>2. CASE k = "buffer"
  <2>1. Constructors[k] = {<<Body("buffer")>>}
    BY <1>2 DEF Constructors, BufferSteps
  <2>2. Members[k].frees = {"buffer"}
    BY <1>2 DEF Members, BufferMembers, Raii
  <2> QED
    BY <2>1, <2>2, SingleStep DEF Fields
<1>3. CASE k = "cache"
  <2>1. Constructors[k] = {<<Body("cache")>>}
    BY <1>3 DEF Constructors, PipelineCacheSteps
  <2>2. Members[k].frees = {"cache"}
    BY <1>3 DEF Members, PipelineCacheMembers, Raii
  <2> QED
    BY <2>1, <2>2, SingleStep DEF Fields
<1>4. CASE k = "layout"
  <2>1. Constructors[k] = {<<Body("layout")>>}
    BY <1>4 DEF Constructors, PipelineLayoutSteps
  <2>2. Members[k].frees = {"layout"}
    BY <1>4 DEF Members, PipelineLayoutMembers, Raii
  <2> QED
    BY <2>1, <2>2, SingleStep DEF Fields
<1>5. CASE k = "semaphore"
  <2>1. Constructors[k] = {<<Body("semaphore")>>}
    BY <1>5 DEF Constructors, SemaphoreSteps
  <2>2. Members[k].frees = {"semaphore"}
    BY <1>5 DEF Members, SemaphoreMembers, Raii
  <2> QED
    BY <2>1, <2>2, SingleStep DEF Fields
<1>6. CASE k = "timeline"
  <2>1. Constructors[k] = {<<Body("timeline")>>}
    BY <1>6 DEF Constructors, TimelineSteps
  <2>2. Members[k].frees = {"timeline"}
    BY <1>6 DEF Members, TimelineMembers, Raii
  <2> QED
    BY <2>1, <2>2, SingleStep DEF Fields
<1>7. CASE k = "fence"
  <2>1. Constructors[k] = {<<Body("fence")>>}
    BY <1>7 DEF Constructors, FenceSteps
  <2>2. Members[k].frees = {"fence"}
    BY <1>7 DEF Members, FenceMembers, Raii
  <2> QED
    BY <2>1, <2>2, SingleStep DEF Fields
<1>8. CASE k = "command"
  <2>1. Constructors[k] = {<<Body("command")>>}
    BY <1>8 DEF Constructors, CommandBufferSteps
  <2>2. Members[k].frees = {"command"}
    BY <1>8 DEF Members, CommandBufferMembers, Raii
  <2> QED
    BY <2>1, <2>2, SingleStep DEF Fields
<1>9. CASE k = "shader"
  <2>1. Constructors[k] = {<<Check, Body("module")>>, <<Body("module")>>}
    BY <1>9 DEF Constructors, ShaderSteps, ShaderFromFile, ShaderFromBytes
  <2>2. Members[k].frees = {"module"}
    BY <1>9 DEF Members, ShaderMembers, Raii
  <2>3. WellFormed(<<Check, Body("module")>>, {"module"})
    <3>1. /\ Check \in Step /\ Body("module") \in Step
          /\ Check.field = "none" /\ Body("module").field = "module" /\ Check.member
      BY DEF Check, Body, Step, Fields
    <3> QED
      BY <3>1, TwoSteps
  <2>4. WellFormed(<<Body("module")>>, {"module"})
    BY SingleStep DEF Fields
  <2> QED
    BY <2>1, <2>2, <2>3, <2>4
<1>10. CASE k = "subpass"
  <2>1. c = <<>>
    BY <1>10 DEF Constructors, SubPassSteps
  <2> QED
    BY <2>1 DEF WellFormed
<1>11. CASE k = "pipeline"
  <2>1. c = <<Member("cache"), Member("layout"), Body("pipeline")>>
    BY <1>11 DEF Constructors, PipelineSteps
  <2>2. Members[k].frees = {"cache", "layout", "pipeline"}
    BY <1>11 DEF Members, PipelineMembers, Raii
  <2>3. Member("cache") \in Step /\ Member("layout") \in Step /\ Body("pipeline") \in Step
    BY DEF Member, Body, Step, Fields
  <2>4. /\ c \in Seq(Step) /\ Len(c) = 3
        /\ c[1] = Member("cache") /\ c[2] = Member("layout") /\ c[3] = Body("pipeline")
    BY <2>1, <2>3
  <2>5. 1..3 = {1, 2, 3}
    OBVIOUS
  <2>6. /\ c[1].field = "cache" /\ c[2].field = "layout" /\ c[3].field = "pipeline"
        /\ c[1].member /\ c[2].member
    BY <2>4 DEF Member, Body
  <2> QED
    BY <2>2, <2>4, <2>5, <2>6 DEF WellFormed
<1>12. CASE k = "instance"
  <2>1. c = <<Body("instance"), Tolerant("messenger")>>
    BY <1>12 DEF Constructors, InstanceSteps
  <2>2. Members[k].frees = {"instance", "messenger"}
    BY <1>12 DEF Members, InstanceMembers, Raii
  <2>3. /\ Body("instance") \in Step /\ Tolerant("messenger") \in Step
        /\ Body("instance").field = "instance" /\ Tolerant("messenger").field = "messenger"
        /\ ~Tolerant("messenger").throws
    BY DEF Body, Tolerant, Step, Fields
  <2>4. WellFormed(<<Body("instance"), Tolerant("messenger")>>, {"instance", "messenger"})
    BY <2>3, TwoSteps
  <2> QED
    BY <2>1, <2>2, <2>4
<1>13. CASE k = "renderpass"
  <2>1. Constructors[k] = {<<Body("renderpass")>>}
    BY <1>13 DEF Constructors, RenderPassSteps
  <2>2. Members[k].frees = {"renderpass"}
    BY <1>13 DEF Members, RenderPassMembers, Raii
  <2> QED
    BY <2>1, <2>2, SingleStep DEF Fields
<1>14. CASE k = "framebuffer"
  <2>1. Constructors[k] = {<<Body("framebuffer")>>}
    BY <1>14 DEF Constructors, FrameBufferSteps
  <2>2. Members[k].frees = {"framebuffer"}
    BY <1>14 DEF Members, FrameBufferMembers, Raii
  <2> QED
    BY <2>1, <2>2, SingleStep DEF Fields
<1>15. CASE k = "swapchain"
  <2>1. c = <<Check, Member("swapchain"), Check, Member("firstview"), Member("secondview")>>
    BY <1>15 DEF Constructors, SwapChainSteps
  <2>2. Members[k].frees = {"swapchain", "firstview", "secondview"}
    BY <1>15 DEF Members, SwapChainMembers, Raii
  <2>3. /\ Check \in Step /\ Member("swapchain") \in Step
        /\ Member("firstview") \in Step /\ Member("secondview") \in Step
    BY DEF Check, Member, Step, Fields
  <2>4. /\ c \in Seq(Step) /\ Len(c) = 5
        /\ c[1] = Check /\ c[2] = Member("swapchain") /\ c[3] = Check
        /\ c[4] = Member("firstview") /\ c[5] = Member("secondview")
    BY <2>1, <2>3
  <2>5. 1..5 = {1, 2, 3, 4, 5}
    OBVIOUS
  <2>6. /\ c[1].field = "none" /\ c[2].field = "swapchain" /\ c[3].field = "none"
        /\ c[4].field = "firstview" /\ c[5].field = "secondview"
        /\ c[1].member /\ c[2].member /\ c[3].member /\ c[4].member /\ c[5].member
    BY <2>4 DEF Check, Member
  <2> HIDE DEF Step
  <2>7. \A i \in 1..Len(c) : c[i].member /\ (c[i].field # "none" => c[i].field \in Members[k].frees)
    BY <2>2, <2>4, <2>5, <2>6
  <2>8. \A i, j \in 1..Len(c) : i # j /\ c[i].field # "none" => c[i].field # c[j].field
    BY <2>4, <2>5, <2>6
  <2> QED
    BY <2>4, <2>7, <2>8 DEF WellFormed
<1> QED
  BY <1>1, <1>2, <1>3, <1>4, <1>5, <1>6, <1>7, <1>8, <1>9, <1>10, <1>11, <1>12, <1>13, <1>14,
     <1>15 DEF Classes

\* All but command buffers hand on and drop exactly what their destructors free.
LEMMA MemberFacts ==
  ASSUME NEW k \in Classes, k # "command"
  PROVE  /\ Members[k].nulls = Members[k].frees
         /\ Members[k].drops = Members[k].frees
         /\ Members[k].clears = Members[k].frees
<1>1. CASE k = "allocator"
  BY <1>1 DEF Members, AllocatorMembers, Raii
<1>2. CASE k = "buffer"
  BY <1>2 DEF Members, BufferMembers, Raii
<1>3. CASE k = "cache"
  BY <1>3 DEF Members, PipelineCacheMembers, Raii
<1>4. CASE k = "layout"
  BY <1>4 DEF Members, PipelineLayoutMembers, Raii
<1>5. CASE k = "semaphore"
  BY <1>5 DEF Members, SemaphoreMembers, Raii
<1>6. CASE k = "timeline"
  BY <1>6 DEF Members, TimelineMembers, Raii
<1>7. CASE k = "fence"
  BY <1>7 DEF Members, FenceMembers, Raii
<1>8. CASE k = "shader"
  BY <1>8 DEF Members, ShaderMembers, Raii
<1>9. CASE k = "subpass"
  BY <1>9 DEF Members, SubPassMembers, Raii
<1>10. CASE k = "pipeline"
  BY <1>10 DEF Members, PipelineMembers, Raii
<1>11. CASE k = "instance"
  BY <1>11 DEF Members, InstanceMembers, Raii
<1>12. CASE k = "renderpass"
  BY <1>12 DEF Members, RenderPassMembers, Raii
<1>13. CASE k = "framebuffer"
  BY <1>13 DEF Members, FrameBufferMembers, Raii
<1>14. CASE k = "swapchain"
  BY <1>14 DEF Members, SwapChainMembers, Raii
<1> QED
  BY <1>1, <1>2, <1>3, <1>4, <1>5, <1>6, <1>7, <1>8, <1>9, <1>10, <1>11, <1>12, <1>13, <1>14
  DEF Classes

LEMMA FreesAreFields ==
  ASSUME NEW k \in Classes
  PROVE  Members[k].frees \subseteq Fields
<1>1. CASE k = "allocator"
  BY <1>1 DEF Members, AllocatorMembers, Raii, Fields
<1>2. CASE k = "buffer"
  BY <1>2 DEF Members, BufferMembers, Raii, Fields
<1>3. CASE k = "shader"
  BY <1>3 DEF Members, ShaderMembers, Raii, Fields
<1>4. CASE k = "subpass"
  BY <1>4 DEF Members, SubPassMembers, Raii, Fields
<1>5. CASE k = "pipeline"
  BY <1>5 DEF Members, PipelineMembers, Raii, Fields
<1>6. CASE k = "cache"
  BY <1>6 DEF Members, PipelineCacheMembers, Raii, Fields
<1>7. CASE k = "layout"
  BY <1>7 DEF Members, PipelineLayoutMembers, Raii, Fields
<1>8. CASE k = "semaphore"
  BY <1>8 DEF Members, SemaphoreMembers, Raii, Fields
<1>9. CASE k = "timeline"
  BY <1>9 DEF Members, TimelineMembers, Raii, Fields
<1>10. CASE k = "fence"
  BY <1>10 DEF Members, FenceMembers, Raii, Fields
<1>11. CASE k = "instance"
  BY <1>11 DEF Members, InstanceMembers, Raii, Fields
<1>12. CASE k = "command"
  BY <1>12 DEF Members, CommandBufferMembers, Raii, Fields
<1>13. CASE k = "renderpass"
  BY <1>13 DEF Members, RenderPassMembers, Raii, Fields
<1>14. CASE k = "framebuffer"
  BY <1>14 DEF Members, FrameBufferMembers, Raii, Fields
<1>15. CASE k = "swapchain"
  BY <1>15 DEF Members, SwapChainMembers, Raii, Fields
<1> QED
  BY <1>1, <1>2, <1>3, <1>4, <1>5, <1>6, <1>7, <1>8, <1>9, <1>10, <1>11, <1>12, <1>13, <1>14,
     <1>15 DEF Classes

-----------------------------------------------------------------------------
(* How the steps of a program change what is owned.                          *)

OwnType == own \in [Slots -> [Fields -> Handles \cup {Null}]]
Held(s) == {f \in Fields : own[s][f] # Null}

LEMMA Unowned == OnlyOwned /\ UNCHANGED <<own, live>> => OnlyOwned'
  BY DEF OnlyOwned, HeldIsLive, HeldOnce, LiveIsHeld

\* A new handle goes into an empty field.
LEMMA Added ==
  ASSUME OwnType, OnlyOwned, live \subseteq Handles,
         NEW s \in Slots, NEW f \in Fields, own[s][f] = Null,
         NEW h \in Handles, h \notin live,
         own' = [own EXCEPT ![s][f] = h], live' = live \cup {h}
  PROVE  OnlyOwned'
<1>1. \A r \in Slots, g \in Fields :
        own'[r][g] = IF r = s /\ g = f THEN h ELSE own[r][g]
  BY DEF OwnType
<1>2. h # Null
  BY ObjectsAssumption
<1>3. HeldIsLive'
  BY <1>1 DEF OnlyOwned, HeldIsLive
<1>4. HeldOnce'
  BY <1>1, <1>2 DEF OnlyOwned, HeldOnce, HeldIsLive
<1>5. LiveIsHeld'
  <2>1. own'[s][f] = h
    BY <1>1
  <2>2. \A k \in live : \E r \in Slots, g \in Fields : own'[r][g] = k
    <3>1. SUFFICES ASSUME NEW k \in live
                   PROVE  \E r \in Slots, g \in Fields : own'[r][g] = k
      OBVIOUS
    <3>2. PICK r \in Slots, g \in Fields : own[r][g] = k
      BY DEF OnlyOwned, LiveIsHeld
    <3>3. k # Null
      BY ObjectsAssumption
    <3>4. own'[r][g] = k
      BY <1>1, <3>2, <3>3
    <3> QED
      BY <3>4
  <2> QED
    BY <2>1, <2>2 DEF LiveIsHeld
<1> QED
  BY <1>3, <1>4, <1>5 DEF OnlyOwned

\* An object is gone, and with it every handle it held.
LEMMA Emptied ==
  ASSUME OwnType, OnlyOwned, live \subseteq Handles,
         NEW s \in Slots, NEW G \in SUBSET Fields, Held(s) \subseteq G,
         own' = [own EXCEPT ![s] = Empty], live' = live \ HandlesIn(s, G)
  PROVE  OnlyOwned'
<1>1. \A r \in Slots, g \in Fields :
        own'[r][g] = IF r = s THEN Null ELSE own[r][g]
  BY DEF OwnType, Empty
<1>2. \A h \in HandlesIn(s, G) : \E g \in Fields : own[s][g] = h /\ h # Null
  BY DEF HandlesIn
<1>3. \A g \in Fields : own[s][g] # Null => own[s][g] \in HandlesIn(s, G)
  BY DEF HandlesIn, Held
<1>4. HeldIsLive'
  BY <1>1, <1>2 DEF OnlyOwned, HeldIsLive, HeldOnce
<1>5. HeldOnce'
  BY <1>1 DEF OnlyOwned, HeldOnce
<1>6. LiveIsHeld'
  <2>1. SUFFICES ASSUME NEW k \in live, k \notin HandlesIn(s, G)
                 PROVE  \E r \in Slots, g \in Fields : own'[r][g] = k
    BY DEF LiveIsHeld
  <2>2. PICK r \in Slots, g \in Fields : own[r][g] = k
    BY DEF OnlyOwned, LiveIsHeld
  <2>3. r # s
    BY <1>3, <2>1, <2>2, ObjectsAssumption
  <2>4. own'[r][g] = k
    BY <1>1, <2>2, <2>3
  <2> QED
    BY <2>4
<1> QED
  BY <1>4, <1>5, <1>6 DEF OnlyOwned

\* An object takes over another's handles after giving up its own.
LEMMA HandedOn ==
  ASSUME OwnType, OnlyOwned, live \subseteq Handles,
         NEW to \in Slots, NEW from \in Slots, to # from,
         NEW F, Held(from) \subseteq F,
         NEW G \in SUBSET Fields, Held(to) \subseteq G,
         own' = [own EXCEPT ![to] = own[from], ![from] = Taken(from, F)],
         live' = live \ HandlesIn(to, G)
  PROVE  OnlyOwned'
<1>1. \A r \in Slots, g \in Fields :
        own'[r][g] = IF r = from THEN Null ELSE IF r = to THEN own[from][g] ELSE own[r][g]
  BY DEF OwnType, Taken, Held
<1>2. \A h \in HandlesIn(to, G) : \E g \in Fields : own[to][g] = h /\ h # Null
  BY DEF HandlesIn
<1>3. \A g \in Fields : own[to][g] # Null => own[to][g] \in HandlesIn(to, G)
  BY DEF HandlesIn, Held
<1>4. HeldIsLive'
  <2>1. SUFFICES ASSUME NEW r \in Slots, NEW g \in Fields, own'[r][g] # Null
                 PROVE  own'[r][g] \in live'
    BY DEF HeldIsLive
  <2>2. \E q \in Slots : q # to /\ own'[r][g] = own[q][g]
    <3>1. CASE r = to
      BY <1>1, <2>1, <3>1
    <3>2. CASE r # to
      <4>1. own'[r][g] = own[r][g]
        BY <1>1, <2>1, <3>2
      <4> QED
        BY <3>2, <4>1
    <3> QED
      BY <3>1, <3>2
  <2> PICK q \in Slots : q # to /\ own'[r][g] = own[q][g]
    BY <2>2
  <2>3. own[q][g] \in live
    BY <2>1, <2>2 DEF OnlyOwned, HeldIsLive
  <2>4. own[q][g] \notin HandlesIn(to, G)
    BY <1>2, <2>2 DEF OnlyOwned, HeldOnce
  <2> QED
    BY <2>2, <2>3, <2>4
<1>5. HeldOnce'
  BY <1>1 DEF OnlyOwned, HeldOnce
<1>6. LiveIsHeld'
  <2>1. SUFFICES ASSUME NEW k \in live, k \notin HandlesIn(to, G)
                 PROVE  \E r \in Slots, g \in Fields : own'[r][g] = k
    BY DEF LiveIsHeld
  <2>2. PICK r \in Slots, g \in Fields : own[r][g] = k
    BY DEF OnlyOwned, LiveIsHeld
  <2>3. r # to
    BY <1>3, <2>1, <2>2, ObjectsAssumption
  <2>4. CASE r = from
    <3>1. own'[to][g] = k
      BY <1>1, <2>2, <2>4
    <3> QED
      BY <3>1
  <2>5. CASE r # from
    <3>1. own'[r][g] = k
      BY <1>1, <2>2, <2>3, <2>5
    <3> QED
      BY <3>1
  <2> QED
    BY <2>4, <2>5
<1> QED
  BY <1>4, <1>5, <1>6 DEF OnlyOwned

-----------------------------------------------------------------------------
(* The inductive invariant.                                                  *)

\* An object holds what its constructor has made so far, or what its destructor
\* will free, or nothing.
StageInv ==
  \A s \in Slots :
    /\ stage[s] = "absent" => Held(s) = {} /\ done[s] = 0
    /\ stage[s] = "building" =>
         /\ steps[s] \in Constructors[class]
         /\ done[s] <= Len(steps[s])
         /\ \A f \in Held(s) : \E i \in 1..done[s] : steps[s][i].field = f
    /\ stage[s] \in {"alive", "hollow"} => Held(s) \subseteq Members[class].frees /\ done[s] = 0

\* A buffer that is constructed, or is about to be, has one.
BufferInv ==
  class = "buffer" =>
    \A s \in Slots : stage[s] = "alive" \/ (stage[s] = "building" /\ done[s] # 0)
                       => own[s]["buffer"] # Null

HoldsInv == StageInv /\ BufferInv /\ OnlyOwned
OwnershipInv == TypeOK /\ HoldsInv

\* From the first move of a command buffer nothing is said of what is held.
ObjectsInv ==
  /\ TypeOK
  /\ moved => class = "command"
  /\ moved \/ HoldsInv

LEMMA InitOwned == Init => OwnershipInv /\ ~moved
<1> SUFFICES ASSUME Init PROVE OwnershipInv /\ ~moved
  OBVIOUS
<1>1. \A s \in Slots, f \in Fields : own[s][f] = Null
  BY DEF Init, Empty
<1>2. TypeOK
  <2>1. own \in [Slots -> [Fields -> Handles \cup {Null}]]
    BY DEF Init, Empty
  <2>2. Blank \in Attributes
    BY DEF Blank, Attributes
  <2> QED
    BY <2>1, <2>2 DEF Init, TypeOK
<1>3. StageInv
  BY <1>1 DEF Init, StageInv, Held
<1>4. BufferInv
  BY DEF Init, BufferInv
<1>5. OnlyOwned
  BY <1>1 DEF Init, OnlyOwned, HeldIsLive, HeldOnce, LiveIsHeld
<1> QED
  BY <1>2, <1>3, <1>4, <1>5 DEF OwnershipInv, HoldsInv, Init

LEMMA ArgumentTypes == Arguments \subseteq Attributes
<1>1. Blank \in Attributes
  BY DEF Blank, Attributes
<1>2. \A p \in BOOLEAN : [Blank EXCEPT !.persistent = p] \in Attributes
  BY <1>1 DEF Attributes
<1>3. \A d \in BOOLEAN : [Blank EXCEPT !.depth = d] \in Attributes
  BY <1>1 DEF Attributes
<1>4. \A x \in [external : BOOLEAN, format : {"PBR", "None", "Mesh"}] :
        [Blank EXCEPT !.external = x.external, !.format = x.format] \in Attributes
  BY <1>1 DEF Attributes
<1>5. CASE class = "buffer"
  BY <1>2, <1>5 DEF Arguments
<1>6. CASE class = "subpass"
  BY <1>3, <1>6 DEF Arguments
<1>7. CASE class = "pipeline"
  BY <1>4, <1>7 DEF Arguments
<1>8. CASE class # "buffer" /\ class # "subpass" /\ class # "pipeline"
  <2>1. Arguments = {Blank}
    BY <1>8 DEF Arguments
  <2> QED
    BY <1>1, <2>1
<1> QED
  BY <1>5, <1>6, <1>7, <1>8

-----------------------------------------------------------------------------
(* The variables keep their types, whatever is moved.                        *)

LEMMA ConstructTyped ==
  ASSUME TypeOK, NEW s \in Slots, Construct(s)
  PROVE  TypeOK'
<1>1. PICK c \in Constructors[class] : steps' = [steps EXCEPT ![s] = c]
  BY DEF Construct
<1>2. PICK a \in Arguments : attr' = [attr EXCEPT ![s] = a]
  BY DEF Construct
<1>3. attr' \in [Slots -> Attributes]
  BY <1>2, ArgumentTypes DEF TypeOK
<1>4. steps' \in [Slots -> Constructors[class] \cup {<<>>}]
  BY <1>1 DEF TypeOK
<1> QED
  BY <1>3, <1>4 DEF Construct, TypeOK

\* The step a constructor takes next, in a constructor that is under way.
LEMMA NextStepTyped ==
  ASSUME TypeOK, NEW s \in Slots, MoreSteps(s)
  PROVE  /\ WellFormed(steps[s], Members[class].frees)
         /\ done[s] \in Nat /\ Len(steps[s]) \in Nat /\ done[s] + 1 \in 1..Len(steps[s])
         /\ NextStep(s) \in Step
<1>1. done[s] \in Nat /\ class \in Classes
  BY DEF TypeOK
<1>2. steps[s] # <<>>
  BY <1>1 DEF MoreSteps
<1>3. steps[s] \in Constructors[class]
  BY <1>2 DEF TypeOK
<1>4. WellFormed(steps[s], Members[class].frees)
  BY <1>1, <1>3, StepFacts
<1>5. steps[s] \in Seq(Step)
  BY <1>4 DEF WellFormed
<1>6. done[s] + 1 \in 1..Len(steps[s])
  BY <1>1, <1>5 DEF MoreSteps
<1> QED
  BY <1>1, <1>4, <1>5, <1>6 DEF NextStep

LEMMA CreateTyped ==
  ASSUME TypeOK, NEW s \in Slots, Create(s)
  PROVE  TypeOK'
<1> DEFINE n == NextStep(s).field
<1>1. done[s] \in Nat /\ NextStep(s) \in Step
  BY NextStepTyped DEF Create
<1>2. UNCHANGED <<class, stage, steps, attr, moved>> /\ done' \in [Slots -> Nat]
  BY <1>1 DEF Create, TypeOK
<1>3. CASE n = "none"
  BY <1>2, <1>3 DEF Create, TypeOK
<1>4. CASE n # "none"
  <2>1. PICK h \in Returned(live) :
          /\ own' = [own EXCEPT ![s][n] = h]
          /\ live' = live \cup {h}
          /\ mapped' = (mapped \ {h}) \cup MappedOnCreation(s, h)
    BY <1>4 DEF Create
  <2>2. n \in Fields
    BY <1>1, <1>4 DEF Step
  <2>3. h \in Handles
    BY ObjectsAssumption DEF TypeOK
  <2>4. own' \in [Slots -> [Fields -> Handles \cup {Null}]]
    BY <2>1, <2>2, <2>3 DEF TypeOK
  <2>5. live' \subseteq Handles /\ mapped' \subseteq Handles
    BY <2>1, <2>3 DEF MappedOnCreation, TypeOK
  <2> QED
    BY <1>2, <2>4, <2>5 DEF TypeOK
<1> QED
  BY <1>3, <1>4

LEMMA FinishTyped ==
  ASSUME TypeOK, NEW s \in Slots, FinishConstruction(s)
  PROVE  TypeOK'
<1> DEFINE a == HomePointers(attr[s], s)
           l == IF class = "pipeline" THEN ActiveLayout(s) ELSE Null
           b == [a EXCEPT !.layout = l, !.input = VertexInput(attr[s].format),
                          !.data = attr[s].persistent]
<1>1. a \in Attributes
  BY DEF HomePointers, TypeOK, Attributes
<1>2. VertexInput(attr[s].format) \in {"absent", "attributes", "empty"}
  <2>1. attr[s].format \in {"PBR", "Custom", "None", "Mesh"}
    BY DEF TypeOK, Attributes
  <2> QED
    BY <2>1 DEF VertexInput
<1>3. l \in Handles \cup {Null, Bindless}
  BY DEF ActiveLayout, TypeOK, Fields
<1>4. attr[s].persistent \in BOOLEAN
  BY DEF TypeOK, Attributes
<1>5. attr' = [attr EXCEPT ![s] = b]
  BY DEF FinishConstruction
<1> HIDE DEF a, l
<1>6. b \in Attributes
  BY <1>1, <1>2, <1>3, <1>4 DEF Attributes
<1> HIDE DEF b
<1>7. attr' \in [Slots -> Attributes]
  BY <1>5, <1>6 DEF TypeOK
<1> QED
  BY <1>7 DEF FinishConstruction, TypeOK

LEMMA GoneTyped ==
  ASSUME TypeOK, NEW s \in Slots, Throw(s) \/ Destroy(s)
  PROVE  TypeOK'
<1>1. PICK H : Release(s, H)
  BY DEF Throw, Destroy
<1>2. live' \subseteq Handles /\ mapped' \subseteq Handles
  BY <1>1 DEF TypeOK, Release
<1>3. Empty \in [Fields -> Handles \cup {Null}] /\ Blank \in Attributes
  BY DEF Empty, Blank, Attributes
<1>4. /\ own' = [own EXCEPT ![s] = Empty] /\ attr' = [attr EXCEPT ![s] = Blank]
      /\ stage' = [stage EXCEPT ![s] = "absent"] /\ UNCHANGED <<class, moved>>
      /\ \/ UNCHANGED <<steps, done>>
         \/ steps' = [steps EXCEPT ![s] = <<>>] /\ done' = [done EXCEPT ![s] = 0]
  BY DEF Throw, Destroy
<1>5. own' \in [Slots -> [Fields -> Handles \cup {Null}]] /\ attr' \in [Slots -> Attributes]
  BY <1>3, <1>4 DEF TypeOK
<1>6. steps' \in [Slots -> Constructors[class] \cup {<<>>}] /\ done' \in [Slots -> Nat]
  <2>1. CASE UNCHANGED <<steps, done>>
    BY <2>1 DEF TypeOK
  <2>2. CASE steps' = [steps EXCEPT ![s] = <<>>] /\ done' = [done EXCEPT ![s] = 0]
    BY <2>2 DEF TypeOK
  <2> QED
    BY <1>4, <2>1, <2>2
<1> QED
  BY <1>2, <1>4, <1>5, <1>6 DEF TypeOK

LEMMA MoveTyped ==
  ASSUME TypeOK, NEW to \in Slots, NEW from \in Slots,
         \/ MoveConstruct(to, from) \/ MoveAssign(to, from)
         \/ CopyConstruct(to, from) \/ CopyAssign(to, from)
  PROVE  TypeOK'
<1>1. Repointed(attr[from], to) \in Attributes
  BY DEF Repointed, HomePointers, TypeOK, Attributes
<1>2. Handed(attr[from]) \in Attributes
  BY DEF Handed, TypeOK, Attributes
<1>3. CASE MoveConstruct(to, from) \/ MoveAssign(to, from)
  <2>1. live' \subseteq Handles /\ mapped' \subseteq Handles /\ moved' \in BOOLEAN
    BY <1>3 DEF MoveConstruct, MoveAssign, Release, TypeOK
  <2>2. PICK F :
          /\ own' = [own EXCEPT ![to] = own[from], ![from] = Taken(from, F)]
          /\ attr' = [attr EXCEPT ![to] = Repointed(attr[from], to), ![from] = Handed(@)]
          /\ stage' = [stage EXCEPT ![to] = "alive", ![from] = "hollow"]
          /\ UNCHANGED <<class, steps, done>> /\ to # from
    BY <1>3 DEF MoveConstruct, MoveAssign, TypeOK
  <2>3. Taken(from, F) \in [Fields -> Handles \cup {Null}]
    BY DEF Taken, TypeOK
  <2>4. own' \in [Slots -> [Fields -> Handles \cup {Null}]]
    BY <2>2, <2>3 DEF TypeOK
  <2>5. attr' \in [Slots -> Attributes]
    BY <1>1, <1>2, <2>2 DEF TypeOK
  <2> QED
    BY <2>1, <2>2, <2>4, <2>5 DEF TypeOK
<1>4. CASE CopyConstruct(to, from) \/ CopyAssign(to, from)
  <2>1. /\ UNCHANGED <<class, steps, done, own, live, mapped, moved>>
        /\ stage' = [stage EXCEPT ![to] = "alive"]
        /\ attr' = [attr EXCEPT ![to] = Repointed(attr[from], to)]
    BY <1>4 DEF CopyConstruct, CopyAssign
  <2>2. attr' \in [Slots -> Attributes]
    BY <1>1, <2>1 DEF TypeOK
  <2> QED
    BY <2>1, <2>2 DEF TypeOK
<1> QED
  BY <1>3, <1>4

LEMMA MapTyped ==
  ASSUME OwnershipInv, NEW s \in Slots, Map(s) \/ Unmap(s)
  PROVE  TypeOK'
<1>1. /\ class = "buffer" /\ stage[s] = "alive"
      /\ UNCHANGED <<class, stage, steps, done, own, live, moved>>
  BY DEF Map, Unmap
<1>2. attr' \in [Slots -> Attributes]
  <2>1. \A d \in BOOLEAN : [attr[s] EXCEPT !.data = d] \in Attributes
    BY DEF OwnershipInv, TypeOK, Attributes
  <2>2. \E d \in BOOLEAN : attr' = [attr EXCEPT ![s] = [attr[s] EXCEPT !.data = d]]
    BY DEF Map, Unmap
  <2> QED
    BY <2>1, <2>2 DEF OwnershipInv, TypeOK
<1>3. mapped' \subseteq Handles
  <2>1. own[s]["buffer"] \in Handles
    BY <1>1 DEF OwnershipInv, HoldsInv, BufferInv, TypeOK, Fields
  <2>2. mapped' \subseteq mapped \cup {own[s]["buffer"]}
    BY DEF Map, Unmap
  <2> QED
    BY <2>1, <2>2 DEF OwnershipInv, TypeOK
<1> QED
  BY <1>1, <1>2, <1>3 DEF OwnershipInv, TypeOK

-----------------------------------------------------------------------------
(* What each step does to what is held.                                      *)

LEMMA ConstructStep ==
  ASSUME OwnershipInv, NEW s \in Slots, Construct(s)
  PROVE  HoldsInv'
<1> USE DEF OwnershipInv, HoldsInv
<1>1. class \in Classes
  BY DEF TypeOK
<1>2. PICK c \in Constructors[class] : steps' = [steps EXCEPT ![s] = c]
  BY DEF Construct
<1>3. \A r \in Slots : Held(r)' = Held(r)
  BY DEF Construct, Held
<1>4. c \in Seq(Step)
  BY <1>1, StepFacts DEF WellFormed
<1>5. StageInv'
  BY <1>2, <1>3, <1>4 DEF Construct, StageInv, TypeOK
<1>6. BufferInv'
  BY DEF Construct, BufferInv, StageInv, TypeOK
<1> QED
  BY <1>5, <1>6, Unowned DEF Construct

LEMMA CreateStep ==
  ASSUME OwnershipInv, NEW s \in Slots, Create(s)
  PROVE  HoldsInv'
<1> DEFINE n == NextStep(s).field
<1>1. /\ WellFormed(steps[s], Members[class].frees)
      /\ done[s] \in Nat /\ Len(steps[s]) \in Nat /\ done[s] + 1 \in 1..Len(steps[s])
      /\ NextStep(s) \in Step
  BY NextStepTyped DEF Create, OwnershipInv
<1>2. stage[s] = "building" /\ steps[s] \in Constructors[class]
  BY DEF Create, MoreSteps, OwnershipInv, HoldsInv, StageInv
<1>3. done' = [done EXCEPT ![s] = @ + 1] /\ done' \in [Slots -> Nat] /\ done'[s] = done[s] + 1
  BY <1>1 DEF Create, OwnershipInv, HoldsInv, TypeOK
<1>4. CASE n = "none"
  <2>1. UNCHANGED <<class, stage, steps, own, attr, live, mapped>>
    BY <1>4 DEF Create
  <2>3. \A r \in Slots : Held(r)' = Held(r)
    BY <2>1 DEF Held
  <2>4. StageInv'
    BY <1>1, <1>2, <1>3, <2>1, <2>3 DEF OwnershipInv, HoldsInv, TypeOK, StageInv
  <2>5. class # "buffer"
    <3>1. class = "buffer" => steps[s] = <<Body("buffer")>>
      BY <1>2 DEF Constructors, BufferSteps
    <3> QED
      BY <1>1, <1>4, <3>1 DEF NextStep, Body
  <2> QED
    BY <2>1, <2>4, <2>5, Unowned DEF OwnershipInv, HoldsInv, BufferInv
<1>5. CASE n # "none"
  <2>1. PICK h \in Returned(live) :
          /\ own' = [own EXCEPT ![s][n] = h]
          /\ live' = live \cup {h}
          /\ mapped' = (mapped \ {h}) \cup MappedOnCreation(s, h)
    BY <1>5 DEF Create
  <2>2. n \in Fields
    BY <1>1, <1>5 DEF Step
  <2>3. h \in Handles /\ h \notin live /\ live \subseteq Handles
    BY ObjectsAssumption DEF OwnershipInv, HoldsInv, TypeOK
  <2>4. own[s][n] = Null
    <3>1. \A i \in 1..done[s] : i \in 1..Len(steps[s]) /\ i # done[s] + 1
      BY <1>1
    <3>2. \A i \in 1..done[s] : steps[s][i].field # n
      BY <1>1, <1>5, <3>1 DEF WellFormed, NextStep
    <3> QED
      BY <1>2, <2>2, <3>2 DEF OwnershipInv, HoldsInv, StageInv, Held
  <2>5. OwnType
    BY DEF OwnershipInv, HoldsInv, TypeOK, OwnType
  <2>6. OnlyOwned'
    BY <2>1, <2>2, <2>3, <2>4, <2>5, Added DEF OwnershipInv, HoldsInv
  <2>7. \A r \in Slots, g \in Fields :
          own'[r][g] = IF r = s /\ g = n THEN h ELSE own[r][g]
    BY <2>1, <2>2, <2>5 DEF OwnType
  <2>9. StageInv'
    <3>1. SUFFICES ASSUME NEW r \in Slots
                   PROVE  /\ stage[r] = "absent" => Held(r)' = {} /\ done'[r] = 0
                          /\ stage[r] = "building" =>
                               /\ steps[r] \in Constructors[class]
                               /\ done'[r] <= Len(steps[r])
                               /\ \A f \in Held(r)' : \E i \in 1..done'[r] : steps[r][i].field = f
                          /\ stage[r] \in {"alive", "hollow"} =>
                               Held(r)' \subseteq Members[class].frees /\ done'[r] = 0
      BY DEF Create, StageInv
    <3>2. CASE r # s
      <4>1. Held(r)' = Held(r) /\ done'[r] = done[r]
        BY <1>3, <2>7, <3>2 DEF Held, OwnershipInv, HoldsInv, TypeOK
      <4> QED
        BY <4>1 DEF OwnershipInv, HoldsInv, StageInv
    <3>3. CASE r = s
      <4>1. Held(s)' = Held(s) \cup {n}
        BY <2>2, <2>3, <2>7, ObjectsAssumption DEF Held
      <4>2. steps[s][done[s] + 1].field = n
        BY DEF NextStep
      <4>3. \A f \in Held(s) : \E i \in 1..done[s] : steps[s][i].field = f
        BY <1>2 DEF OwnershipInv, HoldsInv, StageInv
      <4>4. 1..done[s] \subseteq 1..(done[s] + 1) /\ done[s] + 1 \in 1..(done[s] + 1)
        BY <1>1
      <4>5. \A f \in Held(s)' : \E i \in 1..(done[s] + 1) : steps[s][i].field = f
        BY <4>1, <4>2, <4>3, <4>4
      <4> QED
        BY <1>1, <1>2, <1>3, <3>3, <4>5
    <3> QED
      BY <3>2, <3>3
  <2>10. BufferInv'
    <3>1. SUFFICES ASSUME class = "buffer", NEW r \in Slots,
                          stage[r] = "alive" \/ (stage[r] = "building" /\ done'[r] # 0)
                   PROVE  own'[r]["buffer"] # Null
      BY DEF Create, BufferInv
    <3>2. CASE r # s
      <4>1. done'[r] = done[r] /\ own'[r]["buffer"] = own[r]["buffer"]
        BY <1>3, <2>7, <3>2 DEF OwnershipInv, HoldsInv, TypeOK, Fields
      <4> QED
        BY <3>1, <4>1 DEF OwnershipInv, HoldsInv, BufferInv
    <3>3. CASE r = s
      <4>1. steps[s] = <<Body("buffer")>>
        BY <1>2, <3>1 DEF Constructors, BufferSteps
      <4>2. n = "buffer"
        BY <1>1, <4>1 DEF NextStep, Body
      <4> QED
        BY <2>2, <2>3, <2>7, <3>3, <4>2, ObjectsAssumption
    <3> QED
      BY <3>2, <3>3
  <2> QED
    BY <2>6, <2>9, <2>10 DEF HoldsInv
<1> QED
  BY <1>4, <1>5

LEMMA GoWithoutStep ==
  ASSUME OwnershipInv, NEW s \in Slots, GoWithout(s)
  PROVE  HoldsInv'
<1>1. /\ done[s] \in Nat /\ Len(steps[s]) \in Nat /\ done[s] + 1 \in 1..Len(steps[s])
      /\ stage[s] = "building" /\ steps[s] \in Constructors[class]
  BY NextStepTyped DEF GoWithout, MoreSteps, OwnershipInv, HoldsInv, StageInv
<1>2. UNCHANGED <<class, stage, steps, own, attr, live, mapped>>
  BY DEF GoWithout
<1>3. done' = [done EXCEPT ![s] = @ + 1] /\ done' \in [Slots -> Nat] /\ done'[s] = done[s] + 1
  BY <1>1 DEF GoWithout, OwnershipInv, HoldsInv, TypeOK
<1>4. \A r \in Slots : Held(r)' = Held(r)
  BY <1>2 DEF Held
<1>5. StageInv'
  <2>1. SUFFICES ASSUME NEW r \in Slots
                 PROVE  /\ stage[r] = "absent" => Held(r)' = {} /\ done'[r] = 0
                        /\ stage[r] = "building" =>
                             /\ steps[r] \in Constructors[class]
                             /\ done'[r] <= Len(steps[r])
                             /\ \A f \in Held(r)' : \E i \in 1..done'[r] : steps[r][i].field = f
                        /\ stage[r] \in {"alive", "hollow"} =>
                             Held(r)' \subseteq Members[class].frees /\ done'[r] = 0
    BY <1>2 DEF StageInv
  <2>2. CASE r # s
    <3>1. done'[r] = done[r]
      BY <1>3, <2>2 DEF OwnershipInv, TypeOK
    <3> QED
      BY <1>4, <3>1 DEF OwnershipInv, HoldsInv, StageInv
  <2>3. CASE r = s
    <3>1. \A f \in Held(s) : \E i \in 1..done[s] : steps[s][i].field = f
      BY <1>1 DEF OwnershipInv, HoldsInv, StageInv
    <3>2. 1..done[s] \subseteq 1..(done[s] + 1)
      BY <1>1
    <3>3. \A f \in Held(s)' : \E i \in 1..done'[s] : steps[s][i].field = f
      BY <1>3, <1>4, <3>1, <3>2
    <3>4. done'[s] <= Len(steps[s])
      BY <1>1, <1>3
    <3> QED
      BY <1>1, <2>3, <3>3, <3>4
  <2> QED
    BY <2>2, <2>3
<1>6. class # "buffer"
  <2>1. class = "buffer" => steps[s] = <<Body("buffer")>>
    BY <1>1 DEF Constructors, BufferSteps
  <2> QED
    BY <1>1, <2>1 DEF GoWithout, NextStep, Body
<1> QED
  BY <1>2, <1>5, <1>6, Unowned DEF OwnershipInv, HoldsInv, BufferInv

LEMMA FinishStep ==
  ASSUME OwnershipInv, NEW s \in Slots, FinishConstruction(s)
  PROVE  HoldsInv'
<1>1. /\ stage[s] = "building" /\ done[s] = Len(steps[s]) /\ class \in Classes
      /\ steps[s] \in Constructors[class] /\ done[s] \in Nat
  BY DEF FinishConstruction, OwnershipInv, HoldsInv, TypeOK, StageInv
<1>2. WellFormed(steps[s], Members[class].frees)
  BY <1>1, StepFacts
<1>3. UNCHANGED <<class, own, live, mapped>>
  BY DEF FinishConstruction
<1>4. \A r \in Slots : Held(r)' = Held(r)
  BY <1>3 DEF Held
<1>5. Held(s) \subseteq Members[class].frees
  <2>1. SUFFICES ASSUME NEW f \in Held(s) PROVE f \in Members[class].frees
    OBVIOUS
  <2>2. PICK i \in 1..Len(steps[s]) : steps[s][i].field = f
    BY <1>1 DEF OwnershipInv, HoldsInv, StageInv
  <2>3. f # "none"
    BY DEF Held, Fields
  <2> QED
    BY <1>2, <2>2, <2>3 DEF WellFormed
<1>6. StageInv'
  BY <1>1, <1>3, <1>4, <1>5 DEF FinishConstruction, OwnershipInv, HoldsInv, TypeOK, StageInv
<1>7. BufferInv'
  <2>1. ASSUME class = "buffer" PROVE done[s] # 0
    <3>1. steps[s] = <<Body("buffer")>>
      BY <1>1, <2>1 DEF Constructors, BufferSteps
    <3>2. Len(steps[s]) = 1
      BY <3>1 DEF Body
    <3> QED
      BY <1>1, <3>2
  <2> QED
    BY <1>1, <1>3, <2>1 DEF FinishConstruction, OwnershipInv, HoldsInv, TypeOK, BufferInv
<1> QED
  BY <1>3, <1>6, <1>7, Unowned DEF OwnershipInv, HoldsInv

\* The end of an object, whether its destructor runs or its constructor throws.
LEMMA GoneStep ==
  ASSUME OwnershipInv, NEW s \in Slots, NEW G \in SUBSET Fields, Held(s) \subseteq G,
         Release(s, HandlesIn(s, G)), class' = class,
         stage' = [stage EXCEPT ![s] = "absent"], own' = [own EXCEPT ![s] = Empty],
         attr' = [attr EXCEPT ![s] = Blank],
         \/ UNCHANGED <<steps, done>> /\ done[s] = 0
         \/ steps' = [steps EXCEPT ![s] = <<>>] /\ done' = [done EXCEPT ![s] = 0]
  PROVE  HoldsInv'
<1>1. OwnType /\ live \subseteq Handles
  BY DEF OwnershipInv, HoldsInv, TypeOK, OwnType
<1>2. OnlyOwned'
  BY <1>1, Emptied DEF OwnershipInv, HoldsInv, Release
<1>3. Held(s)' = {} /\ \A r \in Slots : r # s => Held(r)' = Held(r)
  BY <1>1 DEF Held, OwnType, Empty
<1>4. done'[s] = 0 /\ \A r \in Slots : r # s => done'[r] = done[r] /\ steps'[r] = steps[r]
  BY DEF OwnershipInv, HoldsInv, TypeOK
<1>5. stage'[s] = "absent" /\ \A r \in Slots : r # s => stage'[r] = stage[r]
  BY DEF OwnershipInv, HoldsInv, TypeOK
<1>6. StageInv'
  <2>1. SUFFICES ASSUME NEW r \in Slots, r # s
                 PROVE  /\ stage'[r] = "absent" => Held(r)' = {} /\ done'[r] = 0
                        /\ stage'[r] = "building" =>
                             /\ steps'[r] \in Constructors[class]
                             /\ done'[r] <= Len(steps'[r])
                             /\ \A f \in Held(r)' : \E i \in 1..done'[r] : steps'[r][i].field = f
                        /\ stage'[r] \in {"alive", "hollow"} =>
                             Held(r)' \subseteq Members[class].frees /\ done'[r] = 0
    BY <1>3, <1>4, <1>5 DEF StageInv
  <2> QED
    BY <1>3, <1>4, <1>5, <2>1 DEF OwnershipInv, HoldsInv, StageInv
<1>7. BufferInv'
  <2>1. \A r \in Slots : r # s => own'[r] = own[r]
    BY <1>1 DEF OwnType
  <2> QED
    BY <1>4, <1>5, <2>1 DEF OwnershipInv, HoldsInv, BufferInv
<1> QED
  BY <1>2, <1>6, <1>7 DEF HoldsInv

LEMMA DestroyStep ==
  ASSUME OwnershipInv, NEW s \in Slots, Destroy(s)
  PROVE  HoldsInv'
<1>1. Held(s) \subseteq Members[class].frees /\ done[s] = 0
  BY DEF Destroy, OwnershipInv, HoldsInv, StageInv
<1>2. Members[class].frees \subseteq Fields
  BY FreesAreFields DEF OwnershipInv, HoldsInv, TypeOK
<1> QED
  BY <1>1, <1>2, GoneStep DEF Destroy

LEMMA ThrowStep ==
  ASSUME OwnershipInv, NEW s \in Slots, Throw(s)
  PROVE  HoldsInv'
<1> DEFINE G == {steps[s][i].field : i \in {j \in 1..done[s] : steps[s][j].member}} \cap Fields
<1>1. /\ WellFormed(steps[s], Members[class].frees)
      /\ done[s] \in Nat /\ Len(steps[s]) \in Nat /\ done[s] + 1 \in 1..Len(steps[s])
  BY NextStepTyped DEF Throw, OwnershipInv
<1>2. \A i \in 1..done[s] : steps[s][i].member
  <2>1. \A i \in 1..done[s] : i \in 1..Len(steps[s]) /\ i < done[s] + 1
    BY <1>1
  <2> QED
    BY <1>1, <2>1 DEF WellFormed, Throw, NextStep
<1>3. Held(s) \subseteq G
  <2>1. SUFFICES ASSUME NEW f \in Held(s) PROVE f \in G
    OBVIOUS
  <2>2. PICK i \in 1..done[s] : steps[s][i].field = f
    BY DEF OwnershipInv, HoldsInv, StageInv, Throw, MoreSteps
  <2> QED
    BY <1>2, <2>2 DEF Held
<1>4. G \in SUBSET Fields
  OBVIOUS
<1>5. Release(s, HandlesIn(s, G))
  BY DEF Throw
<1> HIDE DEF G
<1> QED
  BY <1>3, <1>4, <1>5, GoneStep DEF Throw

\* A move of either kind.
LEMMA HandStep ==
  ASSUME OwnershipInv, NEW to \in Slots, NEW from \in Slots, to # from,
         stage[to] # "building", stage[from] = "alive",
         NEW G \in SUBSET Fields, Held(to) \subseteq G, Release(to, HandlesIn(to, G)),
         NEW F, Held(from) \subseteq F,
         stage' = [stage EXCEPT ![to] = "alive", ![from] = "hollow"],
         own' = [own EXCEPT ![to] = own[from], ![from] = Taken(from, F)],
         attr' = [attr EXCEPT ![to] = Repointed(attr[from], to), ![from] = Handed(@)],
         UNCHANGED <<class, steps, done>>
  PROVE  HoldsInv'
<1>1. OwnType /\ live \subseteq Handles
  BY DEF OwnershipInv, HoldsInv, TypeOK, OwnType
<1>2. OnlyOwned'
  BY <1>1, HandedOn DEF OwnershipInv, HoldsInv, Release
<1>3. \A r \in Slots, g \in Fields :
        own'[r][g] = IF r = from THEN Null ELSE IF r = to THEN own[from][g] ELSE own[r][g]
  BY <1>1 DEF OwnType, Taken, Held
<1>4. /\ Held(from)' = {} /\ Held(to)' = Held(from)
      /\ \A r \in Slots : r # from /\ r # to => Held(r)' = Held(r)
  BY <1>3 DEF Held
<1>5. /\ stage'[from] = "hollow" /\ stage'[to] = "alive"
      /\ \A r \in Slots : r # from /\ r # to => stage'[r] = stage[r]
  BY DEF OwnershipInv, HoldsInv, TypeOK
<1>6. stage[to] \in {"absent", "alive", "hollow"}
  BY DEF OwnershipInv, HoldsInv, TypeOK
<1>7. StageInv'
  <2>1. SUFFICES ASSUME NEW r \in Slots
                 PROVE  /\ stage'[r] = "absent" => Held(r)' = {} /\ done[r] = 0
                        /\ stage'[r] = "building" =>
                             /\ steps[r] \in Constructors[class]
                             /\ done[r] <= Len(steps[r])
                             /\ \A f \in Held(r)' : \E i \in 1..done[r] : steps[r][i].field = f
                        /\ stage'[r] \in {"alive", "hollow"} =>
                             Held(r)' \subseteq Members[class].frees /\ done[r] = 0
    BY DEF StageInv
  <2>2. CASE r = from
    BY <1>4, <1>5, <2>2 DEF OwnershipInv, HoldsInv, StageInv
  <2>3. CASE r = to
    BY <1>4, <1>5, <1>6, <2>3 DEF OwnershipInv, HoldsInv, StageInv
  <2>4. CASE r # from /\ r # to
    BY <1>4, <1>5, <2>4 DEF OwnershipInv, HoldsInv, StageInv
  <2> QED
    BY <2>2, <2>3, <2>4
<1>8. BufferInv'
  <2>1. "buffer" \in Fields
    BY DEF Fields
  <2>2. SUFFICES ASSUME class = "buffer", NEW r \in Slots,
                        stage'[r] = "alive" \/ (stage'[r] = "building" /\ done[r] # 0)
                 PROVE  own'[r]["buffer"] # Null
    BY DEF BufferInv
  <2>3. r # from
    BY <1>5, <2>2
  <2>4. CASE r = to
    <3>1. own'[to] = own[from]
      BY DEF OwnershipInv, HoldsInv, TypeOK
    <3>2. own[from]["buffer"] # Null
      BY <2>2 DEF OwnershipInv, HoldsInv, BufferInv
    <3> QED
      BY <2>4, <3>1, <3>2
  <2>5. CASE r # to
    <3>1. own'[r] = own[r] /\ stage'[r] = stage[r]
      BY <1>5, <2>3, <2>5 DEF OwnershipInv, HoldsInv, TypeOK
    <3> QED
      BY <2>2, <3>1 DEF OwnershipInv, HoldsInv, BufferInv
  <2> QED
    BY <2>4, <2>5
<1> QED
  BY <1>2, <1>7, <1>8 DEF HoldsInv

LEMMA MoveConstructStep ==
  ASSUME OwnershipInv, class # "command", NEW to \in Slots, NEW from \in Slots,
         MoveConstruct(to, from)
  PROVE  HoldsInv'
<1>1. /\ to # from /\ stage[to] = "absent" /\ stage[from] = "alive" /\ class \in Classes
  BY DEF MoveConstruct, OwnershipInv, HoldsInv, TypeOK
<1>2. Held(to) = {}
  BY <1>1 DEF OwnershipInv, HoldsInv, StageInv
<1>3. HandlesIn(to, {}) = {}
  BY DEF HandlesIn
<1>4. Release(to, HandlesIn(to, {}))
  BY <1>3 DEF Release, MoveConstruct
<1>5. Held(from) \subseteq Members[class].nulls
  BY <1>1, MemberFacts DEF OwnershipInv, HoldsInv, StageInv
<1> QED
  BY <1>1, <1>2, <1>4, <1>5, HandStep DEF MoveConstruct

LEMMA MoveAssignStep ==
  ASSUME OwnershipInv, class # "command", NEW to \in Slots, NEW from \in Slots,
         MoveAssign(to, from)
  PROVE  HoldsInv'
<1>1. /\ to # from /\ stage[to] \in {"alive", "hollow"} /\ stage[from] = "alive"
      /\ class \in Classes
  BY DEF MoveAssign, OwnershipInv, HoldsInv, TypeOK
<1>2. Held(to) \subseteq Members[class].drops /\ Members[class].drops \in SUBSET Fields
  BY <1>1, MemberFacts, FreesAreFields DEF OwnershipInv, HoldsInv, StageInv
<1>3. Held(from) \subseteq Members[class].clears
  BY <1>1, MemberFacts DEF OwnershipInv, HoldsInv, StageInv
<1> QED
  BY <1>1, <1>2, <1>3, HandStep DEF MoveAssign

\* A copied sub-pass holds no handle.
LEMMA CopyStep ==
  ASSUME OwnershipInv, NEW to \in Slots, NEW from \in Slots,
         CopyConstruct(to, from) \/ CopyAssign(to, from)
  PROVE  HoldsInv'
<1>1. /\ class = "subpass" /\ UNCHANGED <<class, steps, done, own, live, mapped>>
      /\ stage[to] \in {"absent", "alive", "hollow"}
      /\ stage' = [stage EXCEPT ![to] = "alive"]
      /\ attr' = [attr EXCEPT ![to] = Repointed(attr[from], to)]
  BY DEF CopyConstruct, CopyAssign
<1>2. \A r \in Slots : Held(r)' = Held(r)
  BY <1>1 DEF Held
<1>3. StageInv'
  <2>1. SUFFICES ASSUME NEW r \in Slots
                 PROVE  /\ stage'[r] = "absent" => Held(r)' = {} /\ done[r] = 0
                        /\ stage'[r] = "building" =>
                             /\ steps[r] \in Constructors[class]
                             /\ done[r] <= Len(steps[r])
                             /\ \A f \in Held(r)' : \E i \in 1..done[r] : steps[r][i].field = f
                        /\ stage'[r] \in {"alive", "hollow"} =>
                             Held(r)' \subseteq Members[class].frees /\ done[r] = 0
    BY <1>1 DEF StageInv
  <2>2. Held(r)' = Held(r)
    BY <1>2
  <2>3. CASE r = to
    <3>1. stage'[r] = "alive"
      BY <1>1, <2>3 DEF OwnershipInv, HoldsInv, TypeOK
    <3>2. Held(r) \subseteq Members[class].frees /\ done[r] = 0
      <4>1. CASE stage[to] = "absent"
        BY <4>1, <2>3 DEF OwnershipInv, HoldsInv, StageInv
      <4>2. CASE stage[to] \in {"alive", "hollow"}
        BY <4>2, <2>3 DEF OwnershipInv, HoldsInv, StageInv
      <4> QED
        BY <1>1, <4>1, <4>2
    <3> QED
      BY <2>2, <3>1, <3>2
  <2>4. CASE r # to
    <3>1. stage'[r] = stage[r]
      BY <1>1, <2>4 DEF OwnershipInv, HoldsInv, TypeOK
    <3> QED
      BY <2>2, <3>1 DEF OwnershipInv, HoldsInv, StageInv
  <2> QED
    BY <2>3, <2>4
<1>4. BufferInv'
  BY <1>1 DEF BufferInv
<1> QED
  BY <1>1, <1>3, <1>4, Unowned DEF OwnershipInv, HoldsInv

LEMMA MapStep ==
  ASSUME OwnershipInv, NEW s \in Slots, Map(s) \/ Unmap(s)
  PROVE  HoldsInv'
<1>1. /\ class = "buffer" /\ stage[s] = "alive"
      /\ UNCHANGED <<class, stage, steps, done, own, live>>
  BY DEF Map, Unmap
<1>2. \A r \in Slots : Held(r)' = Held(r)
  BY <1>1 DEF Held
<1> QED
  BY <1>1, <1>2, Unowned DEF OwnershipInv, HoldsInv, StageInv, BufferInv

-----------------------------------------------------------------------------
\* A behaviour is about one class.
LEMMA ClassKept == [Next]_vars => class' = class
<1> SUFFICES ASSUME [Next]_vars PROVE class' = class
  OBVIOUS
<1>1. CASE UNCHANGED vars
  BY <1>1 DEF vars
<1>2. ASSUME NEW s \in Slots,
             \/ Construct(s) \/ Create(s) \/ GoWithout(s) \/ Throw(s)
             \/ FinishConstruction(s) \/ Destroy(s) \/ Map(s) \/ Unmap(s)
      PROVE  class' = class
  BY <1>2 DEF Construct, Create, GoWithout, Throw, FinishConstruction, Destroy, Map, Unmap
<1>3. ASSUME NEW to \in Slots, NEW from \in Slots,
             \/ MoveConstruct(to, from) \/ MoveAssign(to, from)
             \/ CopyConstruct(to, from) \/ CopyAssign(to, from)
      PROVE  class' = class
  BY <1>3 DEF MoveConstruct, MoveAssign, CopyConstruct, CopyAssign
<1> QED
  BY <1>1, <1>2, <1>3 DEF Next

LEMMA NextTyped == ObjectsInv /\ [Next]_vars => TypeOK'
<1> SUFFICES ASSUME ObjectsInv, [Next]_vars PROVE TypeOK'
  OBVIOUS
<1>1. TypeOK
  BY DEF ObjectsInv
<1>2. CASE UNCHANGED vars
  BY <1>1, <1>2 DEF vars, TypeOK
<1>3. ASSUME NEW s \in Slots,
             \/ Construct(s) \/ Create(s) \/ GoWithout(s) \/ Throw(s)
             \/ FinishConstruction(s) \/ Destroy(s) \/ Map(s) \/ Unmap(s)
      PROVE  TypeOK'
  <2>1. CASE GoWithout(s)
    BY <1>1, <2>1 DEF GoWithout, TypeOK
  <2>2. CASE Map(s) \/ Unmap(s)
    <3>1. OwnershipInv
      BY <2>2 DEF ObjectsInv, OwnershipInv, Map, Unmap
    <3> QED
      BY <2>2, <3>1, MapTyped
  <2> QED
    BY <1>1, <1>3, <2>1, <2>2, ConstructTyped, CreateTyped, FinishTyped, GoneTyped
<1>4. ASSUME NEW to \in Slots, NEW from \in Slots,
             \/ MoveConstruct(to, from) \/ MoveAssign(to, from)
             \/ CopyConstruct(to, from) \/ CopyAssign(to, from)
      PROVE  TypeOK'
  BY <1>1, <1>4, MoveTyped
<1> QED
  BY <1>2, <1>3, <1>4 DEF Next

\* A step that is no move of a command buffer leaves what is held as it should be,
\* and the history as it was.
LEMMA NextHeld ==
  ASSUME OwnershipInv, ~moved, [Next]_vars
  PROVE  moved' \/ HoldsInv'
<1>1. CASE UNCHANGED vars
  <2>1. \A r \in Slots : Held(r)' = Held(r)
    BY <1>1 DEF vars, Held
  <2>2. StageInv' /\ BufferInv'
    BY <1>1, <2>1 DEF vars, OwnershipInv, HoldsInv, StageInv, BufferInv
  <2> QED
    BY <1>1, <2>2, Unowned DEF vars, OwnershipInv, HoldsInv
<1>2. ASSUME NEW s \in Slots,
             \/ Construct(s) \/ Create(s) \/ GoWithout(s) \/ Throw(s)
             \/ FinishConstruction(s) \/ Destroy(s) \/ Map(s) \/ Unmap(s)
      PROVE  HoldsInv'
  BY <1>2, ConstructStep, CreateStep, GoWithoutStep, ThrowStep, FinishStep, DestroyStep, MapStep
<1>3. ASSUME NEW to \in Slots, NEW from \in Slots,
             \/ MoveConstruct(to, from) \/ MoveAssign(to, from)
             \/ CopyConstruct(to, from) \/ CopyAssign(to, from)
      PROVE  moved' \/ HoldsInv'
  <2>1. CASE MoveConstruct(to, from) \/ MoveAssign(to, from)
    <3>1. CASE class = "command"
      BY <2>1, <3>1 DEF MoveConstruct, MoveAssign
    <3>2. CASE class # "command"
      BY <2>1, <3>2, MoveConstructStep, MoveAssignStep
    <3> QED
      BY <3>1, <3>2
  <2>2. CASE CopyConstruct(to, from) \/ CopyAssign(to, from)
    BY <2>2, CopyStep
  <2> QED
    BY <1>3, <2>1, <2>2
<1> QED
  BY <1>1, <1>2, <1>3 DEF Next

\* Only the move of a command buffer is remembered, and for good.
LEMMA MovedKept ==
  ASSUME [Next]_vars, moved \in BOOLEAN
  PROVE  (moved => moved') /\ (moved' => moved \/ class = "command")
<1>1. CASE UNCHANGED vars
  BY <1>1 DEF vars
<1>2. ASSUME NEW s \in Slots,
             \/ Construct(s) \/ Create(s) \/ GoWithout(s) \/ Throw(s)
             \/ FinishConstruction(s) \/ Destroy(s) \/ Map(s) \/ Unmap(s)
      PROVE  moved' = moved
  BY <1>2 DEF Construct, Create, GoWithout, Throw, FinishConstruction, Destroy, Map, Unmap
<1>3. ASSUME NEW to \in Slots, NEW from \in Slots,
             \/ MoveConstruct(to, from) \/ MoveAssign(to, from)
             \/ CopyConstruct(to, from) \/ CopyAssign(to, from)
      PROVE  (moved => moved') /\ (moved' => moved \/ class = "command")
  BY <1>3 DEF MoveConstruct, MoveAssign, CopyConstruct, CopyAssign
<1> QED
  BY <1>1, <1>2, <1>3 DEF Next

LEMMA NextOwned == ObjectsInv /\ [Next]_vars => ObjectsInv'
<1> SUFFICES ASSUME ObjectsInv, [Next]_vars PROVE ObjectsInv'
  OBVIOUS
<1>1. TypeOK'
  BY NextTyped
<1>2. moved' => class' = "command"
  BY ClassKept, MovedKept DEF ObjectsInv, TypeOK
<1>3. moved' \/ HoldsInv'
  <2>1. CASE moved
    BY <2>1, MovedKept DEF ObjectsInv, TypeOK
  <2>2. CASE ~moved
    BY <2>2, NextHeld DEF ObjectsInv, OwnershipInv
  <2> QED
    BY <2>1, <2>2
<1> QED
  BY <1>1, <1>2, <1>3 DEF ObjectsInv

\* What objects hold, as their constructors, moves and destructors run in any
\* order, of a class that hands its handles on when it is moved; of command
\* buffers until one is moved.
THEOREM Owned == Spec => []ObjectsInv
<1>1. Init => ObjectsInv
  BY InitOwned DEF ObjectsInv, OwnershipInv
<1>2. ObjectsInv /\ [Next]_vars => ObjectsInv'
  BY NextOwned
<1> QED
  BY <1>1, <1>2, PTL DEF Spec

\* The variables keep their types.
THEOREM TypeCorrect == Spec => []TypeOK
<1>1. ObjectsInv => TypeOK
  BY DEF ObjectsInv
<1> QED
  BY <1>1, Owned, PTL

\* As long as no command buffer has been moved, no handle leaks, is used after it
\* was destroyed, or is destroyed twice, for any number of objects of any of the
\* classes.
THEOREM HandlesOwnedOnce == Spec => []OwnedOnce
<1>1. ObjectsInv => OwnedOnce
  BY DEF ObjectsInv, HoldsInv, OwnedOnce
<1> QED
  BY <1>1, Owned, PTL

-----------------------------------------------------------------------------
(* Mapped memory                                                             *)

\* An object that has made its buffer and still has it.
Named(s) == stage[s] = "alive" \/ (stage[s] = "building" /\ done[s] # 0)

MappedAsSaid(s) ==
  /\ stage[s] = "alive" => (attr[s].data <=> own[s]["buffer"] \in mapped)
  /\ stage[s] = "building" /\ done[s] # 0 =>
       (attr[s].persistent <=> own[s]["buffer"] \in mapped)

MappedInv == class = "buffer" => \A s \in Slots : MappedAsSaid(s)

\* No other object has the buffer of one that has made its own.
LEMMA Apart ==
  ASSUME OwnershipInv, class = "buffer", NEW r \in Slots, NEW s \in Slots, r # s, Named(r)
  PROVE  own[r]["buffer"] # own[s]["buffer"]
<1>1. own[r]["buffer"] # Null /\ "buffer" \in Fields
  BY DEF OwnershipInv, HoldsInv, BufferInv, Named, Fields
<1> QED
  BY <1>1 DEF OwnershipInv, HoldsInv, OnlyOwned, HeldOnce

\* An object a step leaves alone, while it maps or unmaps buffers of others only.
LEMMA LeftAlone ==
  ASSUME NEW r, MappedAsSaid(r),
         stage'[r] = stage[r], done'[r] = done[r], attr'[r] = attr[r], own'[r] = own[r],
         Named(r) => (own[r]["buffer"] \in mapped' <=> own[r]["buffer"] \in mapped)
  PROVE  MappedAsSaid(r)'
BY DEF MappedAsSaid, Named

\* Buffers other than those an object gives up stay mapped as they were.
LEMMA ReleasedOthers ==
  ASSUME OwnershipInv, class = "buffer", NEW s \in Slots, NEW F, F \subseteq {"buffer"},
         Release(s, HandlesIn(s, F)), NEW r \in Slots, r # s, Named(r)
  PROVE  own[r]["buffer"] \in mapped' <=> own[r]["buffer"] \in mapped
<1>1. own[r]["buffer"] # own[s]["buffer"]
  BY Apart
<1>2. own[r]["buffer"] \notin HandlesIn(s, F)
  BY <1>1 DEF HandlesIn
<1> QED
  BY <1>2 DEF Release

LEMMA BufferClass ==
  ASSUME class = "buffer"
  PROVE  /\ Constructors[class] = {<<Body("buffer")>>} /\ Len(<<Body("buffer")>>) = 1
         /\ <<Body("buffer")>>[1] = Body("buffer")
         /\ Members[class].frees = {"buffer"} /\ Members[class].drops = {"buffer"}
<1>1. Constructors[class] = {<<Body("buffer")>>}
  BY DEF Constructors, BufferSteps
<1>2. Members[class].frees = {"buffer"} /\ Members[class].drops = {"buffer"}
  BY DEF Members, BufferMembers, Raii
<1> QED
  BY <1>1, <1>2

\* The only step of the only constructor of a buffer.
LEMMA BufferStep ==
  ASSUME class = "buffer", NEW s \in Slots, steps[s] \in Constructors[class], done[s] \in Nat,
         done[s] < Len(steps[s])
  PROVE  done[s] = 0 /\ NextStep(s) = Body("buffer")
<1>1. steps[s] = <<Body("buffer")>>
  BY BufferClass
<1>2. Len(steps[s]) = 1 /\ steps[s][1] = Body("buffer")
  BY <1>1, BufferClass
<1>3. done[s] = 0
  BY <1>2
<1> QED
  BY <1>2, <1>3 DEF NextStep

LEMMA MappedCreate ==
  ASSUME OwnershipInv, MappedInv, class = "buffer", NEW s \in Slots, Create(s)
  PROVE  \A r \in Slots : MappedAsSaid(r)'
<1>1. stage[s] = "building" /\ steps[s] \in Constructors[class] /\ done[s] \in Nat
      /\ done[s] < Len(steps[s])
  BY DEF Create, MoreSteps, OwnershipInv, HoldsInv, StageInv, TypeOK
<1>2. done[s] = 0 /\ NextStep(s) = Body("buffer")
  BY <1>1, BufferStep
<1>3. NextStep(s).field = "buffer"
  BY <1>2 DEF Body
<1>4. PICK h \in Returned(live) :
        /\ own' = [own EXCEPT ![s]["buffer"] = h]
        /\ mapped' = (mapped \ {h}) \cup MappedOnCreation(s, h)
  BY <1>3 DEF Create
<1>5. h \notin live
  BY <1>4, ObjectsAssumption DEF OwnershipInv, HoldsInv, TypeOK
<1>6. stage' = stage /\ attr' = attr /\ done' = [done EXCEPT ![s] = @ + 1]
  BY DEF Create
<1>7. own'[s]["buffer"] = h
  BY <1>4 DEF OwnershipInv, HoldsInv, TypeOK, Fields
<1>8. MappedAsSaid(s)'
  <2>1. h \in mapped' <=> attr[s].persistent
    BY <1>4, <1>5 DEF MappedOnCreation
  <2> QED
    BY <1>1, <1>6, <1>7, <2>1 DEF MappedAsSaid
<1>9. ASSUME NEW r \in Slots, r # s PROVE MappedAsSaid(r)'
  <2>1. stage'[r] = stage[r] /\ done'[r] = done[r] /\ attr'[r] = attr[r] /\ own'[r] = own[r]
    BY <1>4, <1>6, <1>9 DEF OwnershipInv, HoldsInv, TypeOK
  <2>2. Named(r) => own[r]["buffer"] \in live
    BY DEF OwnershipInv, HoldsInv, BufferInv, OnlyOwned, HeldIsLive, Named, Fields
  <2>3. Named(r) => (own[r]["buffer"] \in mapped' <=> own[r]["buffer"] \in mapped)
    BY <1>4, <1>5, <2>2 DEF MappedOnCreation
  <2>4. MappedAsSaid(r)
    BY DEF MappedInv
  <2> QED
    BY <2>1, <2>3, <2>4, LeftAlone
<1> QED
  BY <1>8, <1>9

LEMMA MappedFinish ==
  ASSUME OwnershipInv, MappedInv, class = "buffer", NEW s \in Slots, FinishConstruction(s)
  PROVE  \A r \in Slots : MappedAsSaid(r)'
<1>1. stage[s] = "building" /\ steps[s] \in Constructors[class] /\ done[s] = Len(steps[s])
  BY DEF FinishConstruction, OwnershipInv, HoldsInv, StageInv
<1>2. done[s] = 1
  BY <1>1, BufferClass
<1>3. /\ own' = own /\ mapped' = mapped /\ stage' = [stage EXCEPT ![s] = "alive"]
      /\ done' = [done EXCEPT ![s] = 0]
  BY DEF FinishConstruction
<1> DEFINE a == HomePointers(attr[s], s)
           l == IF class = "pipeline" THEN ActiveLayout(s) ELSE Null
           v == VertexInput(attr[s].format)
<1>4. attr' = [attr EXCEPT ![s] = [a EXCEPT !.layout = l, !.input = v,
                                            !.data = attr[s].persistent]]
  BY DEF FinishConstruction
<1>5. a \in Attributes
  BY DEF HomePointers, OwnershipInv, HoldsInv, TypeOK, Attributes
<1> HIDE DEF a, l, v
<1>6. attr'[s].data = attr[s].persistent
  <2>1. attr'[s] = [a EXCEPT !.layout = l, !.input = v, !.data = attr[s].persistent]
    BY <1>4 DEF OwnershipInv, HoldsInv, TypeOK
  <2> QED
    BY <1>5, <2>1 DEF Attributes
<1>7. MappedAsSaid(s)'
  <2>1. attr[s].persistent <=> own[s]["buffer"] \in mapped
    BY <1>1, <1>2 DEF MappedInv, MappedAsSaid
  <2>2. stage'[s] = "alive"
    BY <1>3 DEF OwnershipInv, HoldsInv, TypeOK
  <2> QED
    BY <1>3, <1>6, <2>1, <2>2 DEF MappedAsSaid
<1>8. ASSUME NEW r \in Slots, r # s PROVE MappedAsSaid(r)'
  <2>1. stage'[r] = stage[r] /\ done'[r] = done[r] /\ attr'[r] = attr[r] /\ own'[r] = own[r]
    BY <1>3, <1>4, <1>8 DEF OwnershipInv, HoldsInv, TypeOK
  <2>2. MappedAsSaid(r)
    BY DEF MappedInv
  <2> QED
    BY <1>3, <2>1, <2>2, LeftAlone
<1> QED
  BY <1>7, <1>8

\* An object that is destroyed, or whose constructor threw.
LEMMA MappedGone ==
  ASSUME OwnershipInv, MappedInv, class = "buffer", NEW s \in Slots,
         NEW F, F \subseteq {"buffer"}, Release(s, HandlesIn(s, F)),
         stage' = [stage EXCEPT ![s] = "absent"],
         own' = [own EXCEPT ![s] = Empty], attr' = [attr EXCEPT ![s] = Blank],
         \A r \in Slots : r # s => done'[r] = done[r]
  PROVE  \A r \in Slots : MappedAsSaid(r)'
<1>1. stage'[s] = "absent"
  BY DEF OwnershipInv, HoldsInv, TypeOK
<1>2. MappedAsSaid(s)'
  BY <1>1 DEF MappedAsSaid
<1>3. ASSUME NEW r \in Slots, r # s PROVE MappedAsSaid(r)'
  <2>1. stage'[r] = stage[r] /\ done'[r] = done[r] /\ attr'[r] = attr[r] /\ own'[r] = own[r]
    BY <1>3 DEF OwnershipInv, HoldsInv, TypeOK
  <2>2. Named(r) => (own[r]["buffer"] \in mapped' <=> own[r]["buffer"] \in mapped)
    BY <1>3, ReleasedOthers
  <2>3. MappedAsSaid(r)
    BY DEF MappedInv
  <2> QED
    BY <2>1, <2>2, <2>3, LeftAlone
<1> QED
  BY <1>2, <1>3

\* Repointing touches nothing but the pointer, handing on neither of what a
\* buffer knows of its memory.
LEMMA RepointedData ==
  ASSUME OwnershipInv, NEW a \in Attributes, NEW s \in Slots
  PROVE  Repointed(a, s) \in Attributes /\ Repointed(a, s).data = a.data
BY DEF Repointed, HomePointers, Attributes

\* A move of either kind, after which the target has what the source had.
LEMMA MappedHand ==
  ASSUME OwnershipInv, MappedInv, class = "buffer",
         NEW to \in Slots, NEW from \in Slots, to # from, stage[from] = "alive",
         NEW F, F \subseteq {"buffer"}, Release(to, HandlesIn(to, F)), NEW given,
         stage' = [stage EXCEPT ![to] = "alive", ![from] = "hollow"],
         own' = [own EXCEPT ![to] = own[from], ![from] = given],
         attr' = [attr EXCEPT ![to] = Repointed(attr[from], to), ![from] = Handed(@)],
         done' = done
  PROVE  \A r \in Slots : MappedAsSaid(r)'
<1>1. stage'[from] = "hollow" /\ stage'[to] = "alive" /\ own'[to] = own[from]
      /\ attr'[to] = Repointed(attr[from], to)
  BY DEF OwnershipInv, HoldsInv, TypeOK
<1>2. MappedAsSaid(from)'
  BY <1>1 DEF MappedAsSaid
<1>3. MappedAsSaid(to)'
  <2>1. attr[from].data <=> own[from]["buffer"] \in mapped
    BY DEF MappedInv, MappedAsSaid
  <2>2. own[from]["buffer"] \in mapped' <=> own[from]["buffer"] \in mapped
    BY ReleasedOthers DEF Named
  <2>3. attr'[to].data = attr[from].data
    BY <1>1, RepointedData DEF OwnershipInv, HoldsInv, TypeOK
  <2> QED
    BY <1>1, <2>1, <2>2, <2>3 DEF MappedAsSaid
<1>4. ASSUME NEW r \in Slots, r # to, r # from PROVE MappedAsSaid(r)'
  <2>1. stage'[r] = stage[r] /\ done'[r] = done[r] /\ attr'[r] = attr[r] /\ own'[r] = own[r]
    BY <1>4 DEF OwnershipInv, HoldsInv, TypeOK
  <2>2. Named(r) => (own[r]["buffer"] \in mapped' <=> own[r]["buffer"] \in mapped)
    BY <1>4, ReleasedOthers
  <2>3. MappedAsSaid(r)
    BY DEF MappedInv
  <2> QED
    BY <2>1, <2>2, <2>3, LeftAlone
<1> QED
  BY <1>2, <1>3, <1>4

\* Only the buffer that is mapped or unmapped changes.
LEMMA MappedMap ==
  ASSUME OwnershipInv, MappedInv, NEW s \in Slots, Map(s) \/ Unmap(s)
  PROVE  \A r \in Slots : MappedAsSaid(r)'
<1>1. class = "buffer" /\ stage[s] = "alive" /\ UNCHANGED <<stage, done, own>>
  BY DEF Map, Unmap
<1>2. PICK d \in BOOLEAN :
        /\ attr' = [attr EXCEPT ![s].data = d]
        /\ mapped' = IF d THEN mapped \cup {own[s]["buffer"]} ELSE mapped \ {own[s]["buffer"]}
  BY DEF Map, Unmap
<1>3. attr'[s].data = d
  <2>1. attr'[s] = [attr[s] EXCEPT !.data = d]
    BY <1>2 DEF OwnershipInv, HoldsInv, TypeOK
  <2>2. attr[s] \in Attributes
    BY DEF OwnershipInv, HoldsInv, TypeOK
  <2> QED
    BY <2>1, <2>2 DEF Attributes
<1>4. own[s]["buffer"] \in mapped' <=> d
  BY <1>2
<1>5. MappedAsSaid(s)'
  BY <1>1, <1>3, <1>4 DEF MappedAsSaid
<1>6. ASSUME NEW r \in Slots, r # s PROVE MappedAsSaid(r)'
  <2>1. stage'[r] = stage[r] /\ done'[r] = done[r] /\ attr'[r] = attr[r] /\ own'[r] = own[r]
    BY <1>1, <1>2, <1>6 DEF OwnershipInv, HoldsInv, TypeOK
  <2>2. Named(r) => own[r]["buffer"] # own[s]["buffer"]
    BY <1>1, <1>6, Apart
  <2>3. Named(r) => (own[r]["buffer"] \in mapped' <=> own[r]["buffer"] \in mapped)
    BY <1>2, <2>2
  <2>4. MappedAsSaid(r)
    BY <1>1 DEF MappedInv
  <2> QED
    BY <2>1, <2>3, <2>4, LeftAlone
<1> QED
  BY <1>5, <1>6

LEMMA NextMapped == ObjectsInv /\ MappedInv /\ [Next]_vars => MappedInv'
<1> SUFFICES ASSUME ObjectsInv, MappedInv, [Next]_vars, class = "buffer"
             PROVE  \A r \in Slots : MappedAsSaid(r)'
  BY ClassKept DEF MappedInv
<1> OwnershipInv
  BY DEF ObjectsInv, OwnershipInv
<1>1. CASE UNCHANGED vars
  BY <1>1 DEF vars, MappedInv, MappedAsSaid
<1>2. ASSUME NEW s \in Slots, Construct(s) PROVE \A r \in Slots : MappedAsSaid(r)'
  <2>1. stage[s] = "absent" /\ stage' = [stage EXCEPT ![s] = "building"]
        /\ UNCHANGED <<done, own, mapped>> /\ done[s] = 0
    BY <1>2 DEF Construct, OwnershipInv, HoldsInv, StageInv
  <2>2. PICK a : attr' = [attr EXCEPT ![s] = a]
    BY <1>2 DEF Construct
  <2>3. MappedAsSaid(s)'
    BY <2>1 DEF MappedAsSaid, OwnershipInv, HoldsInv, TypeOK
  <2>4. ASSUME NEW r \in Slots, r # s PROVE MappedAsSaid(r)'
    <3>1. stage'[r] = stage[r] /\ done'[r] = done[r] /\ attr'[r] = attr[r] /\ own'[r] = own[r]
      BY <2>1, <2>2, <2>4 DEF OwnershipInv, HoldsInv, TypeOK
    <3> QED
      BY <2>1, <3>1, LeftAlone DEF MappedInv
  <2> QED
    BY <2>3, <2>4
<1>3. ASSUME NEW s \in Slots, Create(s) PROVE \A r \in Slots : MappedAsSaid(r)'
  BY <1>3, MappedCreate
<1>4. ASSUME NEW s \in Slots, GoWithout(s) PROVE FALSE
  <2>1. steps[s] \in Constructors[class] /\ done[s] \in Nat /\ done[s] < Len(steps[s])
        /\ ~NextStep(s).throws
    BY <1>4 DEF GoWithout, MoreSteps, OwnershipInv, HoldsInv, StageInv, TypeOK
  <2>2. NextStep(s) = Body("buffer")
    BY <2>1, BufferStep
  <2> QED
    BY <2>1, <2>2 DEF Body
<1>5. ASSUME NEW s \in Slots, Throw(s) PROVE \A r \in Slots : MappedAsSaid(r)'
  <2>1. steps[s] \in Constructors[class] /\ done[s] \in Nat /\ done[s] < Len(steps[s])
    BY <1>5 DEF Throw, MoreSteps, OwnershipInv, HoldsInv, StageInv, TypeOK
  <2>2. done[s] = 0
    BY <2>1, BufferStep
  <2> DEFINE F == {steps[s][i].field : i \in {j \in 1..done[s] : steps[s][j].member}} \cap Fields
  <2>3. F \subseteq {"buffer"}
    BY <2>2
  <2>4. /\ Release(s, HandlesIn(s, F))
        /\ stage' = [stage EXCEPT ![s] = "absent"]
        /\ own' = [own EXCEPT ![s] = Empty] /\ attr' = [attr EXCEPT ![s] = Blank]
        /\ done' = [done EXCEPT ![s] = 0]
    BY <1>5 DEF Throw
  <2>5. \A r \in Slots : r # s => done'[r] = done[r]
    BY <2>4 DEF OwnershipInv, HoldsInv, TypeOK
  <2> HIDE DEF F
  <2> QED
    BY <2>3, <2>4, <2>5, MappedGone
<1>6. ASSUME NEW s \in Slots, FinishConstruction(s) PROVE \A r \in Slots : MappedAsSaid(r)'
  BY <1>6, MappedFinish
<1>7. ASSUME NEW s \in Slots, Destroy(s) PROVE \A r \in Slots : MappedAsSaid(r)'
  <2>1. Members[class].frees \subseteq {"buffer"}
    BY BufferClass
  <2> QED
    BY <1>7, <2>1, MappedGone DEF Destroy
<1>8. ASSUME NEW s \in Slots, Map(s) \/ Unmap(s) PROVE \A r \in Slots : MappedAsSaid(r)'
  BY <1>8, MappedMap
<1>9. ASSUME NEW to \in Slots, NEW from \in Slots, MoveConstruct(to, from)
      PROVE  \A r \in Slots : MappedAsSaid(r)'
  <2>1. to # from /\ stage[from] = "alive" /\ UNCHANGED <<done, live, mapped>>
    BY <1>9 DEF MoveConstruct
  <2>2. Release(to, HandlesIn(to, {}))
    BY <2>1 DEF Release, HandlesIn
  <2> QED
    BY <1>9, <2>1, <2>2, MappedHand DEF MoveConstruct
<1>10. ASSUME NEW to \in Slots, NEW from \in Slots, MoveAssign(to, from)
       PROVE  \A r \in Slots : MappedAsSaid(r)'
  <2>1. Members[class].drops \subseteq {"buffer"}
    BY BufferClass
  <2>2. to # from /\ stage[from] = "alive" /\ done' = done
    BY <1>10 DEF MoveAssign
  <2> QED
    BY <1>10, <2>1, <2>2, MappedHand DEF MoveAssign
<1>11. ASSUME NEW to \in Slots, NEW from \in Slots, CopyConstruct(to, from) \/ CopyAssign(to, from)
       PROVE  FALSE
  BY <1>11 DEF CopyConstruct, CopyAssign
<1> QED
  BY <1>1, <1>2, <1>3, <1>4, <1>5, <1>6, <1>7, <1>8, <1>9, <1>10, <1>11 DEF Next

\* A buffer believes its memory mapped exactly when the allocator holds it mapped,
\* however it is mapped, unmapped, moved and destroyed (vulkan_buffer.cpp).
THEOREM BuffersMappedAsSaid == Spec => []MappedAgree
<1>1. Init => MappedInv
  BY DEF Init, MappedInv, MappedAsSaid
<1>2. ObjectsInv /\ MappedInv /\ [Next]_vars => MappedInv'
  BY NextMapped
<1>3. MappedInv => MappedAgree
  BY DEF MappedInv, MappedAsSaid, MappedAgree
<1> QED
  BY <1>1, <1>2, <1>3, Owned, PTL DEF Spec

-----------------------------------------------------------------------------
(* Objects that stay whole                                                   *)

Points(s) == IF class = "shader" \/ attr[s].depth THEN s ELSE Null

WholeAt(s) ==
  /\ attr[s].depth => class = "subpass"
  /\ stage[s] = "building" => attr[s].points = Null
  /\ stage[s] = "alive" => attr[s].points = Points(s)
  /\ stage[s] = "alive" /\ class = "pipeline" =>
       /\ LayoutHandle(s) = attr[s].layout
       /\ IsMeshPipeline(s) <=> attr[s].input = "absent"

WholeInv == \A s \in Slots : WholeAt(s)

\* An object whose members a step leaves as they are.
LEMMA WholeLeft ==
  ASSUME NEW r, WholeAt(r), class' = class,
         stage'[r] = stage[r], attr'[r] = attr[r], own'[r] = own[r]
  PROVE  WholeAt(r)'
BY DEF WholeAt, Points, LayoutHandle, IsMeshPipeline

\* A place with no object in it.
LEMMA WholeBlank ==
  ASSUME NEW r, stage'[r] = "absent", attr'[r] = Blank
  PROVE  WholeAt(r)'
BY DEF WholeAt, Blank

\* Depth is an argument of sub-passes alone, and no argument points anywhere.
LEMMA ArgumentsPlain ==
  ASSUME NEW a \in Arguments
  PROVE  a.points = Null /\ (a.depth => class = "subpass")
<1>1. Blank.points = Null /\ ~Blank.depth
  BY DEF Blank
<1>2. CASE class = "buffer"
  BY <1>2 DEF Arguments, Blank
<1>3. CASE class = "subpass"
  BY <1>3 DEF Arguments, Blank
<1>4. CASE class = "pipeline"
  BY <1>4 DEF Arguments, Blank
<1>5. CASE class \notin {"buffer", "subpass", "pipeline"}
  BY <1>1, <1>5 DEF Arguments
<1> QED
  BY <1>2, <1>3, <1>4, <1>5

\* What the members are once the pointers into the object are set.
LEMMA HomeFields ==
  ASSUME NEW a \in Attributes, NEW s \in Slots
  PROVE  /\ HomePointers(a, s) \in Attributes
         /\ HomePointers(a, s).points = IF class = "shader" \/ a.depth THEN s ELSE a.points
         /\ HomePointers(a, s).depth = a.depth
         /\ HomePointers(a, s).external = a.external
         /\ HomePointers(a, s).format = a.format
         /\ HomePointers(a, s).layout = a.layout
         /\ HomePointers(a, s).input = a.input
BY DEF HomePointers, Attributes

LEMMA Repoints ==
  ASSUME class \in Classes
  PROVE  Members[class].repoints <=> class \in {"shader", "subpass"}
BY DEF Members, Classes, Raii, AllocatorMembers, BufferMembers, ShaderMembers, SubPassMembers,
       PipelineMembers, PipelineCacheMembers, PipelineLayoutMembers, SemaphoreMembers,
       TimelineMembers, FenceMembers, InstanceMembers, CommandBufferMembers,
       RenderPassMembers, FrameBufferMembers, SwapChainMembers

\* A constructor ends: the pointers lead home, the layout and the vertex input
\* are those the pipeline was made with.
LEMMA WholeFinish ==
  ASSUME TypeOK, WholeInv, NEW s \in Slots, FinishConstruction(s)
  PROVE  WholeInv'
<1>1. attr[s] \in Attributes /\ attr \in [Slots -> Attributes] /\ stage[s] = "building"
      /\ stage \in [Slots -> {"absent", "building", "alive", "hollow"}]
  BY DEF TypeOK, FinishConstruction
<1>2. /\ stage' = [stage EXCEPT ![s] = "alive"]
      /\ own' = own /\ class' = class
  BY DEF FinishConstruction
<1> DEFINE home == HomePointers(attr[s], s)
           layout == IF class = "pipeline" THEN ActiveLayout(s) ELSE Null
           a == [home EXCEPT !.layout = layout, !.input = VertexInput(attr[s].format),
                             !.data = attr[s].persistent]
<1>3. attr' = [attr EXCEPT ![s] = a]
  BY DEF FinishConstruction
<1>4. /\ home \in Attributes
      /\ home.points = IF class = "shader" \/ attr[s].depth THEN s ELSE attr[s].points
      /\ home.depth = attr[s].depth /\ home.external = attr[s].external
      /\ home.format = attr[s].format
  BY <1>1, HomeFields
<1> HIDE DEF home, layout
<1>5. /\ a.points = home.points /\ a.depth = home.depth /\ a.external = home.external
      /\ a.format = home.format /\ a.layout = layout /\ a.input = VertexInput(attr[s].format)
  BY <1>4 DEF Attributes
<1>6. attr'[s] = a /\ stage'[s] = "alive"
  BY <1>1, <1>2, <1>3
<1> HIDE DEF a
<1>7. a.format = "Mesh" <=> a.input = "absent"
  BY <1>1, <1>4, <1>5 DEF VertexInput, Attributes
<1>8. class = "pipeline" => LayoutHandle(s)' = a.layout
  BY <1>2, <1>4, <1>5, <1>6 DEF LayoutHandle, ActiveLayout, layout
<1>9. WholeAt(s)
  BY DEF WholeInv
<1>10. WholeAt(s)'
  BY <1>1, <1>2, <1>4, <1>5, <1>6, <1>7, <1>8, <1>9 DEF WholeAt, Points, IsMeshPipeline
<1>11. ASSUME NEW r \in Slots, r # s PROVE WholeAt(r)'
  <2>1. stage'[r] = stage[r] /\ attr'[r] = attr[r] /\ own'[r] = own[r]
    BY <1>1, <1>2, <1>3, <1>11
  <2> QED
    BY <1>2, <2>1, WholeLeft DEF WholeInv
<1> QED
  BY <1>10, <1>11 DEF WholeInv

\* A moved or copied object is whole where it now is.
LEMMA WholeThere ==
  ASSUME TypeOK, WholeInv, NEW to \in Slots, NEW from \in Slots, stage[from] = "alive",
         class' = class, stage'[to] = "alive", attr'[to] = Repointed(attr[from], to),
         class = "pipeline" => own'[to] = own[from]
  PROVE  WholeAt(to)'
<1>1. attr[from] \in Attributes /\ class \in Classes
  BY DEF TypeOK
<1>2. WholeAt(from)
  BY DEF WholeInv
<1>3. CASE class \in {"shader", "subpass"}
  <2>1. attr'[to] = HomePointers(attr[from], to)
    BY <1>1, <1>3, Repoints DEF Repointed
  <2>2. /\ attr'[to].depth = attr[from].depth
        /\ attr'[to].points = IF class = "shader" \/ attr[from].depth THEN to
                              ELSE attr[from].points
    BY <1>1, <2>1, HomeFields
  <2> QED
    BY <1>2, <1>3, <2>2 DEF WholeAt, Points
<1>4. CASE class \notin {"shader", "subpass"}
  <2>1. attr'[to] = attr[from]
    BY <1>1, <1>4, Repoints DEF Repointed
  <2>2. ~attr[from].depth /\ attr[from].points = Null
    BY <1>2, <1>4 DEF WholeAt, Points
  <2>3. class = "pipeline" => LayoutHandle(to)' = LayoutHandle(from)
    BY <2>1 DEF LayoutHandle
  <2> QED
    BY <1>2, <1>4, <2>1, <2>2, <2>3 DEF WholeAt, Points, IsMeshPipeline
<1> QED
  BY <1>3, <1>4

LEMMA WholeMove ==
  ASSUME TypeOK, WholeInv, NEW to \in Slots, NEW from \in Slots,
         MoveConstruct(to, from) \/ MoveAssign(to, from)
  PROVE  WholeInv'
<1>1. attr \in [Slots -> Attributes] /\ own \in [Slots -> [Fields -> Handles \cup {Null}]]
      /\ stage \in [Slots -> {"absent", "building", "alive", "hollow"}]
  BY DEF TypeOK
<1>2. PICK F :
        /\ to # from /\ stage[from] = "alive" /\ class' = class
        /\ stage' = [stage EXCEPT ![to] = "alive", ![from] = "hollow"]
        /\ own' = [own EXCEPT ![to] = own[from], ![from] = F]
        /\ attr' = [attr EXCEPT ![to] = Repointed(attr[from], to), ![from] = Handed(@)]
  BY DEF MoveConstruct, MoveAssign
<1>3. stage'[to] = "alive" /\ stage'[from] = "hollow" /\ own'[to] = own[from]
      /\ attr'[to] = Repointed(attr[from], to)
  BY <1>1, <1>2
<1>4. attr'[from] = Handed(attr[from])
  BY <1>1, <1>2
<1>5. attr'[from].depth = attr[from].depth
  BY <1>1, <1>4 DEF Handed, Attributes
<1>6. WholeAt(from)'
  BY <1>2, <1>3, <1>5 DEF WholeInv, WholeAt
<1>7. WholeAt(to)'
  BY <1>2, <1>3, WholeThere
<1>8. ASSUME NEW r \in Slots, r # to, r # from PROVE WholeAt(r)'
  <2>1. stage'[r] = stage[r] /\ attr'[r] = attr[r] /\ own'[r] = own[r]
    BY <1>1, <1>2, <1>8
  <2> QED
    BY <1>2, <2>1, WholeLeft DEF WholeInv
<1> QED
  BY <1>6, <1>7, <1>8 DEF WholeInv

LEMMA WholeCopy ==
  ASSUME TypeOK, WholeInv, NEW to \in Slots, NEW from \in Slots,
         CopyConstruct(to, from) \/ CopyAssign(to, from)
  PROVE  WholeInv'
<1>1. attr \in [Slots -> Attributes]
      /\ stage \in [Slots -> {"absent", "building", "alive", "hollow"}]
  BY DEF TypeOK
<1>2. /\ class = "subpass" /\ class' = class /\ stage[from] = "alive" /\ own' = own
      /\ stage' = [stage EXCEPT ![to] = "alive"]
      /\ attr' = [attr EXCEPT ![to] = Repointed(attr[from], to)]
  BY DEF CopyConstruct, CopyAssign
<1>3. WholeAt(to)'
  BY <1>1, <1>2, WholeThere
<1>4. ASSUME NEW r \in Slots, r # to PROVE WholeAt(r)'
  <2>1. stage'[r] = stage[r] /\ attr'[r] = attr[r] /\ own'[r] = own[r]
    BY <1>1, <1>2, <1>4
  <2> QED
    BY <1>2, <2>1, WholeLeft DEF WholeInv
<1> QED
  BY <1>3, <1>4 DEF WholeInv

\* Mapping is for buffers, and changes no pointer.
LEMMA WholeMapped ==
  ASSUME TypeOK, WholeInv, NEW s \in Slots, Map(s) \/ Unmap(s)
  PROVE  WholeInv'
<1>1. attr \in [Slots -> Attributes]
  BY DEF TypeOK
<1>2. PICK d : /\ class = "buffer" /\ class' = class /\ UNCHANGED <<stage, own>>
               /\ attr' = [attr EXCEPT ![s].data = d]
  BY DEF Map, Unmap
<1>3. \A r \in Slots : attr'[r].points = attr[r].points /\ attr'[r].depth = attr[r].depth
  BY <1>1, <1>2 DEF Attributes
<1> QED
  BY <1>2, <1>3 DEF WholeInv, WholeAt, Points

LEMMA NextWhole == TypeOK /\ WholeInv /\ [Next]_vars => WholeInv'
<1> SUFFICES ASSUME TypeOK, WholeInv, [Next]_vars PROVE WholeInv'
  OBVIOUS
<1>1. class' = class
  BY ClassKept
<1>2. /\ attr \in [Slots -> Attributes] /\ own \in [Slots -> [Fields -> Handles \cup {Null}]]
      /\ stage \in [Slots -> {"absent", "building", "alive", "hollow"}]
  BY DEF TypeOK
<1>3. CASE UNCHANGED vars
  BY <1>1, <1>3, WholeLeft DEF vars, WholeInv
<1>4. ASSUME NEW s \in Slots, Construct(s) PROVE WholeInv'
  <2>1. PICK a \in Arguments : attr' = [attr EXCEPT ![s] = a]
    BY <1>4 DEF Construct
  <2>2. stage' = [stage EXCEPT ![s] = "building"] /\ own' = own
    BY <1>4 DEF Construct
  <2>3. attr'[s] = a /\ stage'[s] = "building"
    BY <1>2, <2>1, <2>2
  <2>4. WholeAt(s)'
    BY <1>1, <2>3, ArgumentsPlain DEF WholeAt
  <2>5. ASSUME NEW r \in Slots, r # s PROVE WholeAt(r)'
    <3>1. stage'[r] = stage[r] /\ attr'[r] = attr[r] /\ own'[r] = own[r]
      BY <1>2, <2>1, <2>2, <2>5
    <3> QED
      BY <1>1, <3>1, WholeLeft DEF WholeInv
  <2> QED
    BY <2>4, <2>5 DEF WholeInv
<1>5. ASSUME NEW s \in Slots, Create(s) PROVE WholeInv'
  <2>1. stage[s] = "building" /\ stage' = stage /\ attr' = attr
    BY <1>5 DEF Create, MoreSteps
  <2>2. \A r \in Slots : r # s => own'[r] = own[r]
    BY <1>2, <1>5 DEF Create
  <2>3. WholeAt(s)'
    BY <1>1, <2>1 DEF WholeInv, WholeAt
  <2> QED
    BY <1>1, <2>1, <2>2, <2>3, WholeLeft DEF WholeInv
<1>6. ASSUME NEW s \in Slots, GoWithout(s) PROVE WholeInv'
  BY <1>1, <1>6, WholeLeft DEF GoWithout, WholeInv
<1>7. ASSUME NEW s \in Slots, Throw(s) \/ Destroy(s) PROVE WholeInv'
  <2>1. /\ stage' = [stage EXCEPT ![s] = "absent"]
        /\ own' = [own EXCEPT ![s] = Empty]
        /\ attr' = [attr EXCEPT ![s] = Blank]
    BY <1>7 DEF Throw, Destroy
  <2>2. WholeAt(s)'
    BY <1>2, <2>1, WholeBlank
  <2>3. ASSUME NEW r \in Slots, r # s PROVE WholeAt(r)'
    <3>1. stage'[r] = stage[r] /\ attr'[r] = attr[r] /\ own'[r] = own[r]
      BY <1>2, <2>1, <2>3
    <3> QED
      BY <1>1, <3>1, WholeLeft DEF WholeInv
  <2> QED
    BY <2>2, <2>3 DEF WholeInv
<1>8. ASSUME NEW s \in Slots, FinishConstruction(s) PROVE WholeInv'
  BY <1>8, WholeFinish
<1>9. ASSUME NEW s \in Slots, Map(s) \/ Unmap(s) PROVE WholeInv'
  BY <1>9, WholeMapped
<1>10. ASSUME NEW to \in Slots, NEW from \in Slots, MoveConstruct(to, from) \/ MoveAssign(to, from)
       PROVE  WholeInv'
  BY <1>10, WholeMove
<1>11. ASSUME NEW to \in Slots, NEW from \in Slots, CopyConstruct(to, from) \/ CopyAssign(to, from)
       PROVE  WholeInv'
  BY <1>11, WholeCopy
<1> QED
  BY <1>3, <1>4, <1>5, <1>6, <1>7, <1>8, <1>9, <1>10, <1>11 DEF Next

\* However shaders, sub-passes and pipelines are moved and copied, their pointers
\* lead into themselves, and a pipeline answers with the layout and the kind it
\* was created with (vulkan_shader.cpp, vulkan_sub_pass.cpp, vulkan_pipeline.cpp).
THEOREM ObjectsKeptWhole == Spec => []KeptWhole
<1>1. Init => WholeInv
  <2> SUFFICES ASSUME Init, NEW s \in Slots PROVE WholeAt(s)
    BY DEF WholeInv
  <2>1. stage[s] = "absent" /\ attr[s] = Blank
    BY DEF Init
  <2>2. ~Blank.depth
    BY DEF Blank
  <2> QED
    BY <2>1, <2>2 DEF WholeAt
<1>2. TypeOK /\ WholeInv /\ [Next]_vars => WholeInv'
  BY NextWhole
<1>3. WholeInv => KeptWhole
  BY DEF WholeInv, WholeAt, Points, KeptWhole
<1> QED
  BY <1>1, <1>2, <1>3, TypeCorrect, PTL DEF Spec
=============================================================================

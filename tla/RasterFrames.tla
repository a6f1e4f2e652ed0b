---------------------------- MODULE RasterFrames ----------------------------
(***************************************************************************)
(* The frame loop of the Vulkan raster backend, driven by the standard     *)
(* render-graph backend: one render thread records and submits frames, the *)
(* GPU and the presentation engine run behind it.                          *)
(*                                                                         *)
(*   App thread   BeginFrame; Execute(surface)*; Present, with surfaces    *)
(*                created, updated and removed between frames              *)
(*   GPU          retires submitted jobs in submission order, each once    *)
(*                its acquire semaphore is signalled (external)            *)
(*   WSI          signals acquire semaphores, consumes presents, makes     *)
(*                swapchains out of date, minimises windows (external)     *)
(*                                                                         *)
(* A "slot" is an index into SurfaceData::frames, a "section" an index     *)
(* into VulkanFrameAllocator::frames_; both rings have FrameCount entries. *)
(***************************************************************************)
EXTENDS Naturals, FiniteSets, Sequences

CONSTANTS
    Surfaces,     \* surface ids the application may have alive
    NoSurface,    \* no surface is being executed
    FrameCount,   \* VulkanRasterBackend::frameCount and VulkanFrameAllocator::FrameCount
    ImageCounts,  \* image counts a created swapchain may have
    PassOrders,   \* execution orders Compile may return, as sequences of pass kinds
    MaxFrames,    \* bound: frames begun
    MaxUpdates    \* bound: calls of UpdateSurface

ASSUME NoSurfaceAssumption == NoSurface \notin Surfaces
ASSUME FrameCountAssumption == FrameCount \in Nat \ {0}
ASSUME ImageCountsAssumption == ImageCounts \subseteq Nat \ {0}
ASSUME PassOrdersAssumption == PassOrders \subseteq Seq({"render", "compute"})
ASSUME BoundsAssumption == MaxFrames \in Nat /\ MaxUpdates \in Nat

Slots == 0 .. FrameCount - 1
\* Mutant: the ring index is not wrapped.
NextSlotUnwrapped(i) == i + 1

NextSlot(i) == (i + 1) % FrameCount

NoImage == 0     \* images are numbered from 1

Jobs == [surface : Surfaces, slot : Slots, value : Nat, section : Slots, frame : Nat]
Presents == [surface : Surfaces, slot : Slots, image : Nat, frame : Nat]

VARIABLES
    pc,            \* where the app thread is
    order,         \* kinds of the passes of this frame, in execution order
    passIndex,     \* position of the pass being executed, 0 between passes
    todo,          \* surfaces this frame still has to Execute
    target,        \* the surface being executed
    frameNo,       \* frames begun
    updates,       \* calls of UpdateSurface so far
    currentFrame,  \* VulkanRasterBackend::currentFrame_
    section,       \* VulkanFrameAllocator::currentFrame_
    live,          \* keys of surfaces_
    imageCount,    \* images of the surface's swapchain
    framebuffers,  \* swapchainFramebuffers.size()
    fbCurrent,     \* the framebuffers view the current swapchain's images
    needsSwapchainRecreation,
    frameAcquired,
    imageIndex,    \* currentAcquiredImageIndex (and the swapchain's activeImageIndex_)
    timelineValue, \* FrameData::timelineValue
    readyToPresent,
    commandBuffer, \* "initial", "recording" or "executable"
    jobs,          \* submitted, not retired
    presents,      \* presented, wait not yet executed
    timeline,      \* counter of each frame's timeline semaphore
    imageAvailable,\* binary semaphores: "idle", "pending" signal, "signaled"
    renderFinished,\* binary semaphores: TRUE when signaled
    free,          \* swapchain images the presentation engine can hand out
    outOfDate,     \* the swapchain no longer fits the surface
    minimized      \* the surface has a zero extent

appVars == <<pc, order, passIndex, todo, target, frameNo, updates>>
ringVars == <<currentFrame, section>>
chainVars == <<live, imageCount, framebuffers, fbCurrent, needsSwapchainRecreation>>
frameVars == <<frameAcquired, imageIndex, timelineValue, readyToPresent, commandBuffer>>
gpuVars == <<jobs, presents, timeline, imageAvailable, renderFinished>>
windowVars == <<free, outOfDate, minimized>>
vars == <<appVars, ringVars, chainVars, frameVars, gpuVars, windowVars>>

-----------------------------------------------------------------------------
(* Operators shared by the actions *)

PerSlot(v) == [f \in Slots |-> v]

\* vkDeviceWaitIdle: the caller proceeds once every submitted job has retired.
DeviceIdle == jobs = {}

IsFirstPass == passIndex = 1
IsLastPass == passIndex = Len(order)

\* The loop of Execute moves to the next pass, or ends for this surface.
NextPass ==
    IF IsLastPass
    THEN pc' = "execute" /\ passIndex' = 0 /\ target' = NoSurface
    ELSE pc' = "graph" /\ passIndex' = passIndex + 1 /\ target' = target

\* A new swapchain replaces that of s: its images are all free, and a present
\* still pending names an image of the chain that is gone.
ReplaceSwapchain(s, n) ==
    /\ imageCount' = [imageCount EXCEPT ![s] = n]
    /\ free' = [free EXCEPT ![s] = 1 .. n]
    /\ outOfDate' = [outOfDate EXCEPT ![s] = FALSE]
    /\ presents' = {IF p.surface = s THEN [p EXCEPT !.image = NoImage] ELSE p : p \in presents}

-----------------------------------------------------------------------------
(* The application between frames *)

Init ==
    /\ pc = "app" /\ order = << >> /\ passIndex = 0 /\ todo = {} /\ target = NoSurface
    /\ frameNo = 0 /\ updates = 0 /\ currentFrame = 0 /\ section = 0
    /\ live = {}
    /\ imageCount = [s \in Surfaces |-> 0]
    /\ framebuffers = [s \in Surfaces |-> 0]
    /\ fbCurrent = [s \in Surfaces |-> FALSE]
    /\ needsSwapchainRecreation = [s \in Surfaces |-> FALSE]
    /\ frameAcquired = [s \in Surfaces |-> FALSE]
    /\ imageIndex = [s \in Surfaces |-> NoImage]
    /\ timelineValue = [s \in Surfaces |-> PerSlot(0)]
    /\ readyToPresent = [s \in Surfaces |-> PerSlot(FALSE)]
    /\ commandBuffer = [s \in Surfaces |-> PerSlot("initial")]
    /\ jobs = {} /\ presents = {}
    /\ timeline = [s \in Surfaces |-> PerSlot(0)]
    /\ imageAvailable = [s \in Surfaces |-> PerSlot("idle")]
    /\ renderFinished = [s \in Surfaces |-> PerSlot(FALSE)]
    /\ free = [s \in Surfaces |-> {}]
    /\ outOfDate = [s \in Surfaces |-> FALSE]
    /\ minimized = [s \in Surfaces |-> FALSE]

\* CreateSurface: a swapchain and FrameCount fresh sets of frame resources.
\* Surface ids are never reused, so a removed surface's name starts afresh.
CreateSurface(s) ==
    /\ pc = "app" /\ s \notin live
    /\ live' = live \cup {s}
    /\ \E n \in ImageCounts : ReplaceSwapchain(s, n)
    /\ framebuffers' = [framebuffers EXCEPT ![s] = 0]
    /\ fbCurrent' = [fbCurrent EXCEPT ![s] = FALSE]
    /\ needsSwapchainRecreation' = [needsSwapchainRecreation EXCEPT ![s] = FALSE]
    /\ frameAcquired' = [frameAcquired EXCEPT ![s] = FALSE]
    /\ imageIndex' = [imageIndex EXCEPT ![s] = NoImage]
    /\ timelineValue' = [timelineValue EXCEPT ![s] = PerSlot(0)]
    /\ readyToPresent' = [readyToPresent EXCEPT ![s] = PerSlot(FALSE)]
    /\ commandBuffer' = [commandBuffer EXCEPT ![s] = PerSlot("initial")]
    /\ timeline' = [timeline EXCEPT ![s] = PerSlot(0)]
    /\ imageAvailable' = [imageAvailable EXCEPT ![s] = PerSlot("idle")]
    /\ renderFinished' = [renderFinished EXCEPT ![s] = PerSlot(FALSE)]
    /\ UNCHANGED <<appVars, ringVars, jobs, minimized>>

\* RemoveSurface: waits for the device, then drops everything of the surface.
RemoveSurface(s) ==
    /\ pc = "app" /\ s \in live /\ DeviceIdle
    /\ live' = live \ {s}
    /\ presents' = {p \in presents : p.surface # s}
    /\ free' = [free EXCEPT ![s] = {}]
    /\ UNCHANGED <<appVars, ringVars, imageCount, framebuffers, fbCurrent,
                   needsSwapchainRecreation, frameVars, jobs, timeline, imageAvailable,
                   renderFinished, outOfDate, minimized>>

\* UpdateSurface: creates the new swapchain and assigns it over the old one,
\* whose destructor destroys the image views before it waits for the device.
\* The framebuffers and the depth buffer are left as they are.
UpdateSurface(s) ==
    /\ pc = "app" /\ s \in live /\ updates < MaxUpdates
    /\ updates' = updates + 1
    /\ pc' = "update" /\ target' = s
    /\ UNCHANGED <<order, passIndex, todo, frameNo, ringVars, chainVars, frameVars,
                   gpuVars, windowVars>>

FinishUpdateSurface ==
    /\ pc = "update" /\ DeviceIdle
    /\ \E n \in ImageCounts : ReplaceSwapchain(target, n)
    /\ fbCurrent' = [fbCurrent EXCEPT ![target] = FALSE]
    /\ pc' = "app" /\ target' = NoSurface
    /\ UNCHANGED <<order, passIndex, todo, frameNo, updates, ringVars, live, framebuffers,
                   needsSwapchainRecreation, frameVars, jobs, timeline, imageAvailable,
                   renderFinished, minimized>>

\* StandardRenderGraphBackend::BeginFrame resets the frame allocator, which
\* moves to its next section; the passes of the frame are then declared.
BeginFrame(o, targets) ==
    /\ pc = "app" /\ frameNo < MaxFrames
    /\ frameNo' = frameNo + 1
    /\ section' = NextSlot(section)
    /\ order' = o /\ todo' = targets
    /\ pc' = "execute"
    /\ UNCHANGED <<passIndex, target, updates, currentFrame, chainVars, frameVars,
                   gpuVars, windowVars>>

\* StandardRenderGraphBackend::Execute for one surface; an order without
\* passes, or an invalid graph, executes nothing.
ExecuteSurface(s) ==
    /\ pc = "execute" /\ s \in todo
    /\ todo' = todo \ {s}
    /\ IF order = << >>
       THEN UNCHANGED <<pc, passIndex, target>>
       ELSE pc' = "graph" /\ passIndex' = 1 /\ target' = s
    /\ UNCHANGED <<order, frameNo, updates, ringVars, chainVars, frameVars, gpuVars, windowVars>>

\* The loop body of Execute on a compute pass: nothing, flags and all.
SkipComputePass ==
    /\ pc = "graph" /\ order[passIndex] = "compute"
    /\ NextPass
    /\ UNCHANGED <<order, todo, frameNo, updates, ringVars, chainVars, frameVars,
                   gpuVars, windowVars>>

\* ExecuteRenderPass up to its call of the raster module: AttachSurface builds
\* the framebuffers when there are none, and the callback fills the section.
RunPassCallback ==
    /\ pc = "graph" /\ order[passIndex] = "render"
    /\ IF framebuffers[target] = 0
       THEN /\ framebuffers' = [framebuffers EXCEPT ![target] = imageCount[target]]
            /\ fbCurrent' = [fbCurrent EXCEPT ![target] = TRUE]
       ELSE UNCHANGED <<framebuffers, fbCurrent>>
    /\ pc' = IF IsFirstPass THEN "first" ELSE "record"
    /\ UNCHANGED <<order, passIndex, todo, target, frameNo, updates, ringVars, live,
                   imageCount, needsSwapchainRecreation, frameVars, gpuVars, windowVars>>

-----------------------------------------------------------------------------
(* ExecutePassWithFlags, first pass *)

\* The first pass gives up: this frame records nothing for the surface.
SkipFrame ==
    /\ frameAcquired' = [frameAcquired EXCEPT ![target] = FALSE]
    /\ NextPass
    /\ UNCHANGED <<order, todo, frameNo, updates, ringVars, live, imageIndex, timelineValue,
                   readyToPresent, commandBuffer, jobs, timeline, imageAvailable,
                   renderFinished, minimized>>

\* No recreation is due.
KeepSwapchain ==
    /\ pc = "first" /\ ~needsSwapchainRecreation[target]
    /\ pc' = "wait"
    /\ UNCHANGED <<order, passIndex, todo, target, frameNo, updates, ringVars, chainVars,
                   frameVars, gpuVars, windowVars>>

\* Mutant: the framebuffers of the old swapchain are kept.
RecreateSwapchainOnly ==
    /\ pc = "first" /\ needsSwapchainRecreation[target]
    /\ DeviceIdle /\ ~minimized[target]
    /\ \E n \in ImageCounts : ReplaceSwapchain(target, n)
    /\ fbCurrent' = [fbCurrent EXCEPT ![target] = FALSE]
    /\ needsSwapchainRecreation' = [needsSwapchainRecreation EXCEPT ![target] = FALSE]
    /\ pc' = "wait"
    /\ UNCHANGED <<order, passIndex, todo, target, frameNo, updates, ringVars, live, framebuffers,
                   frameVars, jobs, timeline, imageAvailable, renderFinished, minimized>>

\* The device is synchronised, then the swapchain, the depth buffer and the
\* framebuffers are rebuilt for the surface's present extent.
RecreateSwapchain ==
    /\ pc = "first" /\ needsSwapchainRecreation[target]
    /\ DeviceIdle /\ ~minimized[target]
    /\ \E n \in ImageCounts :
         /\ ReplaceSwapchain(target, n)
         /\ framebuffers' = [framebuffers EXCEPT ![target] = n]
    /\ fbCurrent' = [fbCurrent EXCEPT ![target] = TRUE]
    /\ needsSwapchainRecreation' = [needsSwapchainRecreation EXCEPT ![target] = FALSE]
    /\ pc' = "wait"
    /\ UNCHANGED <<order, passIndex, todo, target, frameNo, updates, ringVars, live, frameVars,
                   jobs, timeline, imageAvailable, renderFinished, minimized>>

\* The window is minimised, or the new swapchain cannot be created.
SkipRecreation ==
    /\ pc = "first" /\ needsSwapchainRecreation[target] /\ DeviceIdle
    /\ SkipFrame
    /\ UNCHANGED <<imageCount, framebuffers, fbCurrent, needsSwapchainRecreation, presents,
                   free, outOfDate>>

\* Mutants: the wait is missing, or is for the value before the last.
WaitTimelineNever ==
    /\ pc = "wait" /\ pc' = "acquire"
    /\ UNCHANGED <<order, passIndex, todo, target, frameNo, updates, ringVars, chainVars,
                   frameVars, gpuVars, windowVars>>

WaitTimelineBefore ==
    /\ pc = "wait"
    /\ timelineValue[target][currentFrame] > 0 =>
         timeline[target][currentFrame] + 1 >= timelineValue[target][currentFrame]
    /\ pc' = "acquire"
    /\ UNCHANGED <<order, passIndex, todo, target, frameNo, updates, ringVars, chainVars,
                   frameVars, gpuVars, windowVars>>

\* frameTimeline->Wait(timelineValue), skipped while the value is 0.
WaitTimeline ==
    /\ pc = "wait"
    /\ timelineValue[target][currentFrame] > 0 =>
         timeline[target][currentFrame] >= timelineValue[target][currentFrame]
    /\ pc' = "acquire"
    /\ UNCHANGED <<order, passIndex, todo, target, frameNo, updates, ringVars, chainVars,
                   frameVars, gpuVars, windowVars>>

\* AcquireImage blocks until an image is free; on success the slot's timeline
\* value is raised and its command buffer is reset and begun.
AcquireImage ==
    /\ pc = "acquire" /\ ~outOfDate[target]
    /\ \E i \in free[target] :
         /\ free' = [free EXCEPT ![target] = @ \ {i}]
         /\ imageIndex' = [imageIndex EXCEPT ![target] = i]
    /\ imageAvailable' = [imageAvailable EXCEPT ![target][currentFrame] = "pending"]
    /\ frameAcquired' = [frameAcquired EXCEPT ![target] = TRUE]
    /\ timelineValue' = [timelineValue EXCEPT ![target][currentFrame] = @ + 1]
    /\ commandBuffer' = [commandBuffer EXCEPT ![target][currentFrame] = "recording"]
    /\ pc' = "record"
    /\ UNCHANGED <<order, passIndex, todo, target, frameNo, updates, ringVars, chainVars,
                   readyToPresent, jobs, presents, timeline, renderFinished, outOfDate, minimized>>

\* Mutant: the timeline value is raised before the acquire can fail.
FailAcquireRaised ==
    /\ pc = "acquire" /\ outOfDate[target]
    /\ needsSwapchainRecreation' = [needsSwapchainRecreation EXCEPT ![target] = TRUE]
    /\ timelineValue' = [timelineValue EXCEPT ![target][currentFrame] = @ + 1]
    /\ frameAcquired' = [frameAcquired EXCEPT ![target] = FALSE]
    /\ NextPass
    /\ UNCHANGED <<order, todo, frameNo, updates, ringVars, live, imageCount, framebuffers,
                   fbCurrent, imageIndex, readyToPresent, commandBuffer, gpuVars, windowVars>>

\* AcquireImage reports the swapchain out of date.
FailAcquire ==
    /\ pc = "acquire" /\ outOfDate[target]
    /\ needsSwapchainRecreation' = [needsSwapchainRecreation EXCEPT ![target] = TRUE]
    /\ SkipFrame
    /\ UNCHANGED <<imageCount, framebuffers, fbCurrent, presents, free, outOfDate>>

-----------------------------------------------------------------------------
(* ExecutePassWithFlags, all passes and last pass *)

CanRecord ==
    /\ frameAcquired[target]
    /\ imageIndex[target] <= framebuffers[target]

\* Frame not acquired, or the image has no framebuffer: the pass returns early.
SkipPass ==
    /\ pc = "record" /\ ~CanRecord
    /\ NextPass
    /\ UNCHANGED <<order, todo, frameNo, updates, ringVars, chainVars, frameVars,
                   gpuVars, windowVars>>

\* The pass is recorded into the slot's command buffer.
RecordPass ==
    /\ pc = "record" /\ CanRecord /\ ~IsLastPass
    /\ NextPass
    /\ UNCHANGED <<order, todo, frameNo, updates, ringVars, chainVars, frameVars,
                   gpuVars, windowVars>>

\* The last pass also ends the command buffer and submits it: the job waits for
\* the slot's imageAvailable and signals its renderFinished and its timeline.
SubmitFrame ==
    /\ pc = "record" /\ CanRecord /\ IsLastPass
    /\ jobs' = jobs \cup {[surface |-> target, slot |-> currentFrame,
                           value |-> timelineValue[target][currentFrame],
                           section |-> section, frame |-> frameNo]}
    /\ commandBuffer' = [commandBuffer EXCEPT ![target][currentFrame] = "executable"]
    /\ readyToPresent' = [readyToPresent EXCEPT ![target][currentFrame] = TRUE]
    /\ frameAcquired' = [frameAcquired EXCEPT ![target] = FALSE]
    /\ NextPass
    /\ UNCHANGED <<order, todo, frameNo, updates, ringVars, chainVars, imageIndex, timelineValue,
                   presents, timeline, imageAvailable, renderFinished, windowVars>>

\* What Present does with the set of ready surfaces in slot f of the ring, which
\* then moves to slot g.
PresentReady(ready, f, g) ==
    /\ pc = "execute" /\ todo = {}
    /\ pc' = "app" /\ order' = << >>
    /\ presents' = presents \cup
         {[surface |-> s, slot |-> f, image |-> imageIndex[s], frame |-> frameNo] : s \in ready}
    /\ readyToPresent' =
         [s \in Surfaces |-> IF s \in ready THEN [readyToPresent[s] EXCEPT ![f] = FALSE]
                             ELSE readyToPresent[s]]
    /\ currentFrame' = g
    /\ UNCHANGED <<passIndex, todo, target, frameNo, updates, section, chainVars, frameAcquired,
                   imageIndex, timelineValue, commandBuffer, jobs, timeline, imageAvailable,
                   renderFinished, windowVars>>

\* Mutants: the ring advances first; one surface is presented; the ring advances
\* once for every surface presented.
PresentAfterAdvance ==
    LET f == NextSlot(currentFrame) IN
    PresentReady({s \in live : readyToPresent[s][f]}, f, f)

PresentOne ==
    LET ready == {s \in live : readyToPresent[s][currentFrame]} IN
    IF ready = {} THEN PresentReady({}, currentFrame, NextSlot(currentFrame))
    ELSE \E s \in ready : PresentReady({s}, currentFrame, NextSlot(currentFrame))

PresentAdvanceEach ==
    LET ready == {s \in live : readyToPresent[s][currentFrame]} IN
    PresentReady(ready, currentFrame, (currentFrame + Cardinality(ready)) % FrameCount)

\* Present: every surface whose frame is ready is presented, in one call; the
\* ring advances unless there is no surface at all.
Present ==
    IF live = {}
    THEN PresentReady({}, currentFrame, currentFrame)
    ELSE PresentReady({s \in live : readyToPresent[s][currentFrame]}, currentFrame,
                      NextSlot(currentFrame))

-----------------------------------------------------------------------------
(* The GPU and the window system *)

\* The oldest job runs once its image is available, and signals.
RetireJob(j) ==
    /\ \A k \in jobs : j.frame <= k.frame
    /\ imageAvailable[j.surface][j.slot] = "signaled"
    /\ jobs' = jobs \ {j}
    /\ imageAvailable' = [imageAvailable EXCEPT ![j.surface][j.slot] = "idle"]
    /\ renderFinished' = [renderFinished EXCEPT ![j.surface][j.slot] = TRUE]
    /\ timeline' = [timeline EXCEPT ![j.surface][j.slot] = j.value]
    /\ UNCHANGED <<appVars, ringVars, chainVars, frameVars, presents, windowVars>>

\* The presentation engine is done reading the acquired image.
SignalImageAvailable(s, f) ==
    /\ imageAvailable[s][f] = "pending"
    /\ imageAvailable' = [imageAvailable EXCEPT ![s][f] = "signaled"]
    /\ UNCHANGED <<appVars, ringVars, chainVars, frameVars, jobs, presents, timeline,
                   renderFinished, windowVars>>

\* The oldest present executes its wait and its image returns to the swapchain.
CompletePresent(p) ==
    /\ \A q \in presents : p.frame <= q.frame
    /\ renderFinished[p.surface][p.slot]
    /\ presents' = presents \ {p}
    /\ renderFinished' = [renderFinished EXCEPT ![p.surface][p.slot] = FALSE]
    /\ free' = [free EXCEPT ![p.surface] = @ \cup ({p.image} \ {NoImage})]
    /\ UNCHANGED <<appVars, ringVars, chainVars, frameVars, jobs, timeline, imageAvailable,
                   outOfDate, minimized>>

\* The window changes size: its swapchain is out of date.  Minimising is a
\* change of size to nothing.
ResizeWindow(s) ==
    /\ s \in live
    /\ outOfDate' = [outOfDate EXCEPT ![s] = TRUE]
    /\ minimized' \in {minimized, [minimized EXCEPT ![s] = ~@]}
    /\ UNCHANGED <<appVars, ringVars, chainVars, frameVars, gpuVars, free>>

\* The bounded run is over: the application stops between frames.
Stopped == pc = "app" /\ frameNo = MaxFrames /\ UNCHANGED vars

-----------------------------------------------------------------------------
\* The body of StandardRenderGraphBackend::Execute and what it calls.
ExecuteStep ==
    \/ \E s \in Surfaces : ExecuteSurface(s)
    \/ SkipComputePass
    \/ RunPassCallback
    \/ KeepSwapchain
    \/ RecreateSwapchain
    \/ SkipRecreation
    \/ WaitTimeline
    \/ AcquireImage
    \/ FailAcquire
    \/ SkipPass
    \/ RecordPass
    \/ SubmitFrame

AppStep ==
    \/ \E s \in Surfaces : CreateSurface(s) \/ RemoveSurface(s) \/ UpdateSurface(s)
    \/ FinishUpdateSurface
    \/ \E o \in PassOrders, targets \in SUBSET live : BeginFrame(o, targets)
    \/ ExecuteStep
    \/ Present

DeviceStep ==
    \/ \E j \in jobs : RetireJob(j)
    \/ \E s \in Surfaces, f \in Slots : SignalImageAvailable(s, f)
    \/ \E p \in presents : CompletePresent(p)

Next ==
    \/ AppStep
    \/ DeviceStep
    \/ \E s \in Surfaces : ResizeWindow(s)
    \/ Stopped

Spec == Init /\ [][Next]_vars

\* The render thread keeps executing the frame it began; the GPU and the
\* presentation engine make progress.  Nothing obliges the application to begin
\* a frame or the user to touch the window.
Fairness ==
    /\ WF_vars(ExecuteStep \/ Present \/ FinishUpdateSurface)
    /\ WF_vars(\E j \in jobs : RetireJob(j))
    /\ \A s \in Surfaces, f \in Slots : WF_vars(SignalImageAvailable(s, f))
    /\ WF_vars(\E p \in presents : CompletePresent(p))

FairSpec == Spec /\ Fairness

-----------------------------------------------------------------------------
(* Properties *)

AppTypes ==
    /\ pc \in {"app", "update", "execute", "graph", "first", "wait", "acquire", "record"}
    /\ order \in Seq({"render", "compute"})
    /\ passIndex \in 0 .. Len(order)
    /\ live \subseteq Surfaces
    /\ todo \subseteq live
    /\ target \in Surfaces \cup {NoSurface}
    /\ frameNo \in Nat /\ updates \in Nat
    /\ currentFrame \in Slots /\ section \in Slots

ChainTypes ==
    /\ imageCount \in [Surfaces -> Nat]
    /\ framebuffers \in [Surfaces -> Nat]
    /\ fbCurrent \in [Surfaces -> BOOLEAN]
    /\ needsSwapchainRecreation \in [Surfaces -> BOOLEAN]
    /\ free \in [Surfaces -> SUBSET Nat]
    /\ outOfDate \in [Surfaces -> BOOLEAN]
    /\ minimized \in [Surfaces -> BOOLEAN]

FrameTypes ==
    /\ frameAcquired \in [Surfaces -> BOOLEAN]
    /\ imageIndex \in [Surfaces -> Nat]
    /\ timelineValue \in [Surfaces -> [Slots -> Nat]]
    /\ readyToPresent \in [Surfaces -> [Slots -> BOOLEAN]]
    /\ commandBuffer \in [Surfaces -> [Slots -> {"initial", "recording", "executable"}]]

GpuTypes ==
    /\ jobs \subseteq Jobs
    /\ presents \subseteq Presents
    /\ timeline \in [Surfaces -> [Slots -> Nat]]
    /\ imageAvailable \in [Surfaces -> [Slots -> {"idle", "pending", "signaled"}]]
    /\ renderFinished \in [Surfaces -> [Slots -> BOOLEAN]]

\* Every variable holds a value of its type.
TypeOK == AppTypes /\ ChainTypes /\ FrameTypes /\ GpuTypes

InFlight(s, f) == {j \in jobs : j.surface = s /\ j.slot = f}

\* The slot's command buffer is reset and recorded only once the GPU is done
\* with its previous submission: the timeline wait of ExecutePassWithFlags
\* covers every job of the slot, whatever frames were skipped in between.
CommandBufferFree ==
    \A s \in Surfaces, f \in Slots :
        commandBuffer[s][f] = "recording" => InFlight(s, f) = {}

\* The semaphore handed to vkAcquireNextImageKHR has no signal pending and is
\* not signalled: the job that waited for it has run.
AcquireSemaphoreIdle ==
    pc = "acquire" => imageAvailable[target][currentFrame] = "idle"

\* While a frame is being recorded, no job an earlier frame submitted for the
\* same surface still reads the section the callbacks fill: the two rings, of
\* Present and of BeginFrame, never drift apart while jobs are in flight.
SectionFreeOnceAcquired ==
    (pc = "record" \/ (pc = "graph" /\ passIndex > 1)) /\ frameAcquired[target] =>
        \A j \in jobs : j.surface = target /\ j.frame < frameNo => j.section # section

\* The recorded render passes use framebuffers over the images of the present
\* swapchain, one per image, across every recreation.
FramebuffersCurrent ==
    pc = "record" /\ frameAcquired[target] =>
        fbCurrent[target] /\ framebuffers[target] = imageCount[target]

\* A frame whose image was acquired is submitted by the end of its Execute, and
\* a submitted frame is presented by the end of the frame: Present takes what
\* Execute left ready, nothing waits for a later turn of the ring.
AcquiredFramesPresented ==
    pc = "app" => \A s \in live :
        ~frameAcquired[s] /\ \A f \in Slots : ~readyToPresent[s][f]

\* The callbacks write a section of the frame allocator only when no earlier
\* frame's job in flight reads it.
SectionFreeWhenWritten ==
    pc = "graph" /\ order[passIndex] = "render" =>
        \A j \in jobs : j.frame < frameNo => j.section # section

\* A frame that was begun ends: no timeline wait, acquire or device
\* synchronisation blocks the render thread for ever.
FramesComplete == pc # "app" ~> pc = "app"

\* What is submitted is handed to presentation, and its slot comes back: no frame
\* stays ready for ever and no job waits for an image that is never available.
SubmittedFramesRetire ==
    \A s \in Surfaces, f \in Slots :
        readyToPresent[s][f] ~> ~readyToPresent[s][f] /\ InFlight(s, f) = {}

\* Who holds a slot: the CPU from the reset of the command buffer to its
\* submission, the GPU from submission to retirement.
Owner ==
    [s \in Surfaces |-> [f \in Slots |->
        IF commandBuffer[s][f] = "recording" THEN "cpu"
        ELSE IF InFlight(s, f) # {} THEN "gpu" ELSE "nobody"]]

Ring == INSTANCE FrameSlots WITH owner <- Owner

\* The frame loop implements the ring of frame slots: recording, submission and
\* retirement hand each slot on, and the CPU never takes one the GPU holds.
ImplementsFrameSlots == Ring!Spec

=============================================================================

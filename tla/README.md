# Soul Engine in TLA+

A formal model of the concurrent, order-sensitive and failure-prone parts of Soul
Engine (C++20 modules, Vulkan, boost.fiber) and of its example programs, checked
with TLC and, for seven of its parts, proved with TLAPS: the frame loop, the scheduling
algorithm, the tasks, the render graph, the Vulkan objects, the meshlets and the example
programs. Every safety and action property the passing runs check is also a theorem,
some under hypotheses that section 6 names. Paths below are relative to `src/` of the repository.

1. [The system](#1-the-system)
2. [Modules and how they correspond to the code](#2-modules-and-how-they-correspond-to-the-code)
3. [Runs](#3-runs)
4. [Bounds](#4-bounds)
5. [Fairness](#5-fairness)
6. [Proofs](#6-proofs)
7. [Where the code and its comments disagree](#7-where-the-code-and-its-comments-disagree)
8. [What is not modelled](#8-what-is-not-modelled)
9. [Plan](#9-plan)

## 1. The system

The engine is a set of C++ modules, each with an interface and one or more
backends. A frame goes through them in this order:

    engine loop -> GUI builds draw lists -> render graph (declare, Compile)
      -> render graph backend (BeginFrame, Execute, callbacks of passes)
      -> raster backend (record, submit, Present) -> GPU and window system

Beside it, the scheduler runs tasks as fibers on one worker thread per core. The
Vulkan backend is built from classes that own handles, and the example programs
use the whole: `viewer` opens a window, uploads a mesh and draws it until the
engine is told to stop, `info` prints what the machine can do and ends.

| component | state | operations | who calls it | hard part |
|---|---|---|---|---|
| **frame loop** `render/raster/backend/vulkan/`, `render/graph/backend/standard/` | surfaces, each with a swapchain, framebuffers and a ring of frame slots (command buffer, two binary semaphores, a timeline semaphore and its last value); the frame allocator's own ring of sections | `CreateSurface`, `UpdateSurface`, `RemoveSurface`, `BeginFrame`, `Execute`, `ExecutePassWithFlags`, `Present` | the engine loop; the GPU and the presentation engine answer asynchronously | frames in flight, out-of-date swapchains in mid frame, minimised windows, two rings advanced by different calls |
| **fiber algorithm** `parallelism/scheduler/backend/fiber/algorithm.*`, `properties.*` | per thread: three local queues, three shared queues, a sleep flag, a condition variable | `awakened`, `pick_next`, `property_change`, `suspend_until`, `notify` | boost.fiber, and any thread that launches a task | work stealing, pushes to other threads, lost wake-ups |
| **fiber tasks** `.../fiber/scheduler.*` | count of fibers, `shouldRun_`, per fiber a count of children, mutexes and condition variables | `AddTask`, `Block`, `Yield`, `YieldUntil`, `ForEachThread`, construction and destruction | every user of tasks | counters and notifications across threads, ends of parents and children, the destructor |
| **render graph** `render/graph/` | passes, transient resources, a dirty flag, the compiled graph | declaring passes and resources, `GetRenderPass`, `Compile`, `Clear` | the application each frame | order of passes, memory shared by resources, recompilation |
| passthrough scheduler | a hook | runs a task in its caller | small programs | none |
| task graph `parallelism/graph/` | children, roots | `DependsOn`, `Execute` | applications | unfinished in the source: `Execute` runs roots only |
| **Vulkan objects** `render/raster/backend/vulkan/` (allocator, buffers, shaders, sub-passes, pipelines with cache and layout, semaphores, fences, command buffers, render passes, framebuffers, swapchains, instance) | raw handles, flags and pointers into the object itself | constructors that may throw half-way, moves, copies, `Map`, `Unmap`, destructors | the raster backend, and every vector and optional that holds one | who owns a handle after a move, a failure or a reallocation |
| **meshlets** `render/mesh/`, `resources/Shaders` | arrays of descriptors, vertex and primitive indices | `GenerateMeshlets`, the mesh shader's unpacking | viewer, GPU | offsets in bytes and words, padding, narrowed counts |
| **example programs** `examples/viewer`, `examples/info` with `engine.ixx`, `display/input`, `display/window` | camera and drag state, the mesh on the GPU, `active_` of engine and window | `OnInit`, callbacks of the mouse, `OnUpdate`, `OnShutdown` | the user, the window system | callbacks and frames share the camera; windows, surfaces and buffers that cannot be made |
| heaps | free list of texture slots, cache of samplers | `Allocate`, `Free`, `AllocateBatch`, `GetOrCreate` | renderer | slot reuse, roll-back of a batch, double free |
| command lists, render states | encoder state | record | pass callbacks | none |
| entities and components `core/composition/entity` | entities, pools indexed by class | `CreateEntity`, `AttachComponent`, `RemoveComponent`, `View` | applications | pools are created in order of first use, identifiers in order of first naming |
| events `core/composition/event` | listeners by channel and name | `Listen`, `Emit`, `Remove` | input, window | listeners that change the map they are called from |
| ring buffer, properties `structures.ixx` | head, tail, size | `Push`, index | GUI, statistics | unsigned index arithmetic |
| GUI `display/gui/` | hot and active widget, layout and clip stacks, draw lists, open dropdown, font atlas | begin and end of frame, widgets | applications | state kept between frames by identifiers |
| Vulkan device, reflection | properties, queues | selection, queries | raster backend | little control |
| primitives, material, loaders | buffers | conversions | applications | data, not control |
| compute, physics, tracer, audio, network | - | stubs | - | - |

What makes each modelled component correct:

* **Frame loop.** The CPU never records a command buffer, reuses a semaphore or
  fills an allocator section while the GPU uses it; framebuffers match the
  swapchain; every acquired frame is submitted and presented; every frame ends.
* **Fiber algorithm.** A fiber is in one place; a fiber that names a thread runs on
  it; a thread with work does not sleep for ever; ready fibers run.
* **Fiber tasks.** The counters are exact; a parent's `Block` covers its children;
  the destructor waits for everybody and returns.
* **Render graph.** Readers follow writers; no pass is dropped; resources that share
  memory are not alive together; every read has its barrier; the result
  belongs to the passes as they are now, not as they were.
* **Vulkan objects.** A live handle is in exactly one field, and the object that
  holds it will destroy it, whatever threw and however objects were moved (command
  buffers excepted, section 7); a buffer
  and the allocator agree on what is mapped; a moved or copied object does not point
  into the one it came from.
* **Meshlets.** The shader reads the triangles of the mesh, each once, and nothing
  outside the arrays.
* **Example programs.** What is drawn shows where the user turned the camera to; a
  mesh is on the GPU whole or not at all; `info` ends.

`PROJECT.json` lists every component under "components" and, under "hazards", the
places in the code that a test would hardly reach, each with the properties that
watch it or the reason there is none.

### How the modelled components meet

* The application calls the render graph's `Compile` and hands the result to the
  standard backend, whose `Execute` drives the raster backend. `RasterFrames` takes
  the orders of passes as a constant, `PassOrders`; its proofs assume that an order
  begins with a render pass. `RenderGraph!FirstPassRenders` is the other half: a graph
  that has a render pass compiles to an order that begins with one. (A graph with
  compute passes only never reaches the raster backend: `standard.ixx:98-115` skips
  compute passes.)
* `FiberTasks` runs on `FiberAlgorithm`. The former lets any free thread resume any
  ready fiber; the latter says which. `FiberAlgorithm!ReadyFibersRun` is what the
  fairness of `FiberTasks` (a thread with ready fibers makes progress) rests on.
* `Viewer` extends `Meshlets`: what `UploadMeshletMesh` puts on the GPU is what
  `GenerateMeshlets` makes of the loaded mesh. The frames the viewer draws are seen
  from the application here (`ExecutePass` either reaches the GPU or does not) and
  from the backend in `RasterFrames`, which says when it does.

## 2. Modules and how they correspond to the code

| module | models |
|---|---|
| `FrameSlots` | abstract: the owner (nobody, CPU, GPU) of each frame slot |
| `RasterFrames` | the frame loop, with the GPU and the window system around it |
| `RasterFrames_proofs` | its inductive invariant, the refinement of `FrameSlots`, no wait for what was never submitted |
| `FiberAlgorithm` | the scheduling algorithm, with boost.fiber around it |
| `FiberAlgorithm_proofs` | type correctness, no lost wake-up |
| `FiberQueues_proofs` | where the fibers are: each in one place, on the thread it requires |
| `ForkJoin` | abstract: tasks that end after the children they wait for |
| `FiberTasks` | tasks, counters, `Block`, the destructor, worker threads |
| `FiberTasks_proofs` | its counts are exact, the refinement of `ForkJoin`, nobody is stuck |
| `RenderGraph` | declaring and compiling a graph |
| `RenderGraph_proofs` | order, groups, shared memory and barriers of every graph |
| `VulkanObjects` | the classes that own Vulkan handles, one class a behaviour |
| `VulkanObjects_proofs` | every handle is owned once, mapped memory agrees, moved objects stay whole |
| `Meshlets` | generation of meshlets and the shader that reads them (operators only) |
| `Meshlets_proofs` | the meshlets of every mesh are its triangles, read inside the arrays |
| `Viewer` | the programs viewer and info on the engine's loop, with input, window and upload |
| `Viewer_proofs` | what is drawn, that a mesh is whole, that what is uploaded can be read back |
| `MC*` | instances for TLC; `MCPrograms` holds `VulkanObjects` and `Viewer` side by side |

`PROJECT.json` "map" gives the source lines of every definition.

### RasterFrames

One render thread calls `BeginFrame; Execute(surface)*; Present`, and creates,
updates and removes surfaces in between. `pc` is the place in that sequence:

    app     -BeginFrame-> execute -ExecuteSurface-> graph
    graph   -RunPassCallback-> first (first pass) or record (later passes)
    first   -KeepSwapchain | RecreateSwapchain-> wait
    wait    -WaitTimeline-> acquire -AcquireImage-> record
    record  -RecordPass | SkipPass-> graph (next pass) or execute
    record  -SubmitFrame (last pass)-> execute
    first, acquire -SkipRecreation | FailAcquire-> next pass, nothing is recorded
    execute -Present (no surface left)-> app

The labels cut `ExecutePassWithFlags` (`vulkan_raster_backend.ixx:720-1143`) where it
calls something that blocks or that the outside can interleave with: the
device-idle wait of a recreation, the timeline wait, the acquire, the submission.
Slots are indices into `SurfaceData::frames`, sections indices into
`VulkanFrameAllocator::frames_`; `currentFrame` advances in `Present`, `section` in
`BeginFrame`. The GPU retires a job when its acquire semaphore is signalled and,
for one surface, in order of submission; a retired job raises its slot's timeline.
The window system may at any time make a swapchain out of date, minimise or restore
a window, signal an acquire semaphore or consume a present.

### FiberAlgorithm

Each thread is a process. A thread runs a fiber, launches another one (`Post` or
`Dispatch`), is inside `property_change` (unlink; push under the target's lock;
notify; signal), scans its six queues in `pick_next`, drains what other threads
made ready, or sleeps in `suspend_until`. One step is one critical section or one
look at one queue, so that everything that a lock does not exclude interleaves.
The dispatcher context, the remote ready queue and the sleepers belong to
boost.fiber and are marked external. `Steal` takes any victim the random choice
of `algorithm.cpp:105-132` may hit, and `GiveUp` is the run of bad luck in which every
try misses. A notify of a thread that has not registered yet reads a null pointer:
the process stops in `crashed`.

### FiberTasks and ForkJoin

A fiber is inside its body, launching (`Hold`, `Post`/`Dispatch`), in `Block`, or on
its way out (`Finish`, `NotifyAll`, `Unhold`, `NotifyParent`, `End`): one step per
critical section of a fiber mutex and one per notification. A fiber holds its
thread until it blocks, yields or ends. `ForkJoin` says what the counters are for: a
task is over only when the tasks it waits for are, and the scheduler stops only
when no task runs.

### RenderGraph

`Compile` has no concurrency but five loops whose results depend on each other. Each
turn of a loop is a step, the loop over the edges that places barriers included;
`todo` is what is left of an adjacency list, `pending` the resources that have not
been placed. Sizes tie, so `Place` takes equal resources in any order, as
`std::ranges::sort` may. Between two compilations the application adds passes, changes
one through the pointer `GetRenderPass` returns, or clears the graph. Only what
`Compile` looks at is kept of a pass: inputs, outputs and the depth output, which it
does not look at and should. `Uses` is what the code counts as a use; the properties
speak of `Touches`, which counts depth outputs and compute passes as well
(`docs/render-graph.md:28` makes no difference between outputs). The two agree for the
resources that are `ColourOnly`, and only of those is it true that they share memory
with nothing that is alive; section 7 has the others.

### VulkanObjects

Slots are the places an object may live in: locals, members, optionals, elements of
a vector. A slot is absent, building (inside a constructor), alive or hollow (moved
from). A class is data: `Constructors` gives the steps of each constructor, each
step a member (destroyed if a later step throws), a handle made in the body (not
destroyed then, for the destructor of an object whose constructor threw never runs)
or one the constructor does without when it fails; `Members` gives what the
destructor frees, what a move takes from its source and what a move assignment
drops from its target. The actions are the language's: `Construct`, `Create` (one
step), `Throw`, `GoWithout`, `FinishConstruction`, `MoveConstruct`, `MoveAssign`,
`CopyConstruct`, `CopyAssign`, `Destroy`, and `Map` and `Unmap` of a buffer. `Release`
is what a destroy call does: memory that the allocator keeps mapped goes with its
buffer, memory that `Map` has mapped stays as it is, for neither the destructor nor a
move assignment of a buffer unmaps. `moved` is a history variable: a command buffer,
whose moves are defaulted, has been moved, and then two objects hold its handle. A handle
that was destroyed may come back from the next create call, so that a stale one
would be noticed. The constructor of the external layout, `VulkanBindlessLayout`,
is represented by the handle `Bindless`. The logical device that most classes keep
beside a handle is no field here: that a move hands on the device too is not checked.
Other owners are left out: the device, the surface, the command pool (section 7), the
heaps, the bindless layout, the GPU allocator and the frame allocator.

### Meshlets

Operators, no state: `GenerateMeshlets` is the code around `meshopt_buildMeshlets`
(arrays sized for the bound, cut to what the last meshlet says, descriptors
narrowed), `ShaderTriangles` what `pbr_mesh.slang` makes of the result. The library
is external: it may take the triangles in any order, and fills meshlets greedily
within both limits (`AddTriangle`: into the last meshlet while it has room, else into a
new one). Positions, bounds and cones are left out.

### Viewer

`pc` follows `App::Run` and `Viewer`:

    init -CreateWindow-> mesh -LoadMesh-> meshlets -BeginUpload-> upload or scene
    upload -CreateMeshBuffer-> upload (next buffer) or scene (the last), -UploadFails-> scene
    scene -InitScene-> loop -Run-> poll (active) or shutdown
    poll -UserEvent-> poll, -EndPoll-> logic -UpdateGameLogic-> render
    render -RenderFrame-> pass (twice) -ExecutePass-> present -Present-> loop, or -> loop
    shutdown -OnShutdown-> ended

`info` has the steps `InfoOnInit`, `Run` and `OnShutdown` only. The window system may
make no window, the backend no surface, the loader no mesh, the GPU no buffer; a
pass may find no room in the frame allocator or be skipped by the backend.
A buffer that was created may stay empty: `UploadBufferData` returns without a word
when it has no staging buffer or no queue (`vulkan_raster_backend.ixx:1553,1574`). `unfilled`
records it; no caller can, and the mesh is drawn. Angles
are counted in steps of the mouse's sensitivity, a camera is its yaw and pitch, and
the projection is known only as made for a surface or for none.

## 3. Runs

| run | asks | states |
|---|---|---|
| `RasterFrames_single` | one surface, three slots, four frames: types, reuse of command buffers and semaphores, framebuffers; refinement of `FrameSlots`; every frame ends, every submission retires | 157 thousand |
| `RasterFrames_pair` | two surfaces on one ring and one frame allocator, with an `UpdateSurface`: no section is filled that an earlier job of the surface reads; submission and presentation | 3.5 million |
| `RasterFrames_section` | finding: the section is written before the wait | - |
| `FiberAlgorithm_usual` | two threads, main and two tasks with the parameters the engine uses: wake-ups, places, required threads, dispatcher, progress | 374 thousand |
| `FiberAlgorithm_startup`, `_unlink`, `_interleave` | findings | - |
| `FiberTasks_tasks` | three tasks in every tree on two threads: counters, `Block`, destructor, refinement of `ForkJoin`; some thread can always go on; progress | 249 thousand |
| `FiberTasks_completion` | finding | - |
| `RenderGraph_compile` | every graph of up to three render passes, one kind with a depth output, a compute and a transfer pass over two resources, compiled twice with changes in between | 2.3 million |
| `RenderGraph_depth` | finding | - |
| `Programs` | the fifteen classes of `VulkanObjects` over two places, every constructor failing at every step: ownership (until a command buffer is moved), mapping, wholeness; the example programs with every mesh, failure and row of five user events: views drawn, buffers of a mesh all or none, types, meshlets read back, `info` ends | 395 thousand |

`Programs` asks two questions in one state space: its first step chooses between
the objects and the programs, which share no variable.

Every property of a passing run comes with a mutant, an operator marked "Mutant" in
the module that differs from the definition after it by a plausible bug (a wait that
is missing, a flag that is not set, a notification sent too early); with the mutant
in place the run finds the property violated. They show what each property is
sensitive to.

Deadlock is checked everywhere but in `RenderGraph`, where the application stops when
the bounds are used up, and in `Programs`, where a program that has ended stops.
`FiberAlgorithm!Stopped` and `FiberTasks!Destroyed` are the places where those systems
do stop.

## 4. Bounds

| constant | value | why it is enough |
|---|---|---|
| `FrameCount` | 3 (single), 2 (pair) | the code has 3; with two surfaces 2 already makes the rings wrap |
| `MaxFrames` | 4, 3 | one more than the slots, so that a slot and a section are reused |
| `ImageCounts` | 2, 3 | fewer images than slots, and as many |
| `PassOrders` | one to three passes, a compute pass in the middle | the first, a middle and the last pass take different branches |
| `MaxUpdates` | 0, 1 | nothing in the repository calls `UpdateSurface`, see section 7 |
| `Threads` | 2 (3 for start-up) | an owner and a thief; the second thread launches to the first |
| `Parameters` | `<<UX, t2>>`, `<<HIGH, any>>`, `<<LOW, any>>` | what `ForEachThread`, default and background tasks use |
| `MaxSwitches`, `MaxCalls` | 1 | blocks, yields and sleeps do not return to a smaller state: one is enough to have a fiber woken by another thread, more multiplies the states |
| `Tasks` | 3 | a chain of three, a parent of two |
| `RenderDescs` | 4 kinds | writers of either resource, one with an invalid reference; a reader and writer of both; a reader with a depth output |
| `MaxHandles`, `MaxRender` | 2, 3 (3, 3 for depth) | a writer between a writer and a reader; two resources that may or may not share |
| `MaxCompiles` | 2 | a first compilation and one after a change |
| `Slots`, `Handles` | 2, 6 | a move has a source and a target, a third place would repeat one of them; the classes with most fields, the pipeline and the swapchain, hold three handles in each place. `Returned` gives the lowest free handle, so that a destroyed one comes back at once |
| `Meshes` | 5 and the cube's faces | no triangle; two that share an edge; two that share nothing; one vertex too many for a meshlet; one triangle too many, a duplicate among them |
| `MaxVertices`, `MaxTriangles` | 4, 4 | 64 and 124 in the code; a meshlet is full by each limit, its bytes straddle words at every offset |
| `CountLimit` | 5 | 256 in the code: the least the full meshlet fits below |
| `MouseX`, `MouseY` | {0, 1, 2}, {0, 2} | turning both ways; one stroke up or down passes the limit of the pitch, which is 1 |
| `MaxEvents` | 5 | press, move, release, move and another press, spread over the frames in every way |

`MaxFrames`, `MaxUpdates`, `MaxEvents`, `MaxSwitches`, `MaxCalls`, `MaxCompiles` and
the `Max` of the graph are guards of the actions they count. The theorems hold for all
values.

## 5. Fairness

* **Frame loop**: the render thread goes on when it can (it is an ordinary thread; the
  application is *not* obliged to begin a frame); the GPU runs what was submitted; the
  presentation engine signals acquires and consumes presents, each slot for itself.
  Resizes and minimisation are not fair. All of it is weak fairness.
* **Fiber algorithm**: every thread takes steps while it can, which is the operating
  system's scheduling; a time-out expires.
* **Fiber tasks**: the same for the threads. A thread has one weak-fairness condition
  over all its steps, so no particular fiber is favoured; bodies end because the
  number of yields and blocks is bounded.
* **Example programs**: the main thread goes on between frames (`LoopStep`: `InfoOnInit`,
  `Run`, `OnShutdown`). Nothing is asked of the user, the window system, the file
  system or the GPU, and of the viewer only that it does not stop in its own loop.

No strong fairness is assumed anywhere.

## 6. Proofs

`RasterFrames_proofs`, for every set of surfaces, every number of slots, images,
passes and frames:

* `TypeCorrect`.
* `Inductive`: `IInv` holds, assuming that a non-empty order begins with a render pass.
  `CommandBufferFree` alone is not inductive: that the timeline wait covers the jobs
  of a slot needs `JobsAccounted` (a job in flight carries a value that the slot's
  timeline has not reached and that is not beyond the last value taken) and
  `TimelineBehind` (a slot that records, or whose acquire semaphore is in use, is
  behind), and that a pass after the first one records into a slot that was waited for
  needs `WaitCoversSlot`. The assumption is needed because only the first *render* pass
  waits: with an order that begins with a compute pass nothing is acquired.
* `CommandBuffersFree`, `AcquireSemaphoresIdle` from `IInv`.
* `FramebuffersAreCurrent`, for `updates = 0`: `UpdateSurface` replaces a swapchain and
  leaves its framebuffers, so it is a theorem of the behaviours without it (nothing in
  the repository calls it). `FramebuffersFit` says that a surface has no framebuffers,
  or as many as its swapchain has images.
* `FramesArePresented`: `ChainInv` follows each image of a swapchain from acquire to
  present (`ImagesInChain`, `FramesOnTime`). It assumes `LastPassRenders`, for only a last
  *render* pass submits, and holds while `Fits`: `UpdateSurface` was not called, or
  swapchains have one number of images. Without it framebuffers may be fewer than
  images, and a frame whose image has none would be given up.
* `SectionsFreeOnceAcquired`: `RingsInStep` says that all jobs in flight pair slots
  with sections at the distance the present frame does. Both rings advance once a
  frame, so the distance is kept (`LagKept`) and a section names one slot
  (`LagInjective`), whose jobs the timeline wait has seen through.
* `WaitsAreAnswered`, from `IInv` and `ChainInv`: what was asked of a slot's timeline
  was reached, or belongs to a job in flight, or to the frame that is being recorded
  (`ValuesAnswered`), and the acquire each job waits for was made
  (`AcquiresAnswered`). So no timeline wait and no device synchronisation is for work
  that was never submitted. It needs `LastPassRenders`: an order that ends in a
  compute pass raises the value and submits nothing (section 7). The wait inside the
  acquire is not covered: whether an image comes back depends on how soon the
  presentation engine waits for `renderFinished`.
* `FrameSlotsImplemented`: every step moves the owner of at most one slot along the
  ring nobody, CPU, GPU, or changes none.

`FiberAlgorithm_proofs`, for every set of threads and fibers and all parameters:

* `TypeCorrect`, with `Handed` (the hands of a thread in the middle of a launch hold a
  fiber) as the strengthening.
* `WakeInductive`: what a thread has looked at and found empty stays empty, or a notify
  is pending for it: some thread is about to set the sleep flag, or it is set. A set
  flag whose owner sleeps is about to be signalled. Every push to another thread's
  queue is followed by a notify before the pusher does anything else; the owner tests
  the flag under the lock that guards its condition variable.
* `NoWakeupLost` follows.

`FiberQueues_proofs`, for the same constants. `FiberOnce`, which counts, is not
inductive: a fiber may leave a place only if it was in no other. `PlaceInv` says where
each context can be, by place (`At`: a local or shared queue, the remote or drained
list, a thread's hand, or the arms of `property_change` between unlink and push):

* `Spots`: a fiber is in at most one place, and in none unless it is ready or runs;
  `QueuesInjective`: no queue holds a context twice. Together they make the counts 0 or 1.
* `RunsAtHome` and `Launches`: what a thread runs has status and home to match; a fiber
  being launched is in the queue its launcher will unlink it from.
* `DispatchOf`: a registered thread has its dispatcher in its HIGH queue or in its hand,
  and a scan past that queue has found it empty of it. `DispatcherAlwaysReady` follows.
* `BoundOf`: a fiber that requires a thread is in a queue or the hand of that thread, or
  with the launcher that moves it there; a blocked one belongs to it.
  `RequiredThreadIsKept` follows.

`NeverInTwoPlaces` is the invariance of `PlaceInv`, with no hypothesis: even the race of
finding 3, modelled as a push that is lost, never doubles a fiber. That none is *lost*
(`Present`) does need the race excluded. `FiberInOnePlace` proves `FiberOnce` of every
behaviour that keeps `LocalQueuePrivate`, which makes that race the only way to lose a
fiber; `QueuesArePrivate` and `NoFiberLost` show it never happens when no task of
priority HIGH names a thread. The engine launches no such task: the only ones that name
threads are those of `ForEachThread(TaskPriority::UX, ..)` in
`vulkan_command_pool.ixx:28,35,57`.

`FiberTasks_proofs`, for every finite set of tasks and threads:

* `Inductive`: `CountsExact` is inductive only with what `Jobs` says of a launch (between
  the count and the launch a task is new, has one launcher, and its parent is that
  launcher or nobody) and what `Counts` adds, that a task past its `Block` holds
  nobody. `Destruction` follows the destructor, `OnThreads` keeps a thread under every
  fiber that is about to notify.
* `TypeCorrect`, with the counts never below zero; `CountsAreExact`, `BlockIsComplete` and
  `DestroyedIsUnused` follow.
* `Refinement`: every step starts, ends or stops in `ForkJoin`, or does nothing there.
* `WaitersHaveCause` is the inductive invariant about waiting, `Progress`. `Threaded`: who is
  about to notify or to end holds a thread, and what a thread holds is not asleep. `Joins`:
  a dispatched task is the child of its launcher. `BlockSleepers` and `EndSleepers`: a
  fiber sleeps only while its predicate is false, or some fiber is about to notify it.
  `Forest`: of any tasks, one holds none of the others.
* `NobodyIsStuck` (`NobodyStuck`, that no state but the last is one in which every thread
  waits): if no thread could go on, no thread would hold a fiber, so nobody is about to
  notify. A task that has begun and not ended would then be asleep in `Block` or join
  a task it dispatched; either way it has a child that has not ended, which waits as
  well, and by `Forest` one of those has none. So no task is under way, the predicate of
  the destructor and the workers is true, and neither sleeps.
  This is freedom from deadlock; that a *given* fiber goes on is liveness and left to TLC.

`RenderGraph_proofs`, for every set of descriptors passes may be made from, any sizes
of resources and any number of compilations and changes:

* `Inductive`: `IInv` has a part for each loop of `Compile`, which says what its finished
  turns have built. `Writers`, `Forward` and `Complete`: `lastWriter` holds the last
  producer before the present pass, edges lead forward in the list of passes, and every
  read has its edge. `Kahn`: the in-degree of a pass is the number of its edges that are
  still to be taken (`Left`), and a pass is queued or ordered when none is. `MergeInv`,
  `AliasInv` and `BarrierInv`: passes merged so far are in one group each, placed
  resources in the group they name and with none they conflict with, and the edges
  behind the loop have their barriers. `Fresh` and the operators `Active`, `Built`,
  `Sorted` and `Aliasing` say which parts count when; a change of the graph leaves them
  vacuous until the next `Compile`.
* `OrderIsTotal`: when the queue runs dry, the least pass that is not ordered would have an
  edge from a smaller one that is not either (`AllOrdered`), so there is none:
  `TopologicalSort` never fails on a graph that can be declared.
* `ReadersAfterWriters`, `FirstIsRender` (the assumption `FirstPassRenders` of the proofs about
  the frame loop), `MergedOnce`.
* `SharedMemoryDisjoint`: of two `ColourOnly` resources in a group neither is in use
  between two uses of the other. That the code's lifetimes are apart is the invariant;
  that they cover every use is `ColourOnly`. `GroupsAreNamed`: a transient resource is in
  a group exactly when a render pass reads it or has it as a colour output, and then in
  the one its `aliasGroup` names; of any other resource `aliasGroup` says nothing.
* `BarriersPlaced` assumes `OutputsWritten`, that passes declare what they produce as
  written, which is what `ColorOutput` and, unless told otherwise, `Output` of the
  builders do (`builder.ixx`).

`VulkanObjects_proofs`, for every set of places, every set of
handles and whatever free handle the API returns:

* `Owned`: `ObjectsInv` is inductive: types, and either `HoldsInv` or a command buffer that
  has been moved. `OwnedOnce` alone is not: that a throw leaves
  nothing behind needs to know which handles an object under construction has, which
  is `StageInv` (an absent place holds nothing, one that is building only what its
  steps so far made, one that is alive or hollow at most what its class frees). `StepFacts` and
  `MemberFacts` are the facts about the source it rests on, class by class: before a
  step that may throw there are only members, each step fills a field of its own that
  the destructor frees, and what a move takes is what the destructor frees.
* `HandlesOwnedOnce` follows: while no command buffer has been moved no handle is owned
  twice or by nobody. Of the other classes this is so without a condition.
* `BuffersMappedAsSaid`: `MappedInv` adds what holds while a buffer is made, that its
  memory is mapped if it was asked to stay mapped. That a step of one buffer leaves
  the others alone needs `HeldOnce`: two buffers never share a handle, and
  `MappedAgree` is about buffers that are alive, not about memory that was freed while
  mapped.
* `ObjectsKeptWhole`: `WholeInv` adds that an object under construction points nowhere
  and that only sub-passes have a depth attachment, so that a class whose moves do not
  set pointers anew has none.

`Meshlets_proofs`, for every mesh with a triangle (`IsValidMesh`, which the code
tests), every order in which the library may take its triangles and any limits that
`MeshletAssumption` allows:

* Induction. The theorems of the library that induct take an operator as a parameter,
  which no installed prover can instantiate. `CountUp` does without: a set that has 0 and
  with each n the next has all of `0 .. m`, for the least number outside it would be
  missing a predecessor (`LeastNumber`, from the well-foundedness of finite sets).
  Recursive functions and the fold in `FlattenSeq` are unfolded turn by turn with it
  (`Turns`, `Joined`, `JoinedParts`).
* `CutInv`: while triangles are dealt out, every group keeps both limits and all but
  the last are full, by one limit or the other. `GroupsInBound` counts from this that
  there are no more groups than `meshopt_buildMeshletsBound` says, so the arrays are
  big enough for what the library writes.
* `Generated`: with offsets that are sums of lengths (`WrittenSizes`; those of the triangles
  are multiples of 4), the descriptors survive the narrowing to bytes, and cutting the
  arrays at what the last descriptor says keeps all of what was written.
* `MeshletsOfMesh`: the shader reads inside the arrays, and what it reads is a permutation of
  the triangles of the mesh, each with its own vertices.

`Viewer_proofs`, for any meshes, mouse, limit of the pitch and number of events:

* `SceneInductive`: `SceneInv` says that yaw, last mouse position and drag flag are what
  the user made of them (`Turned`), and that within a frame every recorded and every
  drawn command is `Draw`, the draw of the scene as it is (`Pictured`): no step of a
  frame changes scene or mesh, and no frame begins with anything drawn.
* `DrawsWhatTheUserSees` follows.
* `MeshWholeOrAbsent` is about buffers that exist, filled or not: `Uploaded` says what
  the GPU holds in each part of the upload; that it is a sequence of meshlets is
  `MeshletsOfMesh`. `ViewerTypeCorrect` from both.
* `UploadsWhatTheShaderReads`: whatever mesh is loaded and in whatever order the library took
  its triangles, the shader finds the mesh in what was generated for it.

These assume `ViewerAssumption`, `MeshletAssumption` and `MeshAssumption` (a mesh is a list of
triples of vertex numbers) of the constants and nothing else.

Only model-checked: progress, for liveness under fairness is beyond the proof system:
`FramesComplete`, `SubmittedFramesRetire`, `ReadyFibersRun`, `DestructorReturns`,
`BlockReturns` and `InfoEnds`. Every other property of a passing run is stated by a
theorem, under the hypotheses named above. What `AcquiredFramesPresented` comes to
when `UpdateSurface` changes the number of images is neither: framebuffers may then be
missing, see section 7.

## 7. Where the code and its comments disagree

Each of these is a run that ends in a counterexample; `PROJECT.json` "findings" quotes
both sides.

1. `RasterFrames_section`: a pass callback fills a section of the frame allocator
   before the first pass waits for the slot, so the GPU may still read it.
2. `FiberAlgorithm_startup`: a launch may notify a thread that has not yet registered.
3. `FiberAlgorithm_unlink`: `property_change` unlinks from a local queue without the
   lock under which another thread pushes to it.
4. `FiberAlgorithm_interleave`: local and shared queues of one priority are not
   interleaved; the shared one may wait for ever.
5. `FiberTasks_completion`: a child notifies its parent's condition after it has let
   go of the parent's mutex; the parent may be over.
6. `RenderGraph_depth`: depth outputs make no edges; a pass that samples a shadow map may
   run before the pass that renders it.

Also against the documentation, without a run of its own: `docs/render-graph.md:28,188`
promises that transient resources with non-overlapping lifetimes share memory, and
`ComputeAliasing` (`graph.ixx:390-402`) takes a lifetime from inputs and colour outputs
only. A depth map that one pass renders and a later one samples may share memory with a
colour target written between them, and a resource that is a depth output and nothing
else is in no group while its `aliasGroup` keeps 0, the number of the first one
(`resource.ixx:19`). The same goes for resources of compute passes. `AliasesDisjoint`
without `ColourOnly` is violated by these; finding 6 has the same cause, `colorOutputs` where
all outputs are meant.

Observed while modelling, with no promise in the repository to hold them against:
an order that *ends* in a compute pass is never submitted, and a later wait for its
slot then never returns (`standard.ixx:98-115`; the runs use orders that end in a
render pass); `UpdateSurface` leaves the framebuffers of the old swapchain and has no
caller; a task launched with default parameters stays on its launcher's thread,
because `SetProperties` notifies of a change only (`properties.cpp:19`); the result of
a suboptimal acquire is treated as success. Closing the viewer's window or quitting
does not end it: the input module keeps a pointer to the window module that
`engine.ixx` moves into the engine, so the events reach the one left behind
(`HandleEvent` in `Viewer`), and `viewer.cpp:328` asks the other one. The viewer's
command list is not cleared between the passes of a frame (`standard.ixx:89`), so the
second pass records the draws of the first again (`drawn` in `Viewer`).

The classes that own handles have three gaps. The moves of `VulkanCommandBuffer` are
defaulted (`vulkan_command_buffer.ixx:20,23`) and its destructor frees without looking:
after a move two objects free one command buffer. No caller moves one today, but
`FrameData`, which holds one, can be moved (`vulkan_raster_backend.ixx:138-148`).
A `VulkanBuffer` that is destroyed or assigned over while `Map` has it mapped is freed
mapped (`vulkan_buffer.cpp:26-31,49-51`), which the memory allocator asserts against;
nothing uses the class yet. `VulkanCommandPool` lets each worker thread create a pool
into one member and each destroy what is there (`vulkan_command_pool.ixx:28,35`), until the
thread-local storage of its TODO exists.

## 8. What is not modelled

* Contents: pixels, vertex attributes, shader code, descriptors, the fixed state of
  pipelines; the data of tasks; bounds and cones of meshlets.
* In the render graph: the resources of transfer passes, of which `Compile` knows none;
  barriers and order after a *read* or between two *writes* (`ReadersFollowWriters` and
  `ReadsHaveBarriers` are about reads after writes); the order between merged groups, which
  nothing executes yet; compatibility of merged passes beyond what `Candidate` tests.
* The mesh shader's reads of the vertex buffer: `MeshletsReadable` covers the arrays of
  meshlets.
* The staging buffer of the raster backend; images and flushes of the allocator;
  shader reflection, the choice of a device, the bindless layout's construction.
* The viewer's GUI, which is an optional nobody fills, and the counters of `Frame`,
  which nothing reads.
* Memory order weaker than interleaving. The shared state of the scheduler is under
  locks, the one exception being finding 3.
* In the frame loop, failures of Vulkan calls other than out-of-date and suboptimal
  swapchains: the code throws and the process ends. What a throw does to the objects
  under construction is in `VulkanObjects`.
* The internals of boost.fiber, Vulkan and SDL beyond what the code relies on; they
  appear as actions marked external.
* `ForLoop` of the scheduler, `RemoveEntity`, merged groups at execution, compute
  passes at execution: commented out or unfinished in the source.
* The components listed as `not_modelled`, for now or for good as the next section says.

## 9. Plan

In order:

1. `DescriptorHeaps`: the texture heap (free list, batch roll-back), the sampler cache,
   the allocator's map, against an abstract set of handed-out slots, composed with
   `FrameSlots` for slots freed while a frame in flight still names them.
2. `CoreRegistries`: entities and pools, event listeners that change their own map,
   the ring buffer against a bounded sequence, in one run.
3. `GuiState`: hot and active widgets, layout and clip stacks, dropdowns, font atlas.
4. The passthrough scheduler as a second implementation of `ForkJoin`.

Left out for good: loaders and primitives (calls to libraries over data), the choice
of devices and queues, reflection, the stubs.

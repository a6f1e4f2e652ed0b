------------------------------- MODULE Viewer -------------------------------
(***************************************************************************)
(* The example programs on the engine's main loop (src/src/engine.ixx):    *)
(* info, which ends after its initialisation, and viewer, which opens a    *)
(* window, uploads a mesh as meshlets, and then polls input, moves its     *)
(* camera and draws, frame after frame.  The user, the window system and   *)
(* the GPU's memory are the environment: their answers are chosen freely.  *)
(*                                                                         *)
(* Angles are counted in steps of the mouse's sensitivity.  The GUI of the *)
(* engine is an optional nobody fills: what the viewer does when there is  *)
(* one never runs.                                                         *)
(***************************************************************************)
EXTENDS Integers, Sequences, FiniteSets, Meshlets

CONSTANTS Meshes,     \* what the mesh file may hold
          Cube,       \* the mesh used when it cannot be loaded
          MouseX, MouseY, \* positions of the mouse
          StartPitch, PitchLimit, \* the camera's pitch, and the most it may be
          MaxEvents   \* bound: events the user makes

ASSUME ViewerAssumption ==
  /\ 0 \in MouseX /\ MouseX \subseteq Nat /\ 0 \in MouseY /\ MouseY \subseteq Nat
  /\ PitchLimit \in Nat /\ StartPitch \in 0..PitchLimit
  /\ MaxEvents \in Nat

\* A mesh holds whole triangles of vertex numbers.
ASSUME MeshAssumption == \A m \in Meshes \cup {Cube} : m.triangles \in Seq([1..3 -> Nat])

VARIABLES program,  \* viewer or info
          pc,       \* what it does next
          active,   \* Soul::active_
          window,   \* active_ of the window modules: the engine's, and the one it was moved from
          surface,  \* none, failed (an entity nothing is behind) or created
          mesh,     \* cubeMeshData_
          data,     \* the meshlets while they are uploaded
          gpu,      \* cubeGPUMeshlet_: the buffers it names, its number of meshlets
          buffers,  \* the buffers of the mesh the raster backend holds
          unfilled, \* whether the mesh's data never reached one of them
          orbit,    \* yaw, pitch, last mouse position, whether the user orbits
          scene,    \* camera position, view and projection matrix
          pass,     \* the pass of the frame to execute next
          commands, \* the frame's command list
          drawn,    \* what the GPU was told to draw in this frame
          user      \* what the user did: last place, left button, total turn, events

viewerVars == <<program, pc, active, window, surface, mesh, data, gpu, buffers,
                unfilled, orbit, scene, pass, commands, drawn, user>>

BufferNames == <<"vertex", "meshlet", "bounds", "vertexIndex", "primitiveIndex">>
AllBuffers == ToSet(BufferNames)
NoMesh == [buffers |-> {}, count |-> 0]
Passes == <<"DepthPrePass", "MainPBRPass">>

\* Members as the constructors leave them.  The window module is moved into the
\* engine before it has a window; the input module keeps pointing at the original.
ViewerInit ==
  /\ program \in {"viewer", "info"}
  /\ pc = "init"
  /\ active = TRUE
  /\ window = [engine |-> FALSE, original |-> FALSE]
  /\ surface = "none"
  /\ mesh = Cube /\ data = NoMeshlets /\ gpu = NoMesh /\ buffers = {} /\ unfilled = FALSE
  /\ orbit = [yaw |-> 0, pitch |-> StartPitch, x |-> 0, y |-> 0, dragging |-> FALSE]
  /\ scene = [camera |-> <<>>, view |-> <<>>, projection |-> "unset"]
  /\ pass = 1 /\ commands = <<>> /\ drawn = <<>>
  /\ user = [at |-> 0, held |-> FALSE, turned |-> 0, events |-> 0]

----------------------------------------------------------------------------
(* info                                                                     *)

\* Mutant: the engine is not told to stop.
InfoOnInitRuns ==
  /\ program = "info" /\ pc = "init"
  /\ pc' = "loop"
  /\ UNCHANGED <<program, active, window, surface, mesh, data, gpu, buffers, unfilled,
                 orbit, scene, pass, commands, drawn, user>>

\* The parameters are read and printed, and the engine told to stop.
InfoOnInit ==
  /\ program = "info" /\ pc = "init"
  /\ active' = FALSE
  /\ pc' = "loop"
  /\ UNCHANGED <<program, window, surface, mesh, data, gpu, buffers, unfilled, orbit,
                 scene, pass, commands, drawn, user>>

----------------------------------------------------------------------------
(* OnInit of the viewer, part by part                                       *)

\* The engine's window module is active once asked for a window, even when the
\* window system made none; the surface counts as valid once the window has one,
\* even when the raster backend then fails.
CreateWindow ==
  /\ program = "viewer" /\ pc = "init"
  /\ window' = [window EXCEPT !.engine = TRUE]
  /\ surface' \in {"none", "failed", "created"}
  /\ pc' = "mesh"
  /\ UNCHANGED <<program, active, mesh, data, gpu, buffers, unfilled, orbit, scene, pass,
                 commands, drawn, user>>

LoadMesh ==
  /\ pc = "mesh"
  /\ mesh' \in Meshes \cup {Cube}
  /\ pc' = "meshlets"
  /\ UNCHANGED <<program, active, window, surface, data, gpu, buffers, unfilled, orbit,
                 scene, pass, commands, drawn, user>>

\* The orders meshoptimizer may take the triangles in.
Orders(triangles) ==
  {[i \in DOMAIN triangles |-> triangles[p[i]]] : p \in SetToSeqs(DOMAIN triangles)}

\* UploadMeshletMesh up to its first buffer; an invalid mesh is not uploaded.
BeginUpload ==
  /\ pc = "meshlets"
  /\ \E order \in Orders(mesh.triangles) :
       /\ data' = GenerateMeshlets(mesh, order)
       /\ IF IsValidMesh(mesh) /\ IsValidMeshlets(data')
          THEN /\ gpu' = [NoMesh EXCEPT !.count = Len(data'.meshlets)]
               /\ pc' = "upload"
          ELSE gpu' = NoMesh /\ pc' = "scene"
  /\ UNCHANGED <<program, active, window, surface, mesh, buffers, unfilled, orbit, scene,
                 pass, commands, drawn, user>>

NextBuffer == BufferNames[Cardinality(gpu.buffers) + 1]

\* A buffer is created; the last one completes the mesh.  Filling it may fail
\* without a word (no staging buffer, no queue: vulkan_raster_backend.ixx:1553,1574).
CreateMeshBuffer ==
  /\ pc = "upload"
  /\ gpu' = [gpu EXCEPT !.buffers = @ \cup {NextBuffer}]
  /\ buffers' = buffers \cup {NextBuffer}
  /\ unfilled' \in {unfilled, TRUE}
  /\ IF gpu'.buffers = AllBuffers
     THEN pc' = "scene" /\ data' = NoMeshlets
     ELSE UNCHANGED <<pc, data>>
  /\ UNCHANGED <<program, active, window, surface, mesh, orbit, scene, pass, commands,
                 drawn, user>>

\* Mutant: the buffer added last to the mesh is forgotten.
DestroyMeshletMeshOld(m) ==
  /\ buffers' = buffers \ (m.buffers \ {"vertexIndex"})
  /\ unfilled' = (unfilled /\ buffers' # {})

\* A mesh destroys every buffer it names.
DestroyMeshletMesh(m) ==
  /\ buffers' = buffers \ m.buffers
  /\ unfilled' = (unfilled /\ buffers' # {})

\* A buffer cannot be created: those before it are destroyed and no mesh returned.
UploadFails ==
  /\ pc = "upload"
  /\ DestroyMeshletMesh(gpu)
  /\ gpu' = NoMesh /\ data' = NoMeshlets
  /\ pc' = "scene"
  /\ UNCHANGED <<program, active, window, surface, mesh, orbit, scene, pass, commands,
                 drawn, user>>

\* Without a surface its size is 0 by 0 and the aspect ratio no number.
InitScene ==
  /\ pc = "scene"
  /\ scene' = [camera |-> <<"start">>, view |-> <<"start">>,
               projection |-> IF surface = "none" THEN "undefined" ELSE "surface"]
  /\ orbit' = [yaw |-> 0, pitch |-> StartPitch, x |-> 0, y |-> 0, dragging |-> FALSE]
  /\ data' = NoMeshlets
  /\ pc' = "loop"
  /\ UNCHANGED <<program, active, window, surface, mesh, gpu, buffers, unfilled, pass,
                 commands, drawn, user>>

----------------------------------------------------------------------------
(* The loop                                                                 *)

\* App::Run asks before every frame; info has no update of its own.
Run ==
  /\ pc = "loop"
  /\ pc' = IF ~active THEN "shutdown" ELSE IF program = "viewer" THEN "poll" ELSE "loop"
  /\ UNCHANGED <<program, active, window, surface, mesh, data, gpu, buffers, unfilled,
                 orbit, scene, pass, commands, drawn, user>>

OnShutdown ==
  /\ pc = "shutdown"
  /\ DestroyMeshletMesh(gpu)
  /\ surface' = "none"
  /\ pc' = "ended"
  /\ UNCHANGED <<program, active, window, mesh, data, gpu, orbit, scene, pass, commands,
                 drawn, user>>

----------------------------------------------------------------------------
(* Poll hands the user's events to the callbacks, one after the other.      *)

\* Mutant: the camera may go down without limit.
ClampedAbove(pitch) == IF pitch > PitchLimit THEN PitchLimit ELSE pitch

Clamped(pitch) ==
  IF pitch > PitchLimit THEN PitchLimit ELSE IF pitch < -PitchLimit THEN -PitchLimit ELSE pitch

MousePosition(x, y) ==
  orbit' = IF orbit.dragging
           THEN [orbit EXCEPT !.x = x, !.y = y, !.yaw = @ - (x - orbit.x),
                              !.pitch = Clamped(@ + (y - orbit.y))]
           ELSE [orbit EXCEPT !.x = x, !.y = y]

\* Mutant: every button orbits.
MouseButtonAny(button, pressed) == orbit' = [orbit EXCEPT !.dragging = pressed]

MouseButton(button, pressed) ==
  orbit' = IF button = 1 THEN [orbit EXCEPT !.dragging = pressed] ELSE orbit

Polling == pc = "poll" /\ user.events < MaxEvents
OnlyInput == UNCHANGED <<program, pc, active, surface, mesh, data, gpu, buffers, unfilled,
                         scene, pass, commands, drawn>>

Move(x, y) ==
  /\ Polling
  /\ MousePosition(x, y)
  /\ user' = [user EXCEPT !.at = x, !.events = @ + 1,
                          !.turned = IF user.held THEN @ - (x - user.at) ELSE @]
  /\ OnlyInput /\ UNCHANGED window

Press(button, pressed) ==
  /\ Polling
  /\ MouseButton(button, pressed)
  /\ user' = [user EXCEPT !.events = @ + 1, !.held = IF button = 1 THEN pressed ELSE @]
  /\ OnlyInput /\ UNCHANGED window

\* A quit goes to the window module the input module points at, which is the
\* one left behind; it has no windows, so a request to close one finds none.
HandleEvent(event) ==
  /\ Polling
  /\ window' = IF event = "quit" THEN [window EXCEPT !.original = FALSE] ELSE window
  /\ user' = [user EXCEPT !.events = @ + 1]
  /\ OnlyInput /\ UNCHANGED orbit

UserEvent ==
  \/ \E x \in MouseX, y \in MouseY : Move(x, y)
  \/ \E button \in {1, 3}, pressed \in BOOLEAN : Press(button, pressed)
  \/ \E event \in {"quit", "close"} : HandleEvent(event)

\* The queue is empty; the engine's window module is asked whether it is active.
EndPoll ==
  /\ pc = "poll"
  /\ active' = (active /\ window.engine)
  /\ pc' = "logic"
  /\ UNCHANGED <<program, window, surface, mesh, data, gpu, buffers, unfilled, orbit,
                 scene, pass, commands, drawn, user>>

----------------------------------------------------------------------------
(* A frame is drawn.                                                        *)

CameraOf(o) == <<o.yaw, o.pitch>>

UpdateGameLogic ==
  /\ pc = "logic"
  /\ scene' = [scene EXCEPT !.camera = CameraOf(orbit), !.view = CameraOf(orbit)]
  /\ pc' = "render"
  /\ UNCHANGED <<program, active, window, surface, mesh, data, gpu, buffers, unfilled,
                 orbit, pass, commands, drawn, user>>

\* Nothing is drawn without a surface; else the graph of two passes is built.
RenderFrame ==
  /\ pc = "render"
  /\ pc' = IF surface = "none" THEN "loop" ELSE "pass"
  /\ pass' = 1 /\ commands' = <<>>
  /\ UNCHANGED <<program, active, window, surface, mesh, data, gpu, buffers, unfilled,
                 orbit, scene, drawn, user>>

Draw == [camera |-> scene.camera, view |-> scene.view, projection |-> scene.projection,
         mesh |-> gpu.buffers, count |-> gpu.count]

\* A pass records its draw if the frame allocator has room; the raster backend
\* then executes the whole list, what an earlier pass recorded included, unless
\* the surface is not there or cannot be drawn to.
ExecutePass(room, reached) ==
  /\ pc = "pass"
  /\ reached => surface = "created"
  /\ commands' = IF room THEN Append(commands, Draw) ELSE commands
  /\ drawn' = IF reached THEN drawn \o commands' ELSE drawn
  /\ pass' = pass + 1
  /\ pc' = IF pass < Len(Passes) THEN "pass" ELSE "present"
  /\ UNCHANGED <<program, active, window, surface, mesh, data, gpu, buffers, unfilled,
                 orbit, scene, user>>

Present ==
  /\ pc = "present"
  /\ drawn' = <<>> /\ commands' = <<>>
  /\ pc' = "loop"
  /\ UNCHANGED <<program, active, window, surface, mesh, data, gpu, buffers, unfilled,
                 orbit, scene, pass, user>>

----------------------------------------------------------------------------
ProgramStep ==
  \/ InfoOnInit \/ CreateWindow \/ LoadMesh \/ BeginUpload \/ CreateMeshBuffer \/ UploadFails
  \/ InitScene \/ Run \/ OnShutdown \/ EndPoll \/ UpdateGameLogic \/ RenderFrame \/ Present
  \/ \E room, reached \in BOOLEAN : ExecutePass(room, reached)

ViewerNext == ProgramStep \/ UserEvent

\* The program's thread runs on through the loop; the user need not do anything,
\* and the window system, the file system and the GPU need not answer.
LoopStep == InfoOnInit \/ Run \/ OnShutdown
ViewerFairness == WF_viewerVars(LoopStep)

ViewerSpec == ViewerInit /\ [][ViewerNext]_viewerVars /\ ViewerFairness

----------------------------------------------------------------------------
ViewerTypeOK ==
  /\ program \in {"viewer", "info"} /\ active \in BOOLEAN
  /\ pc \in {"init", "mesh", "meshlets", "upload", "scene", "loop", "poll", "logic", "render",
             "pass", "present", "shutdown", "ended"}
  /\ surface \in {"none", "failed", "created"}
  /\ mesh \in Meshes \cup {Cube}
  /\ gpu.buffers \subseteq AllBuffers /\ gpu.count \in Nat /\ buffers \subseteq AllBuffers
  /\ unfilled \in BOOLEAN
  /\ orbit.yaw \in Int /\ orbit.pitch \in -PitchLimit..PitchLimit
  /\ orbit.x \in MouseX /\ orbit.y \in MouseY
  /\ pass \in 1..Len(Passes) + 1 /\ Len(commands) <= Len(Passes)

\* Every draw of a frame shows the scene from where the user has turned the camera
\* to by then: all motion made with the left button held, and no other, within the
\* limit of the pitch, through a projection made for a surface, with the lighting
\* of the same camera (the callbacks and UpdateGameLogic, viewer.cpp:267-445).
DrawnView ==
  \A i \in DOMAIN drawn :
    /\ drawn[i].view = drawn[i].camera
    /\ drawn[i].view = <<user.turned, orbit.pitch>>
    /\ drawn[i].projection = "surface"

\* The mesh is on the GPU with all its buffers or not at all, nothing of a failed
\* upload is left behind, and what is drawn has its buffers
\* (UploadMeshletMesh, upload.ixx:302-391).  This is about buffers that exist; the
\* program never learns whether they are filled.
MeshAllOrNothing ==
  /\ pc # "upload" => /\ gpu.buffers \in {{}, AllBuffers}
                      /\ gpu.count > 0 <=> gpu.buffers = AllBuffers
  /\ pc # "ended" => buffers = gpu.buffers
  /\ \A i \in DOMAIN drawn : drawn[i].count > 0 => drawn[i].mesh = buffers

\* The meshlets on their way to the GPU hold the triangles of the mesh, each once,
\* where the mesh shader reads them, and every word it or the copy to the GPU reads
\* is inside the arrays, whatever way meshoptimizer cut the mesh
\* (meshlet.cpp:126-165, meshlet.ixx:108, meshlet_common.slang:117).
MeshletsReadable ==
  pc = "upload" =>
    /\ ReadsInside(data)
    /\ PrimitiveIndexBufferSize(data) <= Len(data.primitiveIndices)
    /\ SameTriangles(ShaderTriangles(data), mesh.triangles)

\* The info program ends: its loop is never entered (info.cpp:42-46).
InfoEnds == program = "info" ~> pc = "ended"
=============================================================================

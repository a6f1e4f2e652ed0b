---------------------------- MODULE Viewer_proofs ----------------------------
(* What the viewer draws is the scene the user turned to, with a mesh that is *)
(* on the GPU whole, for any meshes, any mouse and any number of events.      *)
EXTENDS Viewer, Meshlets_proofs

BeforeLoop == {"init", "mesh", "meshlets", "upload", "scene"}
Drawing == {"pass", "present"}

TypeInv ==
  /\ program \in {"viewer", "info"} /\ active \in BOOLEAN
  /\ pc \in BeforeLoop \cup Drawing \cup {"loop", "poll", "logic", "render", "shutdown", "ended"}
  /\ window \in [engine : BOOLEAN, original : BOOLEAN]
  /\ surface \in {"none", "failed", "created"}
  /\ mesh \in Meshes \cup {Cube}
  /\ orbit \in [yaw : Int, pitch : -PitchLimit..PitchLimit, x : MouseX, y : MouseY,
                dragging : BOOLEAN]
  /\ user \in [at : MouseX, held : BOOLEAN, turned : Int, events : Nat]
  /\ scene = [camera |-> scene.camera, view |-> scene.view, projection |-> scene.projection]
  /\ pass \in 1..3 /\ (pc = "pass" => pass < 3)

\* The camera has followed the user, who did nothing before the loop.
Turned ==
  /\ orbit.yaw = user.turned /\ orbit.x = user.at /\ orbit.dragging = user.held
  /\ pc \in BeforeLoop => user.turned = 0 /\ user.at = 0 /\ ~user.held

\* What the GPU holds of the mesh in each part of its upload.
Uploaded ==
  /\ gpu \in [buffers : SUBSET AllBuffers, count : Nat]
  /\ pc \in {"init", "mesh", "meshlets"} => gpu = NoMesh
  /\ pc = "upload" => gpu.count > 0 /\ gpu.buffers # AllBuffers
  /\ pc # "upload" => /\ gpu.buffers \in {{}, AllBuffers}
                      /\ gpu.count > 0 <=> gpu.buffers = AllBuffers
  /\ pc # "ended" => buffers = gpu.buffers

\* Every draw of a frame is the draw of the scene as it is.
Pictured ==
  /\ pc = "init" => surface = "none"
  /\ pc \notin BeforeLoop /\ surface # "none" => scene.projection = "surface"
  /\ pc \in Drawing \cup {"render"} =>
       scene.camera = CameraOf(orbit) /\ scene.view = CameraOf(orbit)
  /\ pc \in Drawing => /\ surface # "none"
                       /\ commands \in Seq({Draw}) /\ drawn \in Seq({Draw})
                       /\ Len(commands) < pass
  /\ pc \notin Drawing => commands = <<>> /\ drawn = <<>>

SceneInv == TypeInv /\ Turned /\ Pictured

-----------------------------------------------------------------------------
\* The meshlets of a mesh the program has, in any order of its triangles.
LEMMA MeshletsOf ==
  ASSUME NEW m \in Meshes \cup {Cube}, IsValidMesh(m), NEW order \in Orders(m.triangles)
  PROVE  /\ Len(GenerateMeshlets(m, order).meshlets) \in Nat \ {0}
         /\ ReadsInside(GenerateMeshlets(m, order))
         /\ PrimitiveIndexBufferSize(GenerateMeshlets(m, order))
              <= Len(GenerateMeshlets(m, order).primitiveIndices)
         /\ SameTriangles(ShaderTriangles(GenerateMeshlets(m, order)), m.triangles)
<1>1. GoodMesh(m)
  BY MeshAssumption DEF GoodMesh, List, Triangle
<1>2. PICK p \in SetToSeqs(DOMAIN m.triangles) :
        order = [i \in DOMAIN m.triangles |-> m.triangles[p[i]]]
  BY DEF Orders
<1> QED
  BY <1>1, <1>2, MeshletsOfMesh

LEMMA Buffers == AllBuffers = {"vertex", "meshlet", "bounds", "vertexIndex", "primitiveIndex"}
<1> DEFINE b == BufferNames
<1>1. b = <<"vertex", "meshlet", "bounds", "vertexIndex", "primitiveIndex">>
  BY DEF BufferNames
<1>2. DOMAIN b = 1..5
  BY <1>1
<1>3. 1..5 = {1, 2, 3, 4, 5}
  OBVIOUS
<1>4. AllBuffers = {b[i] : i \in DOMAIN b}
  BY DEF AllBuffers, ToSet
<1>5. b[1] = "vertex" /\ b[2] = "meshlet" /\ b[3] = "bounds" /\ b[4] = "vertexIndex"
      /\ b[5] = "primitiveIndex"
  BY <1>1
<1> HIDE DEF b
<1> QED
  BY <1>2, <1>3, <1>4, <1>5

\* Fewer than all buffers are made one after the other, so the next is a name.
LEMMA NextIsBuffer ==
  ASSUME gpu.buffers \subseteq AllBuffers, gpu.buffers # AllBuffers
  PROVE  NextBuffer \in AllBuffers
<1>1. IsFiniteSet({"vertex"}) /\ Cardinality({"vertex"}) = 1
  BY FS_Singleton
<1>2. IsFiniteSet({"vertex", "meshlet"}) /\ Cardinality({"vertex", "meshlet"}) = 2
  <2>1. {"vertex"} \cup {"meshlet"} = {"vertex", "meshlet"}
    OBVIOUS
  <2> QED
    BY <1>1, <2>1, FS_AddElement
<1>3. /\ IsFiniteSet({"vertex", "meshlet", "bounds"})
      /\ Cardinality({"vertex", "meshlet", "bounds"}) = 3
  <2>1. {"vertex", "meshlet"} \cup {"bounds"} = {"vertex", "meshlet", "bounds"}
    OBVIOUS
  <2> QED
    BY <1>2, <2>1, FS_AddElement
<1>4. /\ IsFiniteSet({"vertex", "meshlet", "bounds", "vertexIndex"})
      /\ Cardinality({"vertex", "meshlet", "bounds", "vertexIndex"}) = 4
  <2>1. {"vertex", "meshlet", "bounds"} \cup {"vertexIndex"}
          = {"vertex", "meshlet", "bounds", "vertexIndex"}
    OBVIOUS
  <2> QED
    BY <1>3, <2>1, FS_AddElement
<1>5. IsFiniteSet(AllBuffers) /\ Cardinality(AllBuffers) = 5
  <2>1. {"vertex", "meshlet", "bounds", "vertexIndex"} \cup {"primitiveIndex"} = AllBuffers
    BY Buffers
  <2> QED
    BY <1>4, <2>1, FS_AddElement
<1>6. IsFiniteSet(gpu.buffers) /\ Cardinality(gpu.buffers) < 5 /\ Cardinality(gpu.buffers) \in Nat
  BY <1>5, FS_Subset, FS_CardinalityType
<1>7. Cardinality(gpu.buffers) + 1 \in 1..5
  BY <1>6
<1>8. DOMAIN BufferNames = 1..5
  BY DEF BufferNames
<1> QED
  BY <1>7, <1>8 DEF NextBuffer, AllBuffers, ToSet

LEMMA ClampedInRange == ASSUME NEW p \in Int PROVE Clamped(p) \in -PitchLimit..PitchLimit
BY ViewerAssumption DEF Clamped

LEMMA InitViewer == ViewerInit => SceneInv /\ Uploaded
<1> SUFFICES ASSUME ViewerInit PROVE SceneInv /\ Uploaded
  OBVIOUS
<1>1. TypeInv
  BY ViewerAssumption, Buffers DEF ViewerInit, TypeInv, BeforeLoop, NoMesh, Drawing
<1>2. Turned
  BY DEF ViewerInit, Turned
<1>3. Uploaded
  BY Buffers DEF ViewerInit, Uploaded, NoMesh
<1>4. Pictured
  BY DEF ViewerInit, Pictured, BeforeLoop, Drawing
<1> QED
  BY <1>1, <1>2, <1>3, <1>4 DEF SceneInv

-----------------------------------------------------------------------------
(* Initialisation                                                            *)

\* A step before the loop that changes neither the mesh on the GPU nor the user.
LEMMA BeginStep ==
  ASSUME SceneInv, InfoOnInit \/ CreateWindow \/ LoadMesh \/ InitScene
  PROVE  SceneInv' /\ (Uploaded => Uploaded')
<1> USE DEF SceneInv
<1>1. CASE InfoOnInit
  <2>1. TypeInv'
    BY <1>1 DEF InfoOnInit, TypeInv
  <2>2. Turned'
    BY <1>1 DEF InfoOnInit, Turned, BeforeLoop
  <2>3. Uploaded => Uploaded'
    BY <1>1, Buffers DEF InfoOnInit, Uploaded, NoMesh
  <2>4. Pictured'
    BY <1>1 DEF InfoOnInit, Pictured, BeforeLoop, Drawing
  <2> QED
    BY <2>1, <2>2, <2>3, <2>4
<1>2. CASE CreateWindow
  <2>1. TypeInv'
    BY <1>2 DEF CreateWindow, TypeInv, BeforeLoop
  <2>2. Turned'
    BY <1>2 DEF CreateWindow, Turned, BeforeLoop
  <2>3. Uploaded => Uploaded'
    BY <1>2 DEF CreateWindow, Uploaded
  <2>4. Pictured'
    BY <1>2 DEF CreateWindow, Pictured, BeforeLoop, Drawing
  <2> QED
    BY <2>1, <2>2, <2>3, <2>4
<1>3. CASE LoadMesh
  <2>1. TypeInv'
    BY <1>3 DEF LoadMesh, TypeInv, BeforeLoop
  <2>2. Turned'
    BY <1>3 DEF LoadMesh, Turned, BeforeLoop
  <2>3. Uploaded => Uploaded'
    BY <1>3 DEF LoadMesh, Uploaded
  <2>4. Pictured'
    BY <1>3 DEF LoadMesh, Pictured, BeforeLoop, Drawing
  <2> QED
    BY <2>1, <2>2, <2>3, <2>4
<1>4. CASE InitScene
  <2>1. TypeInv'
    BY <1>4, ViewerAssumption DEF InitScene, TypeInv
  <2>2. Turned'
    <3>1. user.turned = 0 /\ user.at = 0 /\ user.held = FALSE
      BY <1>4 DEF InitScene, Turned, TypeInv, BeforeLoop
    <3>2. orbit'.yaw = 0 /\ orbit'.x = 0 /\ orbit'.dragging = FALSE /\ user' = user
          /\ pc' = "loop"
      BY <1>4 DEF InitScene
    <3> QED
      BY <3>1, <3>2 DEF Turned, BeforeLoop
  <2>3. Uploaded => Uploaded'
    BY <1>4 DEF InitScene, Uploaded
  <2>4. Pictured'
    BY <1>4 DEF InitScene, Pictured, BeforeLoop, Drawing
  <2> QED
    BY <2>1, <2>2, <2>3, <2>4
<1> QED
  BY <1>1, <1>2, <1>3, <1>4

\* What is uploaded has meshlets, one buffer follows the other, and the last one
\* completes the mesh; a failure leaves nothing.
LEMMA UploadStep ==
  ASSUME SceneInv, BeginUpload \/ CreateMeshBuffer \/ UploadFails
  PROVE  SceneInv' /\ (Uploaded => Uploaded')
<1> USE DEF SceneInv
<1>1. Turned'
  BY DEF BeginUpload, CreateMeshBuffer, UploadFails, Turned, BeforeLoop
<1>2. Pictured'
  <2>1. pc \in BeforeLoop /\ pc # "init" /\ pc' \in BeforeLoop /\ pc' # "init"
        /\ UNCHANGED <<surface, scene, orbit, commands, drawn, pass>>
    BY DEF BeginUpload, CreateMeshBuffer, UploadFails, BeforeLoop
  <2> QED
    BY <2>1 DEF Pictured, BeforeLoop, Drawing
<1>3. CASE BeginUpload
  <2>1. PICK order \in Orders(mesh.triangles) :
          /\ data' = GenerateMeshlets(mesh, order)
          /\ IF IsValidMesh(mesh) /\ IsValidMeshlets(data')
             THEN gpu' = [NoMesh EXCEPT !.count = Len(data'.meshlets)] /\ pc' = "upload"
             ELSE gpu' = NoMesh /\ pc' = "scene"
    BY <1>3 DEF BeginUpload
  <2>2. UNCHANGED <<program, active, window, surface, mesh, buffers, orbit, scene, pass, user>>
    BY <1>3 DEF BeginUpload
  <2>3. TypeInv'
    BY <2>1, <2>2 DEF TypeInv, BeforeLoop
  <2>4. ASSUME Uploaded PROVE Uploaded'
    <3>1. mesh \in Meshes \cup {Cube} /\ gpu = NoMesh /\ buffers = {}
      BY <1>3, <2>4 DEF BeginUpload, TypeInv, Uploaded, NoMesh
    <3>2. IsValidMesh(mesh) => Len(data'.meshlets) \in Nat \ {0}
      BY <2>1, <3>1, MeshletsOf
    <3>3. \/ gpu' = [buffers |-> {}, count |-> Len(data'.meshlets)] /\ Len(data'.meshlets) > 0
             /\ pc' = "upload"
          \/ gpu' = [buffers |-> {}, count |-> 0] /\ pc' = "scene"
      BY <2>1, <3>2 DEF IsValidMeshlets, NoMesh
    <3>4. gpu'.buffers = {} /\ buffers' = gpu'.buffers /\ {} # AllBuffers
          /\ pc' \in {"upload", "scene"} /\ gpu' \in [buffers : SUBSET AllBuffers, count : Nat]
      BY <2>2, <3>1, <3>2, <3>3, Buffers
    <3>5. (pc' = "upload" => gpu'.count > 0) /\ (pc' # "upload" => gpu'.count = 0)
      BY <3>3
    <3> QED
      BY <3>4, <3>5 DEF Uploaded
  <2> QED
    BY <1>1, <1>2, <2>3, <2>4
<1>4. CASE CreateMeshBuffer
  <2>1. pc' \in {"upload", "scene"}
        /\ UNCHANGED <<program, active, window, surface, mesh, orbit, scene, pass, user>>
    BY <1>4 DEF CreateMeshBuffer
  <2>2. TypeInv'
    BY <2>1 DEF TypeInv, BeforeLoop
  <2>3. ASSUME Uploaded PROVE Uploaded'
    <3>1. gpu.buffers # AllBuffers /\ gpu.count > 0 /\ buffers = gpu.buffers
          /\ gpu.buffers \subseteq AllBuffers /\ gpu.count \in Nat
      BY <1>4, <2>3 DEF CreateMeshBuffer, Uploaded
    <3>2. NextBuffer \in AllBuffers
      BY <3>1, NextIsBuffer
    <3>3. gpu' = [buffers |-> gpu.buffers \cup {NextBuffer}, count |-> gpu.count]
      BY <1>4, <2>3 DEF CreateMeshBuffer, Uploaded
    <3>4. /\ buffers' = gpu'.buffers
          /\ gpu'.buffers = AllBuffers => pc' = "scene"
          /\ gpu'.buffers # AllBuffers => pc' = "upload"
      BY <1>4, <3>1, <3>3 DEF CreateMeshBuffer
    <3>5. gpu' \in [buffers : SUBSET AllBuffers, count : Nat]
      BY <3>1, <3>2, <3>3
    <3> QED
      BY <3>1, <3>3, <3>4, <3>5 DEF Uploaded
  <2> QED
    BY <1>1, <1>2, <2>2, <2>3
<1>5. CASE UploadFails
  <2>1. /\ gpu' = NoMesh /\ pc' = "scene"
        /\ UNCHANGED <<program, active, window, surface, mesh, orbit, scene, pass, user>>
    BY <1>5 DEF UploadFails
  <2>2. TypeInv'
    BY <2>1 DEF TypeInv, BeforeLoop
  <2>3. ASSUME Uploaded PROVE Uploaded'
    <3>1. buffers' = {}
      BY <1>5, <2>3 DEF UploadFails, DestroyMeshletMesh, Uploaded
    <3> QED
      BY <2>1, <3>1, Buffers DEF Uploaded, NoMesh
  <2> QED
    BY <1>1, <1>2, <2>2, <2>3
<1> QED
  BY <1>3, <1>4, <1>5

-----------------------------------------------------------------------------
(* The loop                                                                  *)

\* Steps between frames and the end of polling, which turn no camera.
LEMMA LoopSteps ==
  ASSUME SceneInv, Run \/ OnShutdown \/ EndPoll \/ UpdateGameLogic
  PROVE  SceneInv' /\ (Uploaded => Uploaded')
<1> USE DEF SceneInv
<1>1. CASE Run
  <2>1. TypeInv'
    BY <1>1 DEF Run, TypeInv, BeforeLoop
  <2>2. Turned'
    BY <1>1 DEF Run, Turned, BeforeLoop
  <2>3. Uploaded => Uploaded'
    BY <1>1 DEF Run, Uploaded
  <2>4. Pictured'
    BY <1>1 DEF Run, Pictured, BeforeLoop, Drawing
  <2> QED
    BY <2>1, <2>2, <2>3, <2>4
<1>2. CASE OnShutdown
  <2>1. TypeInv'
    BY <1>2 DEF OnShutdown, TypeInv
  <2>2. Turned'
    BY <1>2 DEF OnShutdown, Turned, BeforeLoop
  <2>3. Uploaded => Uploaded'
    BY <1>2 DEF OnShutdown, Uploaded
  <2>4. Pictured'
    BY <1>2 DEF OnShutdown, Pictured, BeforeLoop, Drawing
  <2> QED
    BY <2>1, <2>2, <2>3, <2>4
<1>3. CASE EndPoll
  <2>1. TypeInv'
    BY <1>3 DEF EndPoll, TypeInv
  <2>2. Turned'
    BY <1>3 DEF EndPoll, Turned, BeforeLoop
  <2>3. Uploaded => Uploaded'
    BY <1>3 DEF EndPoll, Uploaded
  <2>4. Pictured'
    BY <1>3 DEF EndPoll, Pictured, BeforeLoop, Drawing
  <2> QED
    BY <2>1, <2>2, <2>3, <2>4
<1>4. CASE UpdateGameLogic
  <2>1. TypeInv'
    BY <1>4 DEF UpdateGameLogic, TypeInv
  <2>2. Turned'
    BY <1>4 DEF UpdateGameLogic, Turned, BeforeLoop
  <2>3. Uploaded => Uploaded'
    BY <1>4 DEF UpdateGameLogic, Uploaded
  <2>4. scene' = [camera |-> CameraOf(orbit), view |-> CameraOf(orbit),
                  projection |-> scene.projection]
    BY <1>4 DEF UpdateGameLogic, TypeInv
  <2>5. CameraOf(orbit)' = CameraOf(orbit)
    BY <1>4 DEF UpdateGameLogic, CameraOf
  <2>6. Pictured'
    BY <1>4, <2>4, <2>5 DEF UpdateGameLogic, Pictured, BeforeLoop, Drawing
  <2> QED
    BY <2>1, <2>2, <2>3, <2>6
<1> QED
  BY <1>1, <1>2, <1>3, <1>4

\* The user moves and presses while events are polled; nothing is drawn then.
LEMMA UserStep ==
  ASSUME SceneInv, UserEvent
  PROVE  SceneInv' /\ (Uploaded => Uploaded')
<1> USE DEF SceneInv
<1>1. pc = "poll" /\ pc' = pc
      /\ UNCHANGED <<program, active, surface, mesh, gpu, buffers, scene, pass, commands, drawn>>
  BY DEF UserEvent, Move, Press, HandleEvent, Polling, OnlyInput
<1>2. Uploaded => Uploaded'
  BY <1>1 DEF Uploaded
<1>3. Pictured'
  BY <1>1 DEF Pictured, BeforeLoop, Drawing
<1>4. ASSUME NEW x \in MouseX, NEW y \in MouseY, Move(x, y) PROVE TypeInv' /\ Turned'
  <2>1. x \in Int /\ y \in Int /\ user.at \in Int /\ orbit.x \in Int /\ orbit.y \in Int
        /\ orbit.pitch \in Int
    BY ViewerAssumption DEF TypeInv
  <2>2. user' = [at |-> x, held |-> user.held, events |-> user.events + 1,
                 turned |-> IF user.held THEN user.turned - (x - user.at) ELSE user.turned]
    BY <1>4 DEF Move, TypeInv
  <2>3. orbit' = [x |-> x, y |-> y, dragging |-> orbit.dragging,
                  yaw |-> IF orbit.dragging THEN orbit.yaw - (x - orbit.x) ELSE orbit.yaw,
                  pitch |-> IF orbit.dragging THEN Clamped(orbit.pitch + (y - orbit.y))
                            ELSE orbit.pitch]
    BY <1>4 DEF Move, MousePosition, TypeInv
  <2>4. Clamped(orbit.pitch + (y - orbit.y)) \in -PitchLimit..PitchLimit
    BY <2>1, ClampedInRange
  <2>5. window' = window
    BY <1>4 DEF Move
  <2>6. user' \in [at : MouseX, held : BOOLEAN, turned : Int, events : Nat]
    BY <2>1, <2>2 DEF TypeInv
  <2>7. orbit' \in [yaw : Int, pitch : -PitchLimit..PitchLimit, x : MouseX, y : MouseY,
                    dragging : BOOLEAN]
    BY <2>1, <2>3, <2>4 DEF TypeInv
  <2>8. TypeInv'
    BY <1>1, <2>5, <2>6, <2>7 DEF TypeInv
  <2>9. Turned'
    BY <1>1, <2>1, <2>2, <2>3 DEF Turned, BeforeLoop
  <2> QED
    BY <2>8, <2>9
<1>5. ASSUME NEW button \in {1, 3}, NEW pressed \in BOOLEAN, Press(button, pressed)
      PROVE  TypeInv' /\ Turned'
  <2>1. /\ user' = [user EXCEPT !.events = @ + 1,
                                !.held = IF button = 1 THEN pressed ELSE @]
        /\ orbit' = IF button = 1 THEN [orbit EXCEPT !.dragging = pressed] ELSE orbit
        /\ window' = window
    BY <1>5 DEF Press, MouseButton
  <2>2. TypeInv'
    <3>1. user' \in [at : MouseX, held : BOOLEAN, turned : Int, events : Nat]
      <4>1. PICK held \in BOOLEAN : held = IF button = 1 THEN pressed ELSE user.held
        BY DEF TypeInv
      <4>2. user' = [at |-> user.at, held |-> held, turned |-> user.turned,
                     events |-> user.events + 1]
        BY <2>1, <4>1 DEF TypeInv
      <4> QED
        BY <4>2 DEF TypeInv
    <3>2. orbit' \in [yaw : Int, pitch : -PitchLimit..PitchLimit, x : MouseX, y : MouseY,
                      dragging : BOOLEAN]
      BY <2>1 DEF TypeInv
    <3> QED
      BY <1>1, <2>1, <3>1, <3>2 DEF TypeInv
  <2>3. Turned'
    BY <1>1, <2>1 DEF TypeInv, Turned, BeforeLoop
  <2> QED
    BY <2>2, <2>3
<1>6. ASSUME NEW event \in {"quit", "close"}, HandleEvent(event) PROVE TypeInv' /\ Turned'
  <2>1. /\ user' = [user EXCEPT !.events = @ + 1]
        /\ window' = IF event = "quit" THEN [window EXCEPT !.original = FALSE] ELSE window
        /\ orbit' = orbit
    BY <1>6 DEF HandleEvent
  <2>2. TypeInv'
    <3>1. user' \in [at : MouseX, held : BOOLEAN, turned : Int, events : Nat]
      BY <2>1 DEF TypeInv
    <3>2. window' \in [engine : BOOLEAN, original : BOOLEAN]
      BY <2>1 DEF TypeInv
    <3> QED
      BY <1>1, <2>1, <3>1, <3>2 DEF TypeInv
  <2>3. Turned'
    BY <1>1, <2>1 DEF TypeInv, Turned, BeforeLoop
  <2> QED
    BY <2>2, <2>3
<1> QED
  BY <1>2, <1>3, <1>4, <1>5, <1>6 DEF UserEvent

-----------------------------------------------------------------------------
(* A frame                                                                   *)

\* A frame begins and ends with nothing drawn, and every pass adds draws of the
\* scene as it is, which no step of a frame changes.
LEMMA FrameStep ==
  ASSUME SceneInv,
         RenderFrame \/ Present \/ (\E room, reached \in BOOLEAN : ExecutePass(room, reached))
  PROVE  SceneInv' /\ (Uploaded => Uploaded')
<1> USE DEF SceneInv
<1>1. UNCHANGED <<program, active, window, surface, mesh, gpu, buffers, orbit, scene, user>>
  BY DEF RenderFrame, Present, ExecutePass
<1>2. Draw' = Draw /\ CameraOf(orbit)' = CameraOf(orbit)
  BY <1>1 DEF Draw, CameraOf
<1>3. pc \in Drawing \cup {"render"} /\ pc' \in Drawing \cup {"loop"}
  BY DEF RenderFrame, Present, ExecutePass, Drawing
<1>4. Turned'
  BY <1>1, <1>3 DEF Turned, BeforeLoop, Drawing
<1>5. Uploaded => Uploaded'
  BY <1>1, <1>3 DEF Uploaded, Drawing
<1>6. CASE RenderFrame
  <2>1. TypeInv'
    BY <1>1, <1>6 DEF RenderFrame, TypeInv, Drawing
  <2>2. <<>> \in Seq({Draw}) /\ Len(<<>>) = 0
    BY EmptySeq
  <2>3. drawn = <<>>
    BY <1>6 DEF RenderFrame, Pictured, Drawing
  <2>4. Pictured'
    BY <1>1, <1>2, <1>6, <2>2, <2>3 DEF RenderFrame, Pictured, BeforeLoop, Drawing
  <2> QED
    BY <1>4, <1>5, <2>1, <2>4
<1>7. CASE Present
  <2>1. TypeInv'
    BY <1>1, <1>7 DEF Present, TypeInv
  <2>2. Pictured'
    BY <1>1, <1>2, <1>7 DEF Present, Pictured, BeforeLoop, Drawing
  <2> QED
    BY <1>4, <1>5, <2>1, <2>2
<1>8. ASSUME NEW room \in BOOLEAN, NEW reached \in BOOLEAN, ExecutePass(room, reached)
      PROVE  SceneInv'
  <2>1. Len(Passes) = 2
    BY DEF Passes
  <2>2. /\ pc = "pass" /\ pass \in 1..2 /\ pass' = pass + 1
        /\ pc' = IF pass < 2 THEN "pass" ELSE "present"
    BY <1>8, <2>1 DEF ExecutePass, TypeInv
  <2>3. /\ commands \in Seq({Draw}) /\ drawn \in Seq({Draw})
        /\ Len(commands) < pass /\ surface # "none"
    BY <2>2 DEF Pictured, Drawing
  <2>4. /\ commands' = IF room THEN Append(commands, Draw) ELSE commands
        /\ drawn' = IF reached THEN drawn \o commands' ELSE drawn
    BY <1>8 DEF ExecutePass
  <2>5. commands' \in Seq({Draw}) /\ Len(commands') < pass'
    BY <2>2, <2>3, <2>4, AppendProperties, LenProperties
  <2>6. drawn' \in Seq({Draw})
    BY <2>3, <2>4, <2>5, ConcatProperties
  <2>7. TypeInv'
    BY <1>1, <2>2 DEF TypeInv, Drawing
  <2>8. Pictured'
    BY <1>1, <1>2, <2>2, <2>3, <2>5, <2>6 DEF Pictured, BeforeLoop, Drawing
  <2> QED
    BY <1>4, <1>5, <2>7, <2>8
<1> QED
  BY <1>5, <1>6, <1>7, <1>8

\* The camera follows the user in every step, and the mesh is whole after every
\* step.
LEMMA NextViewer ==
  ASSUME SceneInv, [ViewerNext]_viewerVars
  PROVE  SceneInv' /\ (Uploaded => Uploaded')
<1>1. CASE UNCHANGED viewerVars
  BY <1>1 DEF viewerVars, SceneInv, TypeInv, Turned, Uploaded, Pictured, Draw, CameraOf
<1>2. CASE ProgramStep
  BY <1>2, BeginStep, UploadStep, LoopSteps, FrameStep DEF ProgramStep
<1>3. CASE UserEvent
  BY <1>3, UserStep
<1> QED
  BY <1>1, <1>2, <1>3 DEF ViewerNext

\* The inductive invariant of the programs: the camera follows the user and every
\* draw of a frame is the draw of the scene as it is (viewer.cpp:160-595).
THEOREM SceneInductive == ViewerSpec => []SceneInv
<1>1. ViewerInit => SceneInv
  BY InitViewer
<1>2. SceneInv /\ [ViewerNext]_viewerVars => SceneInv'
  BY NextViewer
<1> QED
  BY <1>1, <1>2, PTL DEF ViewerSpec

\* Every draw shows the scene from where the user turned the camera to, whatever
\* the user does and whatever the window system refuses (viewer.cpp:267-445).
THEOREM DrawsWhatTheUserSees == ViewerSpec => []DrawnView
<1>1. SceneInv => DrawnView
  <2> SUFFICES ASSUME SceneInv, NEW i \in DOMAIN drawn
               PROVE  /\ drawn[i].view = drawn[i].camera
                      /\ drawn[i].view = <<user.turned, orbit.pitch>>
                      /\ drawn[i].projection = "surface"
    BY DEF DrawnView
  <2>1. pc \in Drawing
    BY DEF SceneInv, Pictured
  <2>2. drawn[i] = Draw
    BY <2>1 DEF SceneInv, Pictured
  <2>3. /\ drawn[i].camera = scene.camera /\ drawn[i].view = scene.view
        /\ drawn[i].projection = scene.projection
    BY <2>2 DEF Draw
  <2>4. scene.camera = CameraOf(orbit) /\ scene.view = CameraOf(orbit)
        /\ scene.projection = "surface"
    BY <2>1 DEF SceneInv, Pictured, Drawing, BeforeLoop
  <2>5. CameraOf(orbit) = <<user.turned, orbit.pitch>>
    BY DEF CameraOf, SceneInv, Turned
  <2> QED
    BY <2>3, <2>4, <2>5
<1> QED
  BY <1>1, SceneInductive, PTL

\* The mesh is on the GPU whole or not at all, no failed upload leaves a buffer,
\* and what is drawn has its buffers (upload.ixx:302-400).
THEOREM MeshWholeOrAbsent == ViewerSpec => []MeshAllOrNothing
<1>1. ViewerInit => Uploaded
  BY InitViewer
<1>2. SceneInv /\ Uploaded /\ [ViewerNext]_viewerVars => Uploaded'
  BY NextViewer
<1>3. SceneInv /\ Uploaded => MeshAllOrNothing
  <2> SUFFICES ASSUME SceneInv, Uploaded PROVE MeshAllOrNothing
    OBVIOUS
  <2>1. ASSUME NEW i \in DOMAIN drawn PROVE drawn[i].mesh = buffers
    <3>1. pc \in Drawing
      BY <2>1 DEF SceneInv, Pictured
    <3>2. drawn[i] = Draw /\ buffers = gpu.buffers
      BY <2>1, <3>1 DEF SceneInv, Pictured, Uploaded, Drawing
    <3> QED
      BY <3>2 DEF Draw
  <2> QED
    BY <2>1 DEF MeshAllOrNothing, Uploaded
<1> QED
  BY <1>1, <1>2, <1>3, SceneInductive, PTL DEF ViewerSpec

\* Variables keep their types: the camera's pitch its limits, a frame's command list
\* at most one draw a pass, and no buffer is left that the mesh does not name
\* (viewer.cpp:160-595).
THEOREM ViewerTypeCorrect == ViewerSpec => []ViewerTypeOK
<1> DEFINE Named == buffers \subseteq AllBuffers
           Filled == unfilled \in BOOLEAN
<1>1. ViewerInit => Uploaded /\ Named /\ Filled
  BY InitViewer DEF ViewerInit
<1>2. SceneInv /\ Uploaded /\ [ViewerNext]_viewerVars => Uploaded'
  BY NextViewer
<1>3. ASSUME Named, Uploaded', [ViewerNext]_viewerVars
      PROVE  Named'
  <2>1. CASE pc' # "ended"
    BY <1>3, <2>1 DEF Uploaded
  <2>2. CASE pc' = "ended"
    <3>1. CASE UNCHANGED viewerVars
      BY <1>3, <3>1 DEF viewerVars
    <3>2. CASE ProgramStep
      <4>1. OnShutdown
        BY <2>2, <3>2 DEF ProgramStep, InfoOnInit, CreateWindow, LoadMesh, BeginUpload,
           CreateMeshBuffer, UploadFails, InitScene, Run, EndPoll, UpdateGameLogic, RenderFrame,
           Present, ExecutePass
      <4> QED
        BY <1>3, <4>1 DEF OnShutdown, DestroyMeshletMesh
    <3>3. CASE UserEvent
      BY <1>3, <3>3 DEF UserEvent, Move, Press, HandleEvent, OnlyInput
    <3> QED
      BY <1>3, <3>1, <3>2, <3>3 DEF ViewerNext
  <2> QED
    BY <2>1, <2>2
<1>4. ASSUME Filled, [ViewerNext]_viewerVars
      PROVE  Filled'
  <2>1. CASE UNCHANGED viewerVars
    BY <1>4, <2>1 DEF viewerVars
  <2>2. CASE ProgramStep
    BY <1>4, <2>2 DEF ProgramStep, InfoOnInit, CreateWindow, LoadMesh, BeginUpload,
       CreateMeshBuffer, UploadFails, DestroyMeshletMesh, InitScene, Run, OnShutdown, EndPoll,
       UpdateGameLogic, RenderFrame, Present, ExecutePass
  <2>3. CASE UserEvent
    BY <1>4, <2>3 DEF UserEvent, Move, Press, HandleEvent, OnlyInput
  <2> QED
    BY <1>4, <2>1, <2>2, <2>3 DEF ViewerNext
<1>5. SceneInv /\ Uploaded /\ Named /\ Filled => ViewerTypeOK
  <2> SUFFICES ASSUME SceneInv, Uploaded, Named, Filled PROVE ViewerTypeOK
    OBVIOUS
  <2>1. Len(Passes) = 2
    BY DEF Passes
  <2>2. Len(commands) <= 2
    <3>1. CASE pc \in Drawing
      <4>1. commands \in Seq({Draw}) /\ Len(commands) < pass
        BY <3>1 DEF SceneInv, Pictured
      <4>2. Len(commands) \in Nat /\ pass \in 1..3
        BY <4>1, LenProperties DEF SceneInv, TypeInv
      <4> QED
        BY <4>1, <4>2
    <3>2. CASE pc \notin Drawing
      BY <3>2, EmptySeq DEF SceneInv, Pictured
    <3> QED
      BY <3>1, <3>2
  <2>3. gpu.buffers \subseteq AllBuffers /\ gpu.count \in Nat
    BY DEF Uploaded
  <2> QED
    BY <2>1, <2>2, <2>3 DEF ViewerTypeOK, SceneInv, TypeInv, BeforeLoop, Drawing
<1> HIDE DEF Named, Filled
<1> QED
  BY <1>1, <1>2, <1>3, <1>4, <1>5, SceneInductive, PTL DEF ViewerSpec

\* The meshlets on their way to the GPU hold the triangles of the mesh, each as
\* often as the mesh does, where the mesh shader reads them, and every word it or
\* the copy to the GPU reads is inside the arrays, for every mesh, every order
\* meshoptimizer may take its triangles in, and any limits
\* (meshlet.cpp:126-165, meshlet.ixx:108, meshlet_common.slang:117).
THEOREM UploadsWhatTheShaderReads == ViewerSpec => []MeshletsReadable
<1>1. ViewerInit => MeshletsReadable
  BY DEF ViewerInit, MeshletsReadable
<1>2. ASSUME SceneInv, MeshletsReadable, [ViewerNext]_viewerVars
      PROVE  MeshletsReadable'
  <2>1. CASE UNCHANGED viewerVars
    BY <1>2, <2>1 DEF viewerVars, MeshletsReadable
  <2>2. CASE UserEvent
    BY <1>2, <2>2 DEF UserEvent, Polling, OnlyInput, Move, Press, HandleEvent, MeshletsReadable
  <2>3. CASE BeginUpload
    <3>1. PICK order \in Orders(mesh.triangles) :
            /\ data' = GenerateMeshlets(mesh, order)
            /\ IF IsValidMesh(mesh) /\ IsValidMeshlets(data')
               THEN gpu' = [NoMesh EXCEPT !.count = Len(data'.meshlets)] /\ pc' = "upload"
               ELSE gpu' = NoMesh /\ pc' = "scene"
      BY <2>3 DEF BeginUpload
    <3>2. mesh' = mesh /\ mesh \in Meshes \cup {Cube}
      BY <1>2, <2>3 DEF BeginUpload, SceneInv, TypeInv
    <3>3. CASE IsValidMesh(mesh)
      <4>1. PICK made : made = GenerateMeshlets(mesh, order)
        OBVIOUS
      <4>2. /\ ReadsInside(made)
            /\ PrimitiveIndexBufferSize(made) <= Len(made.primitiveIndices)
            /\ SameTriangles(ShaderTriangles(made), mesh.triangles)
        BY <3>2, <3>3, <4>1, MeshletsOf
      <4>3. data' = made
        BY <3>1, <4>1
      <4> QED
        BY <3>2, <4>2, <4>3 DEF MeshletsReadable
    <3>4. CASE ~IsValidMesh(mesh)
      BY <3>1, <3>4 DEF MeshletsReadable
    <3> QED
      BY <3>3, <3>4
  <2>4. CASE CreateMeshBuffer
    <3>1. mesh' = mesh /\ (pc' = "upload" => data' = data) /\ pc = "upload"
      BY <2>4 DEF CreateMeshBuffer
    <3> QED
      BY <1>2, <3>1 DEF MeshletsReadable
  <2>5. CASE ProgramStep /\ ~BeginUpload /\ ~CreateMeshBuffer
    <3>1. pc' # "upload"
      BY <2>5 DEF ProgramStep, InfoOnInit, CreateWindow, LoadMesh, UploadFails, InitScene, Run,
         OnShutdown, EndPoll, UpdateGameLogic, RenderFrame, Present, ExecutePass
    <3> QED
      BY <3>1 DEF MeshletsReadable
  <2> QED
    BY <1>2, <2>1, <2>2, <2>3, <2>4, <2>5 DEF ViewerNext
<1> QED
  BY <1>1, <1>2, SceneInductive, PTL DEF ViewerSpec
=============================================================================

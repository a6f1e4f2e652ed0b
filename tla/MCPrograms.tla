----------------------------- MODULE MCPrograms -----------------------------
(* Small instances, in one state space, of the example programs on the main *)
(* loop and of the objects that own Vulkan handles.  The two share nothing: *)
(* a behaviour is about one of them, and the other stays as it begins.      *)
EXTENDS VulkanObjects, Viewer

VARIABLE subject

\* The allocation of handles is deterministic, and a handle comes back as soon
\* as it is destroyed.
LowestFree(used) == {h \in Handles \ used : \A k \in Handles \ used : h <= k}

\* No triangle at all, and no vertex; two triangles that share an edge; two that
\* share no vertex; a fan over a vertex too many; one over every vertex with more
\* triangles than a meshlet may have, one of them twice.
SmallMeshes ==
  {[vertexCount |-> 0, triangles |-> <<>>],
   [vertexCount |-> 4, triangles |-> <<<<0, 1, 2>>, <<2, 1, 3>>>>],
   [vertexCount |-> 6, triangles |-> <<<<0, 1, 2>>, <<3, 4, 5>>>>],
   [vertexCount |-> 5, triangles |-> <<<<0, 1, 2>>, <<0, 2, 3>>, <<0, 3, 4>>>>],
   [vertexCount |-> 4, triangles |-> <<<<0, 1, 2>>, <<0, 2, 3>>, <<0, 1, 3>>, <<3, 2, 1>>, <<0, 1, 2>>>>]}

\* Two faces of the cube, each with vertices of its own.
TwoFaces ==
  [vertexCount |-> 8,
   triangles |-> <<<<0, 1, 2>>, <<2, 3, 0>>, <<4, 5, 6>>, <<6, 7, 4>>>>]

MCInit ==
  /\ subject \in {"objects", "programs"}
  /\ Init /\ ViewerInit
  /\ subject = "objects" => program = "viewer"
  /\ subject = "programs" => class = "fence"

MCNext ==
  \/ subject = "objects" /\ Next /\ UNCHANGED <<subject, viewerVars>>
  \/ subject = "programs" /\ ViewerNext /\ UNCHANGED <<subject, vars>>

MCSpec ==
  /\ MCInit /\ [][MCNext]_<<subject, vars, viewerVars>>
  /\ WF_<<subject, vars, viewerVars>>(subject = "programs" /\ LoopStep /\ UNCHANGED <<subject, vars>>)
=============================================================================

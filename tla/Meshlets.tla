------------------------------ MODULE Meshlets ------------------------------
(***************************************************************************)
(* Meshlet generation: src/src/render/mesh/meshlet.cpp and meshlet_impl.cpp*)
(* around meshoptimizer, and the mesh shader that reads the result back    *)
(* (src/resources/Shaders).  A mesh is its number of vertices and its      *)
(* triangles, each three vertex numbers.  meshoptimizer is external: it    *)
(* takes the triangles in some order and cuts them into groups that keep   *)
(* both limits; every order stands for one behaviour of it.                *)
(***************************************************************************)
EXTENDS Naturals, Sequences, FiniteSets, SequencesExt

CONSTANTS MaxVertices,  \* MeshletOptions::maxVertices
          MaxTriangles, \* MeshletOptions::maxTriangles
          CountLimit    \* what a count of a descriptor wraps at: 256 in the code

ASSUME MeshletAssumption ==
  /\ MaxVertices \in Nat /\ MaxVertices >= 3
  /\ MaxTriangles \in Nat /\ MaxTriangles > 0 /\ MaxTriangles % 4 = 0
  /\ CountLimit \in Nat /\ MaxVertices < CountLimit /\ MaxTriangles < CountLimit

\* Buffers of primitive indices are read in words of four bytes.
RoundUp(bytes) == ((bytes + 3) \div 4) * 4
CeilingOf(n, d) == (n + d - 1) \div d
MeshVertices(triangles) == UNION {ToSet(triangles[i]) : i \in DOMAIN triangles}

----------------------------------------------------------------------------
(* meshoptimizer                                                            *)

Fits(group, triangle) ==
  /\ Len(group) < MaxTriangles
  /\ Cardinality(MeshVertices(Append(group, triangle))) <= MaxVertices

\* A triangle joins the last group if it fits there, or begins a group.
AddTriangle(groups, triangle) ==
  IF groups # <<>> /\ Fits(Last(groups), triangle)
  THEN Append(Front(groups), Append(Last(groups), triangle))
  ELSE Append(groups, <<triangle>>)

CutIntoGroups(order) ==
  LET cut[n \in 0..Len(order)] ==
        IF n = 0 THEN <<>> ELSE AddTriangle(cut[n - 1], order[n])
  IN  cut[Len(order)]

\* A group's own list of vertices, and its triangles as three bytes each that
\* number this list from 0, padded with zeros to whole words.
LocalVertices(group) == SetToSeq(MeshVertices(group))
LocalNumber(group, v) == (CHOOSE i \in DOMAIN LocalVertices(group) : LocalVertices(group)[i] = v) - 1
LocalTriangles(group) ==
  [b \in 1..RoundUp(3 * Len(group)) |->
     IF b > 3 * Len(group) THEN 0
     ELSE LocalNumber(group, group[((b - 1) \div 3) + 1][((b - 1) % 3) + 1])]

meshlet_build_meshlets(order) ==
  LET groups == CutIntoGroups(order)
      vertices  == [i \in DOMAIN groups |-> LocalVertices(groups[i])]
      triangles == [i \in DOMAIN groups |-> LocalTriangles(groups[i])]
  IN [vertices  |-> FlattenSeq(vertices),
      triangles |-> FlattenSeq(triangles),
      meshlets  |-> [i \in DOMAIN groups |->
        [vertexOffset   |-> Len(FlattenSeq(SubSeq(vertices, 1, i - 1))),
         triangleOffset |-> Len(FlattenSeq(SubSeq(triangles, 1, i - 1))),
         vertexCount    |-> Len(vertices[i]),
         triangleCount  |-> Len(groups[i])]]]

\* How many meshlets there can be at most: a full meshlet has at least
\* maxVertices - 2 indices no other has, or maxTriangles triangles.
meshlet_build_meshlets_bound(mesh) ==
  LET byVertices  == CeilingOf(3 * Len(mesh.triangles), MaxVertices - 2)
      byTriangles == CeilingOf(Len(mesh.triangles), MaxTriangles)
  IN IF byVertices > byTriangles THEN byVertices ELSE byTriangles

----------------------------------------------------------------------------
(* The engine's side                                                        *)

IsValidMesh(mesh) == mesh.vertexCount > 0 /\ mesh.triangles # <<>>

NoMeshlets == [meshlets |-> <<>>, bounds |-> 0, vertexIndices |-> <<>>, primitiveIndices |-> <<>>]

IsValidMeshlets(data) == data.meshlets # <<>> /\ Len(data.meshlets) = data.bounds

\* The arrays meshoptimizer writes into, sized for the bound and zeroed.
Written(mesh, perMeshlet, values) ==
  [i \in 1..(meshlet_build_meshlets_bound(mesh) * perMeshlet) |->
     IF i <= Len(values) THEN values[i] ELSE 0]

\* The sizes of the results, from the last meshlet.
TotalVertices(built) ==
  Last(built.meshlets).vertexOffset + Last(built.meshlets).vertexCount
\* Mutant: the padding of the last meshlet is forgotten.
TotalTrianglesUnpadded(built) ==
  Last(built.meshlets).triangleOffset + 3 * Last(built.meshlets).triangleCount

TotalTriangles(built) ==
  Last(built.meshlets).triangleOffset + RoundUp(3 * Last(built.meshlets).triangleCount)

\* The conversion of a descriptor keeps the offsets and narrows the counts.
Narrowed(meshlet) == [meshlet EXCEPT !.vertexCount = @ % CountLimit,
                                     !.triangleCount = @ % CountLimit]

GenerateMeshletsRaw(mesh, order) ==
  LET built == meshlet_build_meshlets(order) IN
  IF built.meshlets = <<>> THEN NoMeshlets
  ELSE [meshlets |-> [i \in DOMAIN built.meshlets |-> Narrowed(built.meshlets[i])],
        bounds |-> Len(built.meshlets),
        vertexIndices |->
          SubSeq(Written(mesh, MaxVertices, built.vertices), 1, TotalVertices(built)),
        primitiveIndices |->
          SubSeq(Written(mesh, 3 * MaxTriangles, built.triangles), 1, TotalTriangles(built))]

GenerateMeshlets(mesh, order) ==
  IF IsValidMesh(mesh) THEN GenerateMeshletsRaw(mesh, order) ELSE NoMeshlets

PrimitiveIndexBufferSize(data) == RoundUp(Len(data.primitiveIndices))

----------------------------------------------------------------------------
(* The mesh shader.  A triangle is read as one word or, when it straddles,  *)
(* as two.                                                                  *)

TriangleByte(meshlet, t) == meshlet.triangleOffset + 3 * t
WordsRead(meshlet, t) ==
  LET byte == TriangleByte(meshlet, t)
  IN {byte \div 4} \cup IF byte % 4 >= 2 THEN {(byte \div 4) + 1} ELSE {}

UnpackTriangle(data, meshlet, t) ==
  [c \in 1..3 |-> data.primitiveIndices[TriangleByte(meshlet, t) + c]]

\* The vertices of a triangle, through the meshlet's list.
MeshTriangle(data, meshlet, t) ==
  [c \in 1..3 |-> data.vertexIndices[meshlet.vertexOffset + UnpackTriangle(data, meshlet, t)[c] + 1]]

\* No read of the shader is outside the buffers, nor outside the meshlet.
ReadsInside(data) ==
  \A i \in DOMAIN data.meshlets :
    LET meshlet == data.meshlets[i] IN
    /\ meshlet.vertexOffset + meshlet.vertexCount <= Len(data.vertexIndices)
    /\ \A t \in 0..(meshlet.triangleCount - 1) :
         /\ \A w \in WordsRead(meshlet, t) : 4 * w + 4 <= Len(data.primitiveIndices)
         /\ \A c \in 1..3 : UnpackTriangle(data, meshlet, t)[c] < meshlet.vertexCount

\* What the shader emits, meshlet by meshlet.
ShaderTriangles(data) ==
  FlattenSeq([i \in DOMAIN data.meshlets |->
    [t \in 1..data.meshlets[i].triangleCount |->
       MeshTriangle(data, data.meshlets[i], t - 1)]])

SameTriangles(s, t) ==
  /\ Len(s) = Len(t)
  /\ \A x \in ToSet(s) \cup ToSet(t) :
       Cardinality({i \in DOMAIN s : s[i] = x}) = Cardinality({i \in DOMAIN t : t[i] = x})
=============================================================================

--------------------------- MODULE MCRasterFrames ---------------------------
(* Small instances of RasterFrames for the model checker. *)
EXTENDS RasterFrames, TLC

CONSTANTS s1, s2

SurfaceSymmetry == Permutations(Surfaces)

OneSurface == {s1}
TwoSurfaces == {s1, s2}

\* Frames of one, two and three passes that begin and end with a render pass.
RenderOrders == {<<"render">>, <<"render", "render">>, <<"render", "compute", "render">>}
OnePass == {<<"render">>}

TwoImages == {2}
ThreeImages == {3}
ManyImages == {2, 3}
=============================================================================

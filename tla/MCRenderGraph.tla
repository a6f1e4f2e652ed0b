---------------------------- MODULE MCRenderGraph ----------------------------
(* Small instances of RenderGraph for the model checker. *)
EXTENDS RenderGraph

Ref(h, u) == [handle |-> h, usage |-> u]
Reads(s) == [i \in DOMAIN s |-> Ref(s[i], IF s[i] = 2 THEN "other" ELSE "read")]
Outputs(s) == [i \in DOMAIN s |-> Ref(s[i], "write")]
Describe(ins, outs, ds) == [inputs |-> Reads(ins), outputs |-> Outputs(outs),
                            depth |-> {Ref(d, "write") : d \in ds}]

\* Passes over two resources; one reference is invalid, and one is to a depth
\* output.
SmallPasses ==
    {Describe(<<>>, <<1>>, {}), Describe(<<>>, <<2, 0>>, {}), Describe(<<2, 1>>, <<1>>, {}),
     Describe(<<1>>, <<>>, {2})}
KernelPasses == {Describe(<<1>>, <<2>>, {})}
TwoSizes == {1, 2}
OneSize == {1}
DepthPasses ==
    {Describe(<<>>, <<1>>, {}), Describe(<<1>>, <<>>, {2}), Describe(<<2>>, <<3>>, {})}
None == {}
=============================================================================

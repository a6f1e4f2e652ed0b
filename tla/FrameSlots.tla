------------------------------ MODULE FrameSlots ------------------------------
(***************************************************************************)
(* What frames in flight promise: each of a surface's frame slots belongs  *)
(* to nobody, to the CPU that records it or to the GPU that runs it, and   *)
(* goes from the CPU to the GPU and from the GPU to nobody.  The CPU never *)
(* takes a slot from the GPU.                                              *)
(***************************************************************************)
CONSTANTS Surfaces, Slots

VARIABLE owner

Free == "nobody"

Init == owner = [s \in Surfaces |-> [f \in Slots |-> Free]]

Move(s, f, from, to) ==
    /\ owner[s][f] = from
    /\ owner' = [owner EXCEPT ![s][f] = to]

Record(s, f) == Move(s, f, Free, "cpu")
Submit(s, f) == Move(s, f, "cpu", "gpu")
Retire(s, f) == Move(s, f, "gpu", Free)

\* A new surface under the name of a removed one: nothing of it is in flight.
Renew(s) ==
    /\ \A f \in Slots : owner[s][f] # "gpu"
    /\ owner' = [owner EXCEPT ![s] = [f \in Slots |-> Free]]

Next ==
    \E s \in Surfaces :
        \/ Renew(s)
        \/ \E f \in Slots : Record(s, f) \/ Submit(s, f) \/ Retire(s, f)

Spec == Init /\ [][Next]_owner
=============================================================================

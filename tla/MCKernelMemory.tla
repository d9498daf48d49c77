--------------------------- MODULE MCKernelMemory ---------------------------
(* Small instances of KernelMemory: two processes, two sticks. *)
EXTENDS KernelMemory, TLC

CONSTANTS s1, s2, p1, p2

\* Two sticks of three bytes.
MCSticksIguales == s1 :> 3 @@ s2 :> 3

\* A stick of three bytes and one of two.
MCTamanioStick == s1 :> 3 @@ s2 :> 2

\* A stick of two bytes and one of one: a segment of two may lie on both.
MCStickDesparejo == s1 :> 2 @@ s2 :> 1

Simetria == Permutations({p1, p2})
=============================================================================

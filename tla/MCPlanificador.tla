--------------------------- MODULE MCPlanificador ---------------------------
(* Two CPUs, one of which may die, and three processes, the first with the worse
   priority of two. *)
EXTENDS Planificador, TLC

CONSTANTS p1, p2, p3

MCPids == {p1, p2, p3}
MCPrioridadDe == [p \in MCPids |-> IF p = p1 THEN 1 ELSE 0]
MCNivelesRR == {1}
MCUnNivel == [p \in Pids |-> 0]
Simetria == Permutations({p2, p3}) \cup Permutations(Cpus)

=============================================================================

------------------------------- MODULE MCCPU -------------------------------
(* Two CPUs, three sticks (the last connects while the others work), and two *)
(* scripts over bytes of two bits and registers of one and of two bytes.     *)
EXTENDS CPU, TLC

CONSTANTS p1, p2, c1, c2

MCPids == {p1, p2}
MCCpus == {c1, c2}
MCReg8 == {"AX"}
MCReg32 == {"EAX", "SI", "DI", "PC"}
MCTamanioStick == <<4, 1, 3>>

\* Writes a word, which may lie across two sticks, reads it back, and ends with an
\* access past its segment.
MCPrograma1 == <<
    [op |-> "MEM_ALLOC", id |-> 0, tam |-> 3],
    [op |-> "SET", dest |-> "EAX", valor |-> 2],
    [op |-> "MOV_OUT", orig |-> "EAX"],
    [op |-> "MUTEX_UNLOCK"],
    [op |-> "MOV_IN", dest |-> "DI"],
    [op |-> "MOV_OUT", orig |-> "EAX"]>>

\* Frees its segment and asks for a larger one, which needs a compaction when the
\* segment of the other script lies in the middle; copies as many bytes as its input
\* says, 4 being too many for the second address and 5 for both, and prints.
MCPrograma2 == <<
    [op |-> "MEM_ALLOC", id |-> 0, tam |-> 2],
    [op |-> "MEM_FREE", id |-> 0],
    [op |-> "MEM_ALLOC", id |-> 0, tam |-> 4],
    [op |-> "SET", dest |-> "AX", valor |-> 6],
    [op |-> "STDIN", dir |-> "SI", tam |-> "AX"],
    [op |-> "MOV_IN", dest |-> "EAX"],
    [op |-> "SET", dest |-> "DI", valor |-> 1],
    [op |-> "COPY_MEM", reg |-> "EAX"],
    [op |-> "STDOUT", dir |-> "SI", tam |-> "AX"]>>

MCPrograma == [p \in MCPids |-> IF p = p1 THEN MCPrograma1 ELSE MCPrograma2]

MCEntradas == {0, 1}

Simetria == Permutations(MCCpus)

=============================================================================

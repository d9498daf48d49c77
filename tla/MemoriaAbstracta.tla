-------------------------- MODULE MemoriaAbstracta --------------------------
(***************************************************************************)
(* What Kernel Memory promises to the processes: each has a private list of *)
(* segments, numbered by its script, that only its own requests change.    *)
(* Where a segment is stored, and when it moves, is not seen here.         *)
(***************************************************************************)
EXTENDS Naturals, Sequences

CONSTANTS Pids, Ids, Valores, SEGMENT_MAX_SIZE, MaxSegmentos

VARIABLES
    procesos,   \* per process, its segments: number and bytes
    quietos     \* processes that wait for an answer, or are held still

Contenidos == UNION {[1 .. n -> Valores] : n \in 1 .. SEGMENT_MAX_SIZE}

Init == procesos = [p \in Pids |-> <<>>] /\ quietos = {}

\* MEM_ALLOC: a new segment at the end of the list; its bytes are arbitrary.
Reservar(p) ==
    /\ Len(procesos[p]) < MaxSegmentos
    /\ \E id \in Ids, b \in Contenidos :
           procesos' = [procesos EXCEPT ![p] = Append(@, [id |-> id, bytes |-> b])]

\* MEM_FREE: the first segment with that number goes, the others keep their place.
Liberar(p) ==
    /\ p \notin quietos
    /\ \E i \in DOMAIN procesos[p] :
         /\ \A j \in 1 .. i - 1 : procesos[p][j].id # procesos[p][i].id
         /\ procesos' = [procesos EXCEPT ![p] =
                            SubSeq(@, 1, i - 1) \o SubSeq(@, i + 1, Len(@))]

\* MOV_OUT, COPY_MEM or STDIN: consecutive bytes of one segment take a value.
\* Nothing is written for a process while a request of its own is served, nor for
\* any process while memory is compacted.
Escribir(p) ==
    /\ p \notin quietos
    /\ \E i \in DOMAIN procesos[p], v \in Valores :
         \E desde, hasta \in DOMAIN procesos[p][i].bytes :
             procesos' = [procesos EXCEPT ![p][i].bytes =
                 [k \in DOMAIN @ |-> IF k \in desde .. hasta THEN v ELSE @[k]]]

\* EXIT
Finalizar(p) == procesos' = [procesos EXCEPT ![p] = <<>>]

Next ==
    /\ \/ \E p \in Pids : Reservar(p) \/ Liberar(p) \/ Escribir(p) \/ Finalizar(p)
       \/ UNCHANGED procesos
    /\ quietos' \in SUBSET Pids

Spec == Init /\ [][Next]_<<procesos, quietos>>
=============================================================================

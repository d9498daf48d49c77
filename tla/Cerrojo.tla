------------------------------- MODULE Cerrojo -------------------------------
(***************************************************************************)
(* What the mutexes of the Kernel Scheduler promise to the scripts: one      *)
(* script at most between its MUTEX_LOCK and its MUTEX_UNLOCK, and the       *)
(* others enter in the order they asked, without anyone passing between a    *)
(* release and the entry of the next one.                                    *)
(***************************************************************************)
EXTENDS SequencesExt

CONSTANTS Pids, Mutexes

VARIABLES
    dentro,   \* per mutex: the scripts inside
    fila      \* per mutex: the scripts that wait, oldest first

Entrar(m, p) ==
    /\ dentro[m] = {} /\ fila[m] = <<>>
    /\ dentro' = [dentro EXCEPT ![m] = {p}]
    /\ UNCHANGED fila

Esperar(m, p) ==
    /\ dentro[m] # {} /\ p \notin dentro[m] \cup ToSet(fila[m])
    /\ fila' = [fila EXCEPT ![m] = Append(@, p)]
    /\ UNCHANGED dentro

Salir(m) ==
    /\ dentro[m] # {}
    /\ \/ /\ fila[m] = <<>>
          /\ dentro' = [dentro EXCEPT ![m] = {}]
          /\ UNCHANGED fila
       \/ /\ fila[m] # <<>>
          /\ dentro' = [dentro EXCEPT ![m] = {Head(fila[m])}]
          /\ fila' = [fila EXCEPT ![m] = Tail(@)]

Init ==
    /\ dentro = [m \in Mutexes |-> {}]
    /\ fila = [m \in Mutexes |-> <<>>]

Next == \E m \in Mutexes : Salir(m) \/ \E p \in Pids : Entrar(m, p) \/ Esperar(m, p)

Spec == Init /\ [][Next]_<<dentro, fila>>

=============================================================================

------------------------------ MODULE MCMutexKS ------------------------------
(* Three scripts of three priorities on two CPUs.  The initial one, of the     *)
(* worst priority, creates the mutex and the others, and waits for a device    *)
(* with the mutex in hand, so that it may be suspended with it.                *)
EXTENDS MutexKS, TLC

CONSTANTS p1, p2, p3, r1, r2

MCPids == {p1, p2, p3}
MCRondas == {r1, r2}
MCMutexes == {"A", "B"}
MCPrioridadDe == (p1 :> 2 @@ p2 :> 1 @@ p3 :> 0)

Lock(m) == [op |-> "MUTEX_LOCK", mutex |-> m]
Unlock(m) == [op |-> "MUTEX_UNLOCK", mutex |-> m]
Create(m) == [op |-> "MUTEX_CREATE", mutex |-> m]
Init_proc(p) == [op |-> "INIT_PROC", hijo |-> p]
Espera == [op |-> "SLEEP"]

\* A mutex that nobody creates; then both the others want the mutex while its owner
\* waits for a device.
MCPrograma1 == (
    p1 :> <<Create("A"), Lock("B"), Unlock("B"), Lock("A"), Init_proc(p2), Init_proc(p3),
            Espera, Unlock("A")>> @@
    p2 :> <<Lock("A"), Unlock("A")>> @@
    p3 :> <<Lock("A"), Unlock("A")>>)

\* Two mutexes that one script holds both; another waits for one and then for the other,
\* so that a late wake-up would find it in the second wait; and a third gives back a
\* mutex that is not its own, and then waits behind the others.
MCPrograma2 == (
    p1 :> <<Create("A"), Lock("A"), Create("B"), Lock("B"), Init_proc(p2), Init_proc(p3),
            Unlock("A"), Unlock("B")>> @@
    p2 :> <<Lock("A"), Unlock("A"), Lock("B"), Unlock("B")>> @@
    p3 :> <<Unlock("A"), Lock("A"), [op |-> "NOOP"], Unlock("A")>>)

\* One that waits for the mutex has waited for a device before, so that its timer may
\* suspend it in the queue of the mutex.
MCPrograma3 == (
    p1 :> <<Create("A"), Init_proc(p3), Lock("A"), Init_proc(p2), Unlock("A")>> @@
    p2 :> <<Espera, Lock("A"), Unlock("A")>> @@
    p3 :> <<>>)

MCProgramas == {MCPrograma1, MCPrograma2, MCPrograma3}

=============================================================================

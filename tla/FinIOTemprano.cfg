SPECIFICATION Spec
CONSTANTS
    p1 = p1
    p2 = p2
    p3 = p3
    Pids = {p1, p2}
    Primero = p1
    Cpus = {c1, c2}
    Algoritmos = {"RR"}
    Niveles = 1
    NivelesRR = {}
    PrioridadDe <- MCUnNivel
    Preemption = FALSE
    MaxCaidas = 0
    Nadie = Nadie
INVARIANTS
    EjecucionUnica
CHECK_DEADLOCK FALSE

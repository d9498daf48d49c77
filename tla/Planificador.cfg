SPECIFICATION SpecOrdenada
CONSTANTS
    p1 = p1
    p2 = p2
    p3 = p3
    Pids <- MCPids
    Primero = p1
    Cpus = {c1, c2}
    Algoritmos = {"FIFO", "CMN"}
    Niveles = 2
    NivelesRR <- MCNivelesRR
    PrioridadDe <- MCPrioridadDe
    Preemption = TRUE
    MaxCaidas = 1
    Nadie = Nadie
INVARIANTS
    TypeOK
    UnaSolaCpu
    ListasExactas
    FichasReady
    ReservaVigente
    CompactacionQuieta
SYMMETRY Simetria
CHECK_DEADLOCK FALSE

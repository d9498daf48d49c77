SPECIFICATION SpecJusta
CONSTANTS
    p1 = p1
    p2 = p2
    p3 = p3
    r1 = r1
    r2 = r2
    Pids <- MCPids
    Niveles = 3
    PrioridadDe <- MCPrioridadDe
    Preemption = TRUE
    Rondas <- MCRondas
    Nadie = Nadie
    Primero = p1
    CantCpus = 2
    Mutexes <- MCMutexes
    Programas <- MCProgramas
INVARIANTS
    TypeOK
    ListasExactas
    ResidenciaAcordada
    EsperaSinPerderse
    HerenciaJusta
PROPERTIES
    Exclusion
    EsperaTermina

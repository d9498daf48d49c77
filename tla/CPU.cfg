SPECIFICATION Spec
CONSTANTS
    p1 = p1
    p2 = p2
    c1 = c1
    c2 = c2
    Pids <- MCPids
    Cpus <- MCCpus
    Programa <- MCPrograma
    Base = 4
    Ancho = 2
    Reg8 <- MCReg8
    Reg32 <- MCReg32
    TamanioStick <- MCTamanioStick
    SticksIniciales = 2
    SEGMENT_MAX_SIZE = 4
    TAM_MAX_SEGMENTO = 4
    ErrorSegFault = 3
    Entradas <- MCEntradas
    Nadie = Nadie
INVARIANTS
    TypeOK
    TablaVigente
    AccesoPropio
    UnaCpuPorProceso
PROPERTY
    CadaScriptSolo
SYMMETRY Simetria
CHECK_DEADLOCK FALSE

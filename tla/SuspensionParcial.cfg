SPECIFICATION Spec
CONSTANTS
    p1 = p1
    p2 = p2
    s1 = s1
    s2 = s2
    Pids = {p1, p2}
    Nadie = Nadie
    Ids = {0}
    Tamanios = {1, 2, 3, 4}
    Valores = {0}
    Sticks = {s1, s2}
    TamanioStick <- MCTamanioStick
    MemoriaMaxima = 5
    SEGMENT_MAX_SIZE = 3
    ALLOCATION_STRATEGY = "BEST"
    TotalBloques = 2
    BlockSize = 2
    MaxSegmentos = 2
INVARIANTS
    ResidenteEnRam
CHECK_DEADLOCK FALSE

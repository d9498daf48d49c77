SPECIFICATION SpecOrdenada
CONSTANTS
    s1 = s1
    s2 = s2
    p1 = p1
    p2 = p2
    Pids = {p1, p2}
    Nadie = Nadie
    Ids = {0}
    Tamanios = {1, 2}
    Valores = {0, 1}
    Sticks = {s1, s2}
    TamanioStick <- MCStickDesparejo
    MemoriaMaxima = 3
    SEGMENT_MAX_SIZE = 2
    ALLOCATION_STRATEGY = "WORST"
    TotalBloques = 2
    BlockSize = 1
    MaxSegmentos = 2
SYMMETRY Simetria
PROPERTIES
    MemoriaPrivada
CHECK_DEADLOCK FALSE

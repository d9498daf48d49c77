SPECIFICATION SpecJusta
CONSTANTS
    p1 = p1
    p2 = p2
    s1 = s1
    s2 = s2
    Pids = {p1, p2}
    Nadie = Nadie
    Ids = {0}
    Tamanios = {1, 3, 4}
    Valores = {0}
    Sticks = {s1, s2}
    TamanioStick <- MCSticksIguales
    MemoriaMaxima = 6
    SEGMENT_MAX_SIZE = 3
    ALLOCATION_STRATEGY = "BEST"
    TotalBloques = 2
    BlockSize = 2
    MaxSegmentos = 2
INVARIANTS
    TypeOK
    SinSolapamiento
    SinFugas
    SwapExacto
    HuecosConsolidados
    HuecoVigente
    CompactarAlcanza
PROPERTIES
    PedidoTermina
CHECK_DEADLOCK FALSE

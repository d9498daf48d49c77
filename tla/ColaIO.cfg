SPECIFICATION SpecOrdenadaJusta
CONSTANTS
    p1 = p1
    p2 = p2
    firme = firme
    fragil = fragil
    salida = salida
    Nada = Nada
    Pids = {p1, p2}
    Ios = {firme, fragil, salida}
    Clase <- MCClase
    Firmes = {firme, salida}
    MaxPedidos <- MCPedidos
    Lentos = {p1}
INVARIANTS
    TypeOK
    FichasJustas
    TrabajoUnico
    IoOcupadaTrabaja
PROPERTIES
    TodoTrabajoTermina
    ServicioUnico
CHECK_DEADLOCK FALSE

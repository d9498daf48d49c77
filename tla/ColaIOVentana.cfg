SPECIFICATION Spec
CONSTANTS
    p1 = p1
    p2 = p2
    firme = firme
    fragil = fragil
    salida = salida
    Nada = Nada
    Pids = {p1, p2}
    Ios = {firme, fragil}
    Clase <- MCClaseUna
    Firmes = {firme, fragil}
    MaxPedidos <- MCPedidos
    Lentos = {p1}
INVARIANTS
    IoOcupadaTrabaja
CHECK_DEADLOCK FALSE

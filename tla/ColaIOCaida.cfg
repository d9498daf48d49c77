SPECIFICATION SpecJusta
CONSTANTS
    p1 = p1
    p2 = p2
    firme = firme
    fragil = fragil
    salida = salida
    Nada = Nada
    Pids = {p1, p2}
    Ios = {firme, fragil}
    Clase <- MCClaseUna
    Firmes = {firme}
    MaxPedidos <- MCPedidos
    Lentos = {}
PROPERTIES
    TodoTrabajoTermina
CHECK_DEADLOCK FALSE

---------------------------- MODULE Instrucciones ----------------------------
(***************************************************************************)
(* The instructions of a script and what they do to the registers of a     *)
(* process (cpu/src/cliente.c, functions ejecutar_...).  A script is a      *)
(* sequence of records whose field op names the instruction; the text of    *)
(* an instruction, its parsing and the time it takes are left out.          *)
(*                                                                         *)
(* Registers keep their width: 8 bits (one byte) or 32 bits (Ancho bytes),  *)
(* with Base values per byte, and wrap around as the unsigned types do.     *)
(***************************************************************************)
EXTENDS Integers, Sequences

CONSTANTS
    Pids,        \* processes
    Programa,    \* the script of each process
    Base,        \* values of a byte (256)
    Ancho,       \* bytes of a 32-bit register (4)
    Reg8, Reg32  \* names of the registers

\* How many values n bytes take.
Potencia[n \in Nat] == IF n = 0 THEN 1 ELSE Base * Potencia[n - 1]

Byte == 0 .. Base - 1
Palabra == 0 .. Potencia[Ancho] - 1
Registros == Reg8 \cup Reg32

\* Instructions the CPU carries out on its registers alone.
Calculos == {"NOOP", "SET", "SUM", "SUB", "JNZ"}
\* System calls that change neither registers nor segments.
OtrasSyscalls == {"MUTEX_CREATE", "MUTEX_LOCK", "MUTEX_UNLOCK", "INIT_PROC"}
Esperas == {"SLEEP", "STDIN", "STDOUT"}
Accesos == {"MOV_IN", "MOV_OUT", "COPY_MEM"}
Operaciones == Calculos \cup OtrasSyscalls \cup Esperas \cup Accesos
                 \cup {"MEM_ALLOC", "MEM_FREE", "EXIT"}

\* What the decoder makes of a well-formed line: the registers it names exist, and
\* numbers are what atoi and strtoul leave.  An 8-bit register that is read as one of
\* 32 bits brings its neighbours along: the scripts of the models never do it.
BienFormada(i) ==
    /\ i.op \in Operaciones
    /\ i.op = "SET" => i.dest \in Registros /\ i.valor \in Nat
    /\ i.op \in {"SUM", "SUB"} => {i.dest, i.orig} \subseteq Registros
    /\ i.op \in {"SUM", "SUB"} /\ i.dest \in Reg32 => i.orig \in Reg32
    /\ i.op = "JNZ" => i.dest \in Registros /\ i.valor \in Palabra
    /\ i.op = "MOV_IN" => i.dest \in Registros
    /\ i.op = "MOV_OUT" => i.orig \in Registros
    /\ i.op = "COPY_MEM" => IF "reg" \in DOMAIN i THEN i.reg \in Reg32 ELSE i.tam \in Palabra
    /\ i.op = "MEM_ALLOC" => i.id \in Nat /\ i.tam \in Nat \ {0}
    /\ i.op \in {"STDIN", "STDOUT"} => {i.dir, i.tam} \subseteq Registros

ASSUME InstruccionesAssumption ==
    /\ Base \in Nat \ {0, 1} /\ Ancho \in Nat \ {0}
    /\ {"PC", "SI", "DI"} \subseteq Reg32
    /\ Reg8 \cap Reg32 = {}
    /\ \A p \in Pids : Len(Programa[p]) \in Nat
    /\ \A p \in Pids : \A k \in 1 .. Len(Programa[p]) : BienFormada(Programa[p][k])

-----------------------------------------------------------------------------
\* sizeof of a register, and how many values it takes.
TamReg(r) == IF r \in Reg32 THEN Ancho ELSE 1
Modulo(r) == Potencia[TamReg(r)]

\* The registers of a process, each within its width.
BancoRegistros == {reg \in [Registros -> Palabra] : \A r \in Reg8 : reg[r] \in Byte}
RegistrosEnCero == [r \in Registros |-> 0]

SinPedido == [op |-> "nada", dir |-> 0, tam |-> 0]

\* The machine of a process that has just begun, or of which nothing more is
\* promised.
Parado(s) == [sit |-> s, reg |-> RegistrosEnCero, segs |-> <<>>,
              pedido |-> SinPedido, salida |-> <<>>]

\* The bytes of a value, low byte first, and the value of such bytes.
EnBytes(v, n) == [k \in 1 .. n |-> (v \div Potencia[k - 1]) % Base]
ValorDe(bytes) ==
    LET suma[k \in 0 .. Len(bytes)] ==
            IF k = 0 THEN 0 ELSE suma[k - 1] + bytes[k] * Potencia[k - 1]
    IN  suma[Len(bytes)]

\* manejar_pedido_instruccion_cpu: past the end of the script the answer is EXIT.
Instruccion(p, pc) ==
    IF pc < Len(Programa[p]) THEN Programa[p][pc + 1] ELSE [op |-> "EXIT"]

\* The end of the cycle: contexto_actual->pc++.
Avanzar(reg) == [reg EXCEPT !["PC"] = (@ + 1) % Potencia[Ancho]]

\* Wrong variant: a register of 8 bits takes the whole number of the script.
CalcularSinTruncar(reg, i) ==
    CASE i.op = "SET" /\ i.dest # "PC" -> Avanzar([reg EXCEPT ![i.dest] = i.valor])
      [] i.op = "SET" /\ i.dest = "PC" -> [reg EXCEPT !["PC"] = i.valor]
      [] OTHER -> Avanzar(reg)

\* execute and the end of the cycle, for the instructions of Calculos.  Only SET
\* PC and a jump that is taken set pc_modificado.
Calcular(reg, i) ==
    CASE i.op = "NOOP" -> Avanzar(reg)
      [] i.op = "SET" ->
           LET nuevo == [reg EXCEPT ![i.dest] = i.valor % Modulo(i.dest)]
           IN  IF i.dest = "PC" THEN nuevo ELSE Avanzar(nuevo)
      [] i.op = "SUM" ->
           Avanzar([reg EXCEPT ![i.dest] = (@ + reg[i.orig]) % Modulo(i.dest)])
      [] i.op = "SUB" ->
           Avanzar([reg EXCEPT ![i.dest] = (@ - reg[i.orig]) % Modulo(i.dest)])
      [] i.op = "JNZ" ->
           IF reg[i.dest] # 0 THEN [reg EXCEPT !["PC"] = i.valor] ELSE Avanzar(reg)

\* The size of a COPY_MEM: a number, or a 32-bit register.
TamCopia(reg, i) == IF "reg" \in DOMAIN i THEN reg[i.reg] ELSE i.tam

=============================================================================

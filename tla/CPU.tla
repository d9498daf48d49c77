-------------------------------- MODULE CPU --------------------------------
(***************************************************************************)
(* The CPUs (cpu/src/cliente.c) with the part of Kernel Memory and of the   *)
(* Kernel Scheduler they talk to: the instruction cycle, the context a CPU  *)
(* copies from Kernel Memory and gives back, the MMU over that copy of the  *)
(* segment table, accesses that go piece by piece to the Memory Sticks, the *)
(* system calls seen from the CPU, the query of interrupt(), and the        *)
(* compaction that moves segments while other CPUs run.                     *)
(*                                                                         *)
(* A CPU writes to the sticks at addresses it computes from a COPY of the   *)
(* table, and Kernel Memory changes the table without telling the CPUs.     *)
(* What keeps the copy good is spread over three programs: the caller of    *)
(* MEM_ALLOC and MEM_FREE is always evicted, a compaction waits until no     *)
(* other process runs, and the context is saved before the scheduler hears  *)
(* that the process left.  MaquinaIdeal says what must come of it.          *)
(*                                                                         *)
(* Left to other modules: which process is READY next and when a quantum    *)
(* ends (Planificador), the choice of a hole by BEST or WORST and SWAP      *)
(* (KernelMemory), the devices (ColaIO).                                    *)
(***************************************************************************)
EXTENDS Instrucciones, FiniteSets, SequencesExt

CONSTANTS
    Cpus,
    TamanioStick,       \* sizes of the Memory Sticks, in the order they connect
    SticksIniciales,    \* how many are there before the Kernel Scheduler starts
    SEGMENT_MAX_SIZE,   \* config of Kernel Memory
    TAM_MAX_SEGMENTO,   \* config of the CPUs
    Entradas,           \* bound: the bytes a STDIN may bring
    ErrorSegFault,      \* ERROR_SEGMENTATION_FAULT, 13: what the MMU returns
    Nadie               \* no process, no CPU, no context

Sticks == 1 .. Len(TamanioStick)

\* Addresses are given in the order the sticks connect.
BaseStick[m \in 1 .. Len(TamanioStick) + 1] ==
    IF m = 1 THEN 0 ELSE BaseStick[m - 1] + TamanioStick[m - 1]

Direcciones == 0 .. BaseStick[Len(TamanioStick) + 1] - 1

\* CPU and Kernel Memory divide a logical address by two settings, which have to
\* be given the same value.
ASSUME CPUAssumption ==
    /\ IsFiniteSet(Cpus) /\ IsFiniteSet(Pids)
    /\ Nadie \notin Pids \cup Cpus
    /\ TamanioStick \in Seq(Nat \ {0})
    /\ SticksIniciales \in Sticks
    /\ SEGMENT_MAX_SIZE \in Nat \ {0}
    /\ TAM_MAX_SEGMENTO = SEGMENT_MAX_SIZE
    /\ ErrorSegFault \in Nat
    /\ Entradas \subseteq Byte

VARIABLES
    cpu,         \* per CPU: fase, pid, ctx (contexto_actual), sticks (memory_sticks),
                 \* acceso, what is left of the access to memory under way, and
                 \* avisos, how often the scheduler has yet to end its process
    contextos,   \* lista_contextos of Kernel Memory: registers and segment table
    memoria,     \* the bytes of the sticks
    sticks_km,   \* how many sticks Kernel Memory has
    ms,          \* list_suplementarias->ms of the scheduler
    pendientes,  \* list_ms_pendientes
    estado,      \* state of each process in the scheduler
    desalojo,    \* list_suplementarias->desalojo
    pedido,      \* what a blocked process asked of a device
    salida,      \* the bytes its last STDOUT sent to the device
    compac,      \* compactacion_value, sem_compactacion, and who holds the KM socket
    canal_sano,  \* FALSE: scheduler and Kernel Memory no longer agree on the socket
    perdidos     \* history: processes that met a flaw of this code, or its victims

vars == <<cpu, contextos, memoria, sticks_km, ms, pendientes, estado, desalojo,
          pedido, salida, compac, canal_sano, perdidos>>

SinAcceso == [dir |-> 0, falta |-> 0, datos |-> <<>>, fallo |-> FALSE]
SinCompac == [valor |-> FALSE, sem |-> FALSE, quien |-> Nadie]

\* The phases in which the CPU trusts its copy of the segment table.
Confia == {"fetch", "leyendo", "escribiendo"}
Fases == Confia \cup {"fuera", "libre", "despachada", "espera", "interrupt",
                      "guardar", "avisar", "finalizando", "colgada"}

Segmento == [id : Nat, base : Nat, tam : Nat]
Contexto == [reg : BancoRegistros, tabla : Seq(Segmento)]

ASSUME NadieAssumption == Nadie \notin Contexto

\* The types of the variables: above all, no register ever holds more than its
\* width, whatever the script computes (set, sum, sub of cliente.c).
TypeOK ==
    /\ \A c \in Cpus :
         /\ cpu[c].fase \in Fases
         /\ cpu[c].pid \in Pids \cup {Nadie}
         /\ cpu[c].ctx = Nadie \/ cpu[c].ctx \in Contexto
         /\ cpu[c].sticks \subseteq Sticks
         /\ cpu[c].acceso \in [dir : Nat, falta : Nat, datos : Seq(Byte), fallo : BOOLEAN]
         /\ cpu[c].avisos \in 0 .. 2
    /\ \A p \in Pids : contextos[p] = Nadie \/ contextos[p] \in Contexto
    /\ memoria \in [Direcciones -> Byte]
    /\ sticks_km \in Sticks
    /\ ms \subseteq Sticks
    /\ pendientes \in Seq(Sticks)
    /\ estado \in [Pids -> {"READY", "RUNNING", "BLOCK", "EXIT"}]
    /\ desalojo \subseteq Pids
    /\ \A p \in Pids : pedido[p] \in [op : {"nada", "STDIN", "STDOUT"}, dir : Palabra,
                                      tam : Palabra]
    /\ salida \in [Pids -> Seq(Byte)]
    /\ compac \in [valor : BOOLEAN, sem : BOOLEAN, quien : Cpus \cup {Nadie}]
    /\ canal_sano \in BOOLEAN
    /\ perdidos \subseteq Pids

-----------------------------------------------------------------------------
(* Memory as Kernel Memory sees it *)

Fin == BaseStick[sticks_km + 1]

Tabla(p) == IF contextos[p] = Nadie THEN <<>> ELSE contextos[p].tabla

\* The addresses of a segment, and of all segments.
Celdas(s) == s.base .. s.base + s.tam - 1
Ocupadas == UNION {UNION {Celdas(Tabla(p)[k]) : k \in DOMAIN Tabla(p)} : p \in Pids}

\* The bases of the holes with room for tam bytes.
Huecos(tam) ==
    {b \in 0 .. Fin - tam : /\ (b .. b + tam - 1) \cap Ocupadas = {}
                            /\ b = 0 \/ b - 1 \in Ocupadas}

EspacioLibre == Fin - Cardinality(Ocupadas)

\* Where the byte at address a goes when the segments are packed, and the contexts
\* with every segment at its new base.
Compactada(a) == Cardinality({d \in Ocupadas : d < a})
Mover(tabla) == [k \in DOMAIN tabla |-> [tabla[k] EXCEPT !.base = Compactada(@)]]
Movidos == [p \in Pids |-> IF contextos[p] = Nadie THEN Nadie
                           ELSE [contextos[p] EXCEPT !.tabla = Mover(@)]]

StickDe(a) == CHOOSE m \in Sticks : BaseStick[m] <= a /\ a < BaseStick[m + 1]
FinStick(a) == BaseStick[StickDe(a) + 1]

KmLibre == compac.quien = Nadie /\ canal_sano

\* Wrong variant: the bound of the segment is compared with the size alone.
TraducirSinDesplazamiento(tabla, max, dir, tam) ==
    LET esEse(s) == s.id = dir \div max
        k == SelectInSeq(tabla, esEse)
    IN  IF k = 0 \/ tam > tabla[k].tam THEN Nadie ELSE tabla[k].base + (dir % max)

\* The physical address for tam bytes from logical address dir, or Nadie:
\* the first segment with that number, and its bound.
Traducir(tabla, max, dir, tam) ==
    LET esEse(s) == s.id = dir \div max
        k == SelectInSeq(tabla, esEse)
    IN  IF k = 0 \/ ((dir % max) + tam) % Potencia[Ancho] > tabla[k].tam THEN Nadie
        ELSE tabla[k].base + (dir % max)

-----------------------------------------------------------------------------
(* The CPU at one instruction *)

Pid(c) == cpu[c].pid
Reg(c) == cpu[c].ctx.reg
Actual(c) == Instruccion(Pid(c), Reg(c)["PC"])
En(c, fase) == cpu[c].fase = fase
AntesDe(c, ops) == En(c, "fetch") /\ Actual(c).op \in ops

\* pedir_direccion_mmu
Mmu(c, dir, tam) == Traducir(cpu[c].ctx.tabla, TAM_MAX_SEGMENTO, dir, tam)

\* The CPU goes on to interrupt() with these registers.
Cumplida(c, reg) ==
    [cpu EXCEPT ![c].fase = "interrupt", ![c].ctx.reg = reg, ![c].acceso = SinAcceso]

\* The context is dropped (limpiar_contexto_actual) and the CPU asks for work.
Libre(c) ==
    [cpu EXCEPT ![c].fase = "libre", ![c].pid = Nadie, ![c].ctx = Nadie,
                ![c].acceso = SinAcceso, ![c].avisos = 0]

-----------------------------------------------------------------------------
(* Connections *)

\* conexion_memory_stick: the hole is there before anyone else hears of it.
ConectarStick ==
    /\ sticks_km < Len(TamanioStick)
    /\ sticks_km' = sticks_km + 1
    /\ UNCHANGED <<cpu, contextos, memoria, ms, pendientes, estado, desalojo, pedido,
                   salida, compac, canal_sano, perdidos>>

\* recibir_nueva_memory_stick, in the scheduler.
RecibirNuevaMemoryStick(m) ==
    /\ m <= sticks_km /\ m \notin ms
    /\ ms' = ms \cup {m}
    /\ pendientes' = Append(pendientes, m)
    /\ UNCHANGED <<cpu, contextos, memoria, sticks_km, estado, desalojo, pedido,
                   salida, compac, canal_sano, perdidos>>

\* nueva_cpu and main of the CPU: it learns the sticks the scheduler knows.
NuevaCpu(c) ==
    /\ En(c, "fuera")
    /\ cpu' = [cpu EXCEPT ![c].fase = "libre", ![c].sticks = ms]
    /\ UNCHANGED <<contextos, memoria, sticks_km, ms, pendientes, estado, desalojo,
                   pedido, salida, compac, canal_sano, perdidos>>

-----------------------------------------------------------------------------
(* A process comes to a CPU *)

\* cpu_libre answers a waiting CPU, with sem_compactacion in hand.  A mark that is
\* left from an earlier turn is dropped (quitar_de_desalojo).
Despachar(p, c) ==
    /\ En(c, "libre") /\ estado[p] = "READY"
    /\ ~compac.sem /\ ~compac.valor
    /\ estado' = [estado EXCEPT ![p] = "RUNNING"]
    /\ desalojo' = desalojo \ {p}
    /\ cpu' = [cpu EXCEPT ![c].fase = "despachada", ![c].pid = p]
    /\ UNCHANGED <<contextos, memoria, sticks_km, ms, pendientes, pedido, salida,
                   compac, canal_sano, perdidos>>

\* recibir_contexto: CONTEXTO, answered by enviar_contexto_cpu.
RecibirContexto(c) ==
    /\ En(c, "despachada") /\ contextos[Pid(c)] # Nadie
    /\ cpu' = [cpu EXCEPT ![c].fase = "fetch", ![c].ctx = contextos[Pid(c)]]
    /\ UNCHANGED <<contextos, memoria, sticks_km, ms, pendientes, estado, desalojo,
                   pedido, salida, compac, canal_sano, perdidos>>

-----------------------------------------------------------------------------
(* fetch, decode and execute of what needs only the registers *)

EjecutarCalculo(c) ==
    /\ AntesDe(c, Calculos)
    /\ cpu' = Cumplida(c, Calcular(Reg(c), Actual(c)))
    /\ UNCHANGED <<contextos, memoria, sticks_km, ms, pendientes, estado, desalojo,
                   pedido, salida, compac, canal_sano, perdidos>>

\* The MMU refused: the scheduler is told, and the CPU drops the process without
\* PC++, interrupt() or saving.  The scheduler marks EXT before it asks Kernel
\* Memory to free the process (segmentation_fault).
SegFault(c) ==
    /\ estado' = [estado EXCEPT ![Pid(c)] = "EXIT"]
    /\ cpu' = [cpu EXCEPT ![c].fase = "finalizando", ![c].ctx = Nadie,
                          ![c].acceso = SinAcceso, ![c].avisos = 1]
    /\ UNCHANGED <<contextos, memoria, sticks_km, ms, pendientes, desalojo, pedido,
                   salida, compac, canal_sano, perdidos>>

\* Start of an access; a translation equal to the error code is taken for an error
\* that nobody reported: the instruction is skipped.
Acceder(c, fase, dir, falta, datos) ==
    /\ IF dir = ErrorSegFault
       THEN /\ cpu' = Cumplida(c, Avanzar(Reg(c)))
            /\ perdidos' = perdidos \cup {Pid(c)}
       ELSE /\ cpu' = [cpu EXCEPT ![c].fase = fase,
                          ![c].acceso = [dir |-> dir, falta |-> falta, datos |-> datos,
                                         fallo |-> FALSE]]
            /\ UNCHANGED perdidos
    /\ UNCHANGED <<contextos, memoria, sticks_km, ms, pendientes, estado, desalojo,
                   pedido, salida, compac, canal_sano>>

EjecutarMovIn(c) ==
    LET n == TamReg(Actual(c).dest)
        dir == Mmu(c, Reg(c)["SI"], n)
    IN  /\ AntesDe(c, {"MOV_IN"})
        /\ IF dir = Nadie THEN SegFault(c) ELSE Acceder(c, "leyendo", dir, n, <<>>)

EjecutarMovOut(c) ==
    LET n == TamReg(Actual(c).orig)
        dir == Mmu(c, Reg(c)["DI"], n)
    IN  /\ AntesDe(c, {"MOV_OUT"})
        /\ IF dir = Nadie THEN SegFault(c)
           ELSE Acceder(c, "escribiendo", dir, n, EnBytes(Reg(c)[Actual(c).orig], n))

\* COPY_MEM looks at neither translation: after a refusal it reads from or writes to
\* address 13 all the same.  The scheduler is told of each refusal.
EjecutarCopyMem(c) ==
    LET n == TamCopia(Reg(c), Actual(c))
        origen == Mmu(c, Reg(c)["SI"], n)
        destino == Mmu(c, Reg(c)["DI"], n)
        fallo == Nadie \in {origen, destino}
    IN  /\ AntesDe(c, {"COPY_MEM"})
        /\ estado' = IF fallo THEN [estado EXCEPT ![Pid(c)] = "EXIT"] ELSE estado
        /\ cpu' = [cpu EXCEPT ![c].fase = "leyendo",
                      ![c].acceso = [dir |-> IF origen = Nadie THEN ErrorSegFault ELSE origen,
                                     falta |-> n, datos |-> <<>>, fallo |-> fallo],
                      ![c].avisos = (IF origen = Nadie THEN 1 ELSE 0)
                                      + (IF destino = Nadie THEN 1 ELSE 0)]
        /\ UNCHANGED <<contextos, memoria, sticks_km, ms, pendientes, desalojo,
                       pedido, salida, compac, canal_sano, perdidos>>

-----------------------------------------------------------------------------
(* Accesses go stick by stick (leer_de_memoria, escribir_en_memoria) *)

\* The CPU knows a stick that holds address a (buscar_memory_stick).
Conoce(c, a) == a \in Direcciones /\ StickDe(a) \in cpu[c].sticks

\* Nothing is looked up when there is nothing to read or write.
Alcanza(c) == cpu[c].acceso.falta = 0 \/ Conoce(c, cpu[c].acceso.dir)

\* Bytes of the next piece: up to the end of the stick.
Pieza(acceso) ==
    IF acceso.falta = 0 THEN 0
    ELSE Min({acceso.falta, FinStick(acceso.dir) - acceso.dir})

\* What follows the last piece read.
TrasLeer(c, leido) ==
    LET i == Actual(c)
        destino == Mmu(c, Reg(c)["DI"], Len(leido))
    IN  IF i.op = "MOV_IN"
        THEN Cumplida(c, Avanzar([Reg(c) EXCEPT ![i.dest] = ValorDe(leido)]))
        ELSE [cpu EXCEPT ![c].fase = "escribiendo",
                  ![c].acceso.dir = IF destino = Nadie THEN ErrorSegFault ELSE destino,
                  ![c].acceso.falta = Len(leido), ![c].acceso.datos = leido]

LeerPieza(c) ==
    LET a == cpu[c].acceso
        n == Pieza(a)
        leido == a.datos \o [k \in 1 .. n |-> memoria[a.dir + k - 1]]
    IN  /\ En(c, "leyendo") /\ Alcanza(c)
        /\ cpu' = IF n = a.falta THEN TrasLeer(c, leido)
                  ELSE [cpu EXCEPT ![c].acceso.dir = @ + n, ![c].acceso.falta = @ - n,
                                   ![c].acceso.datos = leido]
        /\ UNCHANGED <<contextos, memoria, sticks_km, ms, pendientes, estado, desalojo,
                       pedido, salida, compac, canal_sano, perdidos>>

\* The end of an access: seg_fault_ocurrido, or PC++ and interrupt().  The thread of
\* this CPU reads its next request when it has served every notice.
FinAcceso(c) ==
    IF cpu[c].acceso.fallo /\ cpu[c].avisos = 0 THEN Libre(c)
    ELSE IF cpu[c].acceso.fallo
    THEN [cpu EXCEPT ![c].fase = "finalizando", ![c].ctx = Nadie, ![c].acceso = SinAcceso]
    ELSE Cumplida(c, Avanzar(Reg(c)))

\* The other processes with a byte at one of these addresses.
Victimas(p, celdas) ==
    {q \in Pids \ {p} : \E k \in DOMAIN Tabla(q) : Celdas(Tabla(q)[k]) \cap celdas # {}}

\* After a refusal the bytes go to address 13, or to a segment that is given back
\* meanwhile: whoever has something there loses it.
EscribirPieza(c) ==
    LET a == cpu[c].acceso
        n == Pieza(a)
    IN  /\ En(c, "escribiendo") /\ Alcanza(c)
        /\ memoria' = [d \in Direcciones |->
               IF d \in a.dir .. a.dir + n - 1 THEN a.datos[d - a.dir + 1] ELSE memoria[d]]
        /\ cpu' = IF n = a.falta THEN FinAcceso(c)
                  ELSE [cpu EXCEPT ![c].acceso.dir = @ + n, ![c].acceso.falta = @ - n,
                                   ![c].acceso.datos = SubSeq(@, n + 1, Len(@))]
        /\ perdidos' = IF a.fallo THEN perdidos \cup Victimas(Pid(c), a.dir .. a.dir + n - 1)
                       ELSE perdidos
        /\ UNCHANGED <<contextos, sticks_km, ms, pendientes, estado, desalojo,
                       pedido, salida, compac, canal_sano>>

\* No stick the CPU knows holds the address: the rest of the access is dropped and
\* only the log hears of it.  A COPY_MEM that could not read has a null buffer: it
\* waits for ever for the answer to bytes it never sent.
AccesoSinStick(c) ==
    /\ cpu[c].fase \in {"leyendo", "escribiendo"} /\ ~Alcanza(c)
    /\ LET destino == Mmu(c, Reg(c)["DI"], TamCopia(Reg(c), Actual(c))) IN
       cpu' = IF En(c, "leyendo") /\ Actual(c).op = "COPY_MEM"
                 /\ Conoce(c, IF destino = Nadie THEN ErrorSegFault ELSE destino)
              THEN [cpu EXCEPT ![c].fase = "colgada"]
              ELSE FinAcceso(c)
    /\ perdidos' = IF cpu[c].acceso.fallo THEN perdidos ELSE perdidos \cup {Pid(c)}
    /\ UNCHANGED <<contextos, memoria, sticks_km, ms, pendientes, estado, desalojo,
                   pedido, salida, compac, canal_sano>>

-----------------------------------------------------------------------------
(* System calls *)

\* A process of the list desalojo leaves its CPU at the next query.
Marcar(p) == desalojo' = desalojo \cup {p}

\* creacion_segmento answers with a base: the segment goes into the table of
\* Kernel Memory and into the copy of the CPU (crear_segmento).
Concedida(c, tablas, b) ==
    LET s == [id |-> Actual(c).id, base |-> b, tam |-> Actual(c).tam] IN
    /\ contextos' = [tablas EXCEPT ![Pid(c)].tabla = Append(@, s)]
    /\ cpu' = [cpu EXCEPT ![c].fase = "interrupt", ![c].ctx.reg = Avanzar(@),
                          ![c].ctx.tabla = Append(@, s)]

\* Wrong variant: the CPU goes past a MEM_ALLOC that found no room (pc_modificado).
EjecutarMemAllocSinReintento(c) ==
    LET tam == Actual(c).tam IN
    /\ AntesDe(c, {"MEM_ALLOC"}) /\ KmLibre
    /\ \/ /\ tam <= SEGMENT_MAX_SIZE
          /\ \E b \in Huecos(tam) : Concedida(c, contextos, b)
          /\ Marcar(Pid(c))
          /\ UNCHANGED compac
       \/ /\ tam <= SEGMENT_MAX_SIZE /\ Huecos(tam) = {} /\ EspacioLibre >= tam
          /\ compac' = [compac EXCEPT !.valor = TRUE, !.quien = c]
          /\ cpu' = [cpu EXCEPT ![c].fase = "espera"]
          /\ UNCHANGED <<contextos, desalojo>>
       \/ /\ tam > SEGMENT_MAX_SIZE \/ EspacioLibre < tam
          /\ cpu' = Cumplida(c, Avanzar(Reg(c)))
          /\ Marcar(Pid(c))
          /\ UNCHANGED <<contextos, compac>>
    /\ UNCHANGED <<memoria, sticks_km, ms, pendientes, estado, pedido, salida,
                   canal_sano, perdidos>>

\* mem_alloc of the scheduler with creacion_segmento: a hole; or a compaction first,
\* with the socket in hand; or -1, and the same instruction is tried again later.
\* The caller is marked in every case.
EjecutarMemAlloc(c) ==
    LET tam == Actual(c).tam IN
    /\ AntesDe(c, {"MEM_ALLOC"}) /\ KmLibre
    /\ \/ /\ tam <= SEGMENT_MAX_SIZE
          /\ \E b \in Huecos(tam) : Concedida(c, contextos, b)
          /\ Marcar(Pid(c))
          /\ UNCHANGED compac
       \/ /\ tam <= SEGMENT_MAX_SIZE /\ Huecos(tam) = {} /\ EspacioLibre >= tam
          /\ compac' = [compac EXCEPT !.valor = TRUE, !.quien = c]
          /\ cpu' = [cpu EXCEPT ![c].fase = "espera"]
          /\ UNCHANGED <<contextos, desalojo>>
       \/ /\ tam > SEGMENT_MAX_SIZE \/ EspacioLibre < tam
          /\ cpu' = Cumplida(c, Reg(c))
          /\ Marcar(Pid(c))
          /\ UNCHANGED <<contextos, compac>>
    /\ UNCHANGED <<memoria, sticks_km, ms, pendientes, estado, pedido, salida,
                   canal_sano, perdidos>>

\* compactacion: sem_wait(&sem_compactacion); nobody is dispatched from here on.
TomarCompactacion ==
    /\ compac.quien # Nadie /\ ~compac.sem
    /\ compac' = [compac EXCEPT !.sem = TRUE]
    /\ UNCHANGED <<cpu, contextos, memoria, sticks_km, ms, pendientes, estado,
                   desalojo, pedido, salida, canal_sano, perdidos>>

\* Wrong variant: the compaction does not wait for the other processes.
NadieMasEjecutaSiempre(c) == TRUE

\* hay_otro_proceso_ejecutando
NadieMasEjecuta(c) == \A p \in Pids \ {Pid(c)} : estado[p] # "RUNNING"

\* CPUS_DESALOJADAS_OK: the segments are packed from address 0 in the order of
\* their bases, and the request of the process is served from the only hole.
Compactar(c) ==
    /\ En(c, "espera") /\ compac.sem
    /\ NadieMasEjecuta(c)
    /\ memoria' = [a \in Direcciones |->
           IF a < Cardinality(Ocupadas)
           THEN memoria[CHOOSE d \in Ocupadas : Compactada(d) = a]
           ELSE memoria[a]]
    /\ Concedida(c, Movidos, Cardinality(Ocupadas))
    /\ Marcar(Pid(c))
    /\ compac' = SinCompac
    /\ UNCHANGED <<sticks_km, ms, pendientes, estado, pedido, salida, canal_sano, perdidos>>

\* mem_free and eliminar_segmento, in Kernel Memory and in the copy of the CPU.
EjecutarMemFree(c) ==
    LET esEse(s) == s.id = Actual(c).id IN
    /\ AntesDe(c, {"MEM_FREE"}) /\ KmLibre
    /\ contextos' = [contextos EXCEPT ![Pid(c)].tabla = RemoveFirstMatch(@, esEse)]
    /\ cpu' = [cpu EXCEPT ![c].fase = "interrupt", ![c].ctx.reg = Avanzar(@),
                          ![c].ctx.tabla = RemoveFirstMatch(@, esEse)]
    /\ Marcar(Pid(c))
    /\ UNCHANGED <<memoria, sticks_km, ms, pendientes, estado, pedido, salida, compac,
                   canal_sano, perdidos>>

\* The mutex calls and INIT_PROC: the caller is marked, unless the mutex is free
\* (MUTEX_LOCK) or does not exist (MUTEX_LOCK, MUTEX_UNLOCK).
EjecutarSyscall(c) ==
    /\ AntesDe(c, OtrasSyscalls)
    /\ Actual(c).op = "INIT_PROC" => KmLibre
    /\ cpu' = Cumplida(c, Avanzar(Reg(c)))
    /\ \/ Actual(c).op # "MUTEX_LOCK" /\ Marcar(Pid(c))
       \/ Actual(c).op \in {"MUTEX_LOCK", "MUTEX_UNLOCK"} /\ UNCHANGED desalojo
    /\ UNCHANGED <<contextos, memoria, sticks_km, ms, pendientes, estado, pedido,
                   salida, compac, canal_sano, perdidos>>

\* SLEEP, STDIN, STDOUT, or a taken mutex: the scheduler blocks and marks the
\* process, then answers.
EjecutarEspera(c) ==
    LET i == Actual(c) IN
    /\ AntesDe(c, Esperas \cup {"MUTEX_LOCK"})
    /\ estado' = [estado EXCEPT ![Pid(c)] = "BLOCK"]
    /\ pedido' = [pedido EXCEPT ![Pid(c)] =
           IF i.op \in {"STDIN", "STDOUT"}
           THEN [op |-> i.op, dir |-> Reg(c)[i.dir], tam |-> Reg(c)[i.tam]]
           ELSE SinPedido]
    /\ cpu' = Cumplida(c, Avanzar(Reg(c)))
    /\ Marcar(Pid(c))
    /\ UNCHANGED <<contextos, memoria, sticks_km, ms, pendientes, salida, compac,
                   canal_sano, perdidos>>

\* ejecutar_exit: the CPU drops the context; the scheduler asks Kernel Memory first.
EjecutarExit(c) ==
    /\ AntesDe(c, {"EXIT"})
    /\ cpu' = [cpu EXCEPT ![c].fase = "finalizando", ![c].ctx = Nadie, ![c].avisos = 1]
    /\ UNCHANGED <<contextos, memoria, sticks_km, ms, pendientes, estado, desalojo,
                   pedido, salida, compac, canal_sano, perdidos>>

\* manejar_finalizar_proceso, and the end of exit_proceso or segmentation_fault, once
\* for each notice: the second time Kernel Memory finds no such process.
Finalizar(c) ==
    /\ En(c, "finalizando") \/ (cpu[c].acceso.fallo /\ cpu[c].avisos > 0)
    /\ KmLibre
    /\ contextos' = [contextos EXCEPT ![Pid(c)] = Nadie]
    /\ estado' = [estado EXCEPT ![Pid(c)] = "EXIT"]
    /\ cpu' = IF En(c, "finalizando") /\ cpu[c].avisos <= 1 THEN Libre(c)
              ELSE [cpu EXCEPT ![c].avisos = @ - 1]
    /\ UNCHANGED <<memoria, sticks_km, ms, pendientes, desalojo, pedido, salida,
                   compac, canal_sano, perdidos>>

-----------------------------------------------------------------------------
(* interrupt() and desalojo *)

\* A quantum ends, or a better process arrives.  The mark is looked at only in the
\* query, so that is when the model lets it be made.
MarcarDesalojo(p) ==
    /\ estado[p] = "RUNNING" /\ p \notin desalojo
    /\ \E c \in Cpus : Pid(c) = p /\ En(c, "interrupt")
    /\ Marcar(p)
    /\ UNCHANGED <<cpu, contextos, memoria, sticks_km, ms, pendientes, estado, pedido,
                   salida, compac, canal_sano, perdidos>>

\* Wrong variant: the process is READY as soon as the CPU is told to let it go.
InterruptSinEsperarOk(c) ==
    LET p == Pid(c) IN
    /\ En(c, "interrupt") /\ pedido[p].op # "STDOUT"
    /\ cpu' = [cpu EXCEPT ![c].fase = "guardar"]
    /\ estado' = IF estado[p] = "RUNNING" THEN [estado EXCEPT ![p] = "READY"] ELSE estado
    /\ desalojo' = desalojo \ {p}
    /\ UNCHANGED <<contextos, memoria, sticks_km, ms, pendientes, pedido, salida, compac,
                   canal_sano, perdidos>>

\* The answer to the query DESALOJO.  The thread of this CPU serves io_stdout to its
\* end before it reads the query.
Interrupt(c) ==
    LET p == Pid(c) IN
    /\ En(c, "interrupt") /\ pedido[p].op # "STDOUT"
    /\ \/ /\ compac.valor \/ p \in desalojo
          /\ cpu' = [cpu EXCEPT ![c].fase = "guardar"]
          /\ desalojo' = IF compac.valor THEN desalojo ELSE desalojo \ {p}
          /\ UNCHANGED pendientes
       \/ /\ ~compac.valor /\ p \notin desalojo /\ pendientes # <<>>
          /\ cpu' = [cpu EXCEPT ![c].fase = "fetch",
                                ![c].sticks = @ \cup {Head(pendientes)}]
          /\ pendientes' = Tail(pendientes)
          /\ UNCHANGED desalojo
       \/ /\ ~compac.valor /\ p \notin desalojo /\ pendientes = <<>>
          /\ cpu' = [cpu EXCEPT ![c].fase = "fetch"]
          /\ UNCHANGED <<desalojo, pendientes>>
    /\ UNCHANGED <<contextos, memoria, sticks_km, ms, estado, pedido, salida, compac,
                   canal_sano, perdidos>>

\* recibir_contexto_cpu takes the registers and drains the table.
GuardarContexto(c) ==
    /\ En(c, "guardar")
    /\ contextos' = IF contextos[Pid(c)] = Nadie THEN contextos
                    ELSE [contextos EXCEPT ![Pid(c)].reg = Reg(c)]
    /\ cpu' = [cpu EXCEPT ![c].fase = "avisar"]
    /\ UNCHANGED <<memoria, sticks_km, ms, pendientes, estado, desalojo, pedido,
                   salida, compac, canal_sano, perdidos>>

\* The OK that ends desalojo: a process that did not block goes back to READY.
Avisar(c) ==
    /\ En(c, "avisar")
    /\ estado' = IF estado[Pid(c)] = "RUNNING"
                 THEN [estado EXCEPT ![Pid(c)] = "READY"] ELSE estado
    /\ cpu' = Libre(c)
    /\ UNCHANGED <<contextos, memoria, sticks_km, ms, pendientes, desalojo, pedido,
                   salida, compac, canal_sano, perdidos>>

-----------------------------------------------------------------------------
(* A blocked process: what the devices do to its memory, and its return *)

\* Kernel Memory divides by its own setting, and sends the whole of a request to
\* the stick where it begins (lectura_memoria, escritura_memoria).
DirPedido(p) == Traducir(Tabla(p), SEGMENT_MAX_SIZE, pedido[p].dir, pedido[p].tam)
CabeEnUnStick(p) ==
    /\ DirPedido(p) < Fin
    /\ DirPedido(p) + pedido[p].tam <= FinStick(DirPedido(p))

\* escritura_memoria refuses what it cannot write and the scheduler goes on.
EscribirStdin(p) ==
    LET dir == DirPedido(p)
        tam == pedido[p].tam
    IN  /\ estado[p] = "BLOCK" /\ pedido[p].op = "STDIN" /\ KmLibre
        /\ \/ /\ dir # Nadie /\ CabeEnUnStick(p)
              /\ \E bytes \in [1 .. tam -> Entradas] :
                   memoria' = [d \in Direcciones |->
                       IF d \in dir .. dir + tam - 1 THEN bytes[d - dir + 1] ELSE memoria[d]]
              /\ UNCHANGED perdidos
           \/ /\ dir = Nadie
              /\ UNCHANGED <<memoria, perdidos>>
           \/ /\ dir # Nadie /\ ~CabeEnUnStick(p)
              /\ perdidos' = perdidos \cup {p}
              /\ UNCHANGED memoria
        /\ pedido' = [pedido EXCEPT ![p] = SinPedido]
        /\ UNCHANGED <<cpu, contextos, sticks_km, ms, pendientes, estado, desalojo,
                       salida, compac, canal_sano>>

\* lectura_memoria answers a refusal with a message where the scheduler expects
\* bytes: it waits for the rest, or leaves some unread, with the socket in hand.
LeerStdout(p) ==
    LET dir == DirPedido(p)
        tam == pedido[p].tam
    IN  /\ estado[p] = "BLOCK" /\ pedido[p].op = "STDOUT" /\ KmLibre
        /\ \/ /\ dir # Nadie /\ CabeEnUnStick(p)
              /\ salida' = [salida EXCEPT ![p] = [k \in 1 .. tam |-> memoria[dir + k - 1]]]
              /\ pedido' = [pedido EXCEPT ![p] = SinPedido]
              /\ UNCHANGED <<canal_sano, perdidos>>
           \/ /\ dir = Nadie \/ ~CabeEnUnStick(p)
              /\ canal_sano' = FALSE
              /\ perdidos' = perdidos \cup {p}
              /\ UNCHANGED <<salida, pedido>>
        /\ UNCHANGED <<cpu, contextos, memoria, sticks_km, ms, pendientes, estado,
                       desalojo, compac>>

\* rta_io_... or the owner of the mutex lets it go.  Hypothesis: the CPU has left by
\* then (Planificador's run FinIOTemprano is about the other case).
Despertar(p) ==
    /\ estado[p] = "BLOCK" /\ pedido[p] = SinPedido
    /\ \A c \in Cpus : Pid(c) # p
    /\ estado' = [estado EXCEPT ![p] = "READY"]
    /\ UNCHANGED <<cpu, contextos, memoria, sticks_km, ms, pendientes, desalojo, pedido,
                   salida, compac, canal_sano, perdidos>>

-----------------------------------------------------------------------------
\* crear_contexto: registers in zero and no segments.
Init ==
    /\ cpu = [c \in Cpus |-> [fase |-> "fuera", pid |-> Nadie, ctx |-> Nadie,
                              sticks |-> {}, acceso |-> SinAcceso, avisos |-> 0]]
    /\ contextos = [p \in Pids |-> [reg |-> RegistrosEnCero, tabla |-> <<>>]]
    /\ memoria = [d \in Direcciones |-> 0]
    /\ sticks_km = SticksIniciales
    /\ ms = 1 .. SticksIniciales
    /\ pendientes = <<>>
    /\ estado = [p \in Pids |-> "READY"]
    /\ desalojo = {}
    /\ pedido = [p \in Pids |-> SinPedido]
    /\ salida = [p \in Pids |-> <<>>]
    /\ compac = SinCompac
    /\ canal_sano = TRUE
    /\ perdidos = {}

PasoCpu(c) ==
    \/ NuevaCpu(c) \/ RecibirContexto(c)
    \/ EjecutarCalculo(c)
    \/ EjecutarMovIn(c) \/ EjecutarMovOut(c) \/ EjecutarCopyMem(c)
    \/ LeerPieza(c) \/ EscribirPieza(c) \/ AccesoSinStick(c)
    \/ EjecutarMemAlloc(c) \/ Compactar(c) \/ EjecutarMemFree(c)
    \/ EjecutarSyscall(c) \/ EjecutarEspera(c)
    \/ EjecutarExit(c) \/ Finalizar(c)
    \/ Interrupt(c) \/ GuardarContexto(c) \/ Avisar(c)

PasoKernel ==
    \/ ConectarStick
    \/ \E m \in Sticks : RecibirNuevaMemoryStick(m)
    \/ \E p \in Pids, c \in Cpus : Despachar(p, c)
    \/ TomarCompactacion
    \/ \E p \in Pids : \/ MarcarDesalojo(p)
                       \/ EscribirStdin(p) \/ LeerStdout(p) \/ Despertar(p)

Next == PasoKernel \/ \E c \in Cpus : PasoCpu(c)

Spec == Init /\ [][Next]_vars

-----------------------------------------------------------------------------
(* Properties *)

\* A CPU that is about to translate an address, or in the middle of an access, has
\* the segment table Kernel Memory has: no compaction, no MEM_ALLOC and no MEM_FREE
\* came between its copy and its use (cliente.c 1357-1405 reads only the copy).
TablaVigente ==
    \A c \in Cpus :
        (cpu[c].fase \in Confia /\ ~cpu[c].acceso.fallo) => cpu[c].ctx.tabla = Tabla(Pid(c))

\* What a CPU has still to read or write lies in a segment of its own process, as
\* Kernel Memory has it now, and in no segment of another one (the bytes go to the
\* sticks without Kernel Memory in between).  A COPY_MEM that the MMU refused goes on
\* (cliente.c 978-983) and may reach anybody's bytes, but only those at address 13 and
\* the ones that follow, or those where its process had a segment when it was refused.
AccesoPropio ==
    \A c \in Cpus : cpu[c].fase \in {"leyendo", "escribiendo"} =>
        LET celdas == cpu[c].acceso.dir .. cpu[c].acceso.dir + cpu[c].acceso.falta - 1
            propia == cpu[c].ctx.tabla
            trece == ErrorSegFault .. ErrorSegFault + TamCopia(Reg(c), Actual(c)) - 1
        IN  /\ cpu[c].acceso.fallo =>
                   \/ celdas \subseteq trece
                   \/ \E k \in DOMAIN propia : celdas \subseteq Celdas(propia[k])
            /\ ~cpu[c].acceso.fallo =>
                   /\ \E k \in DOMAIN Tabla(Pid(c)) : celdas \subseteq Celdas(Tabla(Pid(c))[k])
                   /\ \A q \in Pids \ {Pid(c)} : \A k \in DOMAIN Tabla(q) :
                          celdas \cap Celdas(Tabla(q)[k]) = {}

\* One CPU at most works for a process, and a process in RUNNING has one.
UnaCpuPorProceso ==
    \A p \in Pids :
        /\ \A c, d \in Cpus : Pid(c) = p /\ Pid(d) = p => c = d
        /\ estado[p] = "RUNNING" => \E c \in Cpus : Pid(c) = p

-----------------------------------------------------------------------------
(* The machine a script sees *)

Duenias(p) == {c \in Cpus : Pid(c) = p /\ cpu[c].ctx # Nadie}

\* An access that began to write is as good as done: its PC++ and the bytes it has
\* still to write count already.
RegVistos(p) ==
    IF Duenias(p) = {} THEN contextos[p].reg
    ELSE LET c == CHOOSE c \in Duenias(p) : TRUE
         IN  IF En(c, "escribiendo") THEN Avanzar(Reg(c)) ELSE Reg(c)

ByteVisto(p, d) ==
    LET escribe == {c \in Duenias(p) : /\ En(c, "escribiendo")
                                       /\ cpu[c].acceso.dir <= d
                                       /\ d < cpu[c].acceso.dir + cpu[c].acceso.falta}
    IN  IF escribe = {} THEN memoria[d]
        ELSE LET a == cpu[CHOOSE c \in escribe : TRUE].acceso IN a.datos[d - a.dir + 1]

MaquinaDe(p) ==
    IF estado[p] = "EXIT" \/ \E c \in Cpus : Pid(c) = p /\ En(c, "finalizando")
    THEN Parado("terminado")
    ELSE IF p \in perdidos THEN Parado("perdido")
    ELSE [sit    |-> IF estado[p] = "BLOCK" THEN "bloqueado" ELSE "activo",
          reg    |-> RegVistos(p),
          segs   |-> [k \in DOMAIN Tabla(p) |->
                        LET s == Tabla(p)[k] IN
                        [id    |-> s.id,
                         datos |-> [j \in 1 .. s.tam |-> ByteVisto(p, s.base + j - 1)]]],
          pedido |-> pedido[p],
          salida |-> salida[p]]

Maquina == INSTANCE MaquinaIdeal WITH proceso <- [p \in Pids |-> MaquinaDe(p)]

\* Every script runs as on a machine of its own, in whatever CPU it is: evictions,
\* changes of CPU, compactions, accesses in pieces and sticks that connect do not show,
\* and no other script does, but for one whose COPY_MEM was refused (main of the CPU,
\* 149-250, with desalojo 991-1190, mem_alloc 2418-2503 and
\* ejecutar_compactacion_fisica_memory_stick).  The promise ends for the scripts in
\* perdidos: one that met a flaw of this code, and those whose bytes such a COPY_MEM
\* wrote over.
CadaScriptSolo == Maquina!Spec

=============================================================================

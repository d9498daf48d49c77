---------------------------- MODULE Planificador ----------------------------
(***************************************************************************)
(* The short-term scheduler of the Kernel Scheduler (server.c, utilsKS.c):  *)
(* the lists READY and RUNNING, the thread that serves each CPU, eviction,  *)
(* quantum, affinity to a CPU, and the handshake of a compaction.           *)
(*                                                                         *)
(* A CPU asks for a process, runs it, and after every instruction asks      *)
(* whether it must leave it (DESALOJO); what it asks is served by a thread  *)
(* of its own.  After EVERY request that thread also asks Kernel Memory for *)
(* MEM_CORRUPT, under mutex_conexion_km.  One step is what a thread does    *)
(* between two points where another thread can be seen; an exchange with    *)
(* Kernel Memory is one step of the thread that has the mutex.              *)
(*                                                                         *)
(* A CPU may die at any point: its thread finds out the next time it reads  *)
(* from it, and puts its process back in READY.                             *)
(*                                                                         *)
(* Left out: suspension, mutex_lock and inheritance, MEM_CORRUPT,           *)
(* the BLOCK, NEW and EXIT lists (nobody looks a process up by them here).  *)
(***************************************************************************)
EXTENDS Integers, Sequences, FiniteSets

CONSTANTS
    Pids,          \* processes that may be created
    Primero,       \* the initial process
    Cpus,          \* CPUs, all connected at the start
    MaxCaidas,     \* bound: how many of them die
    Algoritmos,    \* config: values of PLANIFICATION_ALGORITHM to consider
    Niveles,       \* config: how many queues CMN has
    NivelesRR,     \* config: which of them are RR
    PrioridadDe,   \* the priority each process is created with
    Preemption,    \* config: QUEUE_PREEMPTION
    Nadie          \* no process, no CPU

ASSUME PlanAssumption ==
    /\ IsFiniteSet(Pids) /\ Primero \in Pids /\ IsFiniteSet(Cpus)
    /\ Nadie \notin Pids /\ Nadie \notin Cpus
    /\ Algoritmos \subseteq {"FIFO", "RR", "CMN"}
    /\ Niveles \in Nat \ {0} /\ NivelesRR \subseteq 0 .. Niveles - 1
    /\ PrioridadDe \in [Pids -> 0 .. Niveles - 1]
    /\ Preemption \in BOOLEAN
    /\ MaxCaidas \in Nat

VARIABLES
    algoritmo,          \* planificacion_algoritmo, read once at the start
    estado_pcb,         \* of each process
    estado_anterior,    \* the state before: the list eliminar_proceso_Lista looks in
    prioridad,          \* of each process
    espera,             \* "io": esperando_io; "despierta": reset, about to be woken
    quantum,            \* timers of each process: "corre", that of its current dispatch
                        \* runs; "vence", one looked and has yet to add the mark
    rdy,                \* READY under FIFO and RR
    niveles,            \* READY under CMN: a queue per priority
    rnn,                \* RUNNING
    desalojo,           \* processes that must leave their CPU
    retorno_cpu,        \* CPUs reserved for each process, oldest first
    sem_hay_ready,      \* semaphore: processes in READY
    compactacion_value, \* a compaction is going on
    sem_compactacion,   \* the thread that holds this semaphore of one token
    mutex_conexion_km,  \* the thread that holds this mutex
    cpu,                \* what each CPU is doing, with which process (pid_ejecutando),
                        \* and whether that process was last dispatched to it (fd_cpu)
    hilo                \* the thread of each CPU: where it is, and its process

procesos == <<estado_pcb, estado_anterior, prioridad, espera, quantum>>
ready == <<rdy, niveles, sem_hay_ready>>
suplementarias == <<desalojo, retorno_cpu>>
compac == <<compactacion_value, sem_compactacion>>

vars == <<algoritmo, procesos, ready, rnn, suplementarias, compac,
          mutex_conexion_km, cpu, hilo>>

-----------------------------------------------------------------------------
(* Types *)

TypeOK ==
    /\ algoritmo \in Algoritmos
    /\ estado_pcb \in [Pids -> {"NEW", "RDY", "RNN", "BCK", "EXT"}]
    /\ estado_anterior \in [Pids -> {"NO_ESTADO", "NEW", "RDY", "RNN", "BCK"}]
    /\ prioridad \in [Pids -> 0 .. Niveles - 1]
    /\ espera \in [Pids -> {"no", "io", "despierta"}]
    /\ quantum \in [Pids -> SUBSET {"corre", "vence"}]
    /\ rdy \in Seq(Pids) /\ rnn \in Seq(Pids)
    /\ niveles \in [0 .. Niveles - 1 -> Seq(Pids)]
    /\ desalojo \subseteq Pids
    /\ retorno_cpu \in [Pids -> Seq(Cpus)]
    /\ sem_hay_ready \in Nat
    /\ compactacion_value \in BOOLEAN
    /\ sem_compactacion \in Cpus \cup {Nadie}
    /\ mutex_conexion_km \in Cpus \cup {Nadie}
    /\ cpu \in [Cpus -> [pid : Pids \cup {Nadie}, propio : BOOLEAN,
                        paso : {"ejecuta", "chequea", "guarda", "muerta"}]]
    /\ hilo \in [Cpus -> [pc : {"sem_hay_ready", "sem_compactacion", "mandar", "despachar",
                                "km", "recv", "mem_alloc", "mem_free", "init_proc", "exit",
                                "compactar", "esperar_rnn", "compactando", "alloc_ok",
                                "desalojo", "eliminar", "fuera"},
                          pid : Pids \cup {Nadie}]]

CpuOciosa == [pid |-> Nadie, paso |-> "ejecuta", propio |-> TRUE]
Muerta(c) == cpu[c].paso = "muerta"

Ir(c, pc) == hilo' = [hilo EXCEPT ![c] = [pc |-> pc, pid |-> Nadie]]
IrCon(c, pc, p) == hilo' = [hilo EXCEPT ![c] = [pc |-> pc, pid |-> p]]

-----------------------------------------------------------------------------
(* The lists *)

\* list_remove_element: the first occurrence of p, if any.
Quitar(s, p) ==
    LET esta == {i \in DOMAIN s : s[i] = p /\ \A j \in 1 .. i - 1 : s[j] # p}
    IN  IF esta = {} THEN s
        ELSE LET i == CHOOSE i \in esta : TRUE
             IN  SubSeq(s, 1, i - 1) \o SubSeq(s, i + 1, Len(s))

Veces(s, p) == Cardinality({i \in DOMAIN s : s[i] = p})

VecesEnReady(p) ==
    Veces(rdy, p) +
    Cardinality({x \in UNION {{n} \X DOMAIN niveles[n] : n \in DOMAIN niveles} :
                     niveles[x[1]][x[2]] = p})

\* verificar_desalojo_por_prioridad: the first running process of worse priority.
Victima(p) ==
    LET peores == {i \in DOMAIN rnn : rnn[i] # p /\ prioridad[p] < prioridad[rnn[i]]}
    IN  {rnn[i] : i \in {j \in peores : \A k \in peores : j <= k}}

\* Wrong variant: the semaphore is not posted.
AgregarSinPostear(p, sinMarca) ==
    /\ IF algoritmo = "CMN"
       THEN /\ niveles' = [niveles EXCEPT ![prioridad[p]] = Append(@, p)]
            /\ desalojo' = (desalojo \ sinMarca) \cup (IF Preemption THEN Victima(p) ELSE {})
            /\ UNCHANGED rdy
       ELSE /\ rdy' = Append(rdy, p)
            /\ desalojo' = desalojo \ sinMarca
            /\ UNCHANGED niveles
    /\ UNCHANGED sem_hay_ready

\* agregar_proceso_lista of a process in state RDY, once those of sinMarca have lost
\* their mark.
AgregarAReady(p, sinMarca) ==
    /\ IF algoritmo = "CMN"
       THEN /\ niveles' = [niveles EXCEPT ![prioridad[p]] = Append(@, p)]
            /\ desalojo' = (desalojo \ sinMarca) \cup (IF Preemption THEN Victima(p) ELSE {})
            /\ UNCHANGED rdy
       ELSE /\ rdy' = Append(rdy, p)
            /\ desalojo' = desalojo \ sinMarca
            /\ UNCHANGED niveles
    /\ sem_hay_ready' = sem_hay_ready + 1

\* eliminar_proceso_Lista: p leaves the list of its previous state, if it is there.
\* Out of READY it takes a token, and waits for one.
EliminarDe(anterior, p) ==
    /\ rnn' = IF anterior = "RNN" THEN Quitar(rnn, p) ELSE rnn
    /\ IF anterior = "RDY" /\ VecesEnReady(p) > 0
       THEN /\ sem_hay_ready > 0
            /\ sem_hay_ready' = sem_hay_ready - 1
            /\ rdy' = Quitar(rdy, p)
            /\ niveles' = IF Veces(rdy, p) > 0 THEN niveles
                          ELSE [n \in DOMAIN niveles |-> Quitar(niveles[n], p)]
       ELSE UNCHANGED ready

\* Wrong variant: the previous state is not kept.
CambiarSinAnterior(p, nuevo) ==
    /\ estado_pcb' = [estado_pcb EXCEPT ![p] = nuevo]
    /\ UNCHANGED estado_anterior

CambiarEstado(p, nuevo) ==
    /\ estado_anterior' = [estado_anterior EXCEPT ![p] = estado_pcb[p]]
    /\ estado_pcb' = [estado_pcb EXCEPT ![p] = nuevo]

\* Wrong variant: the reservation is not taken away.
ReservaSinQuitar(p) == retorno_cpu

\* quitar_retorno_cpu: the oldest reservation of p, if it has one.
SinReserva(p) ==
    [retorno_cpu EXCEPT ![p] = IF @ = <<>> THEN @ ELSE Tail(@)]

\* quitar_retorno_por_fd: the reservations of s that are not of CPU c, in their order.
SinLasDe(s, c) ==
    LET quedan == {i \in DOMAIN s : s[i] # c}
    IN  [k \in 1 .. Cardinality(quedan) |->
            s[CHOOSE i \in quedan : Cardinality({j \in quedan : j <= i}) = k]]

-----------------------------------------------------------------------------
(* cpu_libre and mandar_proceso_cpu *)

\* Wrong variant: the thread does not wait for a token.
TomarSinEsperar(c) ==
    /\ hilo[c].pc = "sem_hay_ready"
    /\ sem_hay_ready' = sem_hay_ready - 1
    /\ Ir(c, "sem_compactacion")
    /\ UNCHANGED <<algoritmo, procesos, rdy, niveles, rnn, suplementarias, compac,
                   mutex_conexion_km, cpu>>

TomarFicha(c) ==
    /\ hilo[c].pc = "sem_hay_ready" /\ sem_hay_ready > 0
    /\ sem_hay_ready' = sem_hay_ready - 1
    /\ Ir(c, "sem_compactacion")
    /\ UNCHANGED <<algoritmo, procesos, rdy, niveles, rnn, suplementarias, compac,
                   mutex_conexion_km, cpu>>

TomarSemCompactacion(c) ==
    /\ hilo[c].pc = "sem_compactacion" /\ sem_compactacion = Nadie
    /\ sem_compactacion' = c
    /\ Ir(c, "mandar")
    /\ UNCHANGED <<algoritmo, procesos, ready, rnn, suplementarias, compactacion_value,
                   mutex_conexion_km, cpu>>

\* The process whose turn it is.
Cabeza ==
    IF algoritmo = "CMN"
    THEN {Head(niveles[n]) : n \in {m \in 0 .. Niveles - 1 :
              niveles[m] # <<>> /\ \A k \in 0 .. m - 1 : niveles[k] = <<>>}}
    ELSE IF rdy = <<>> THEN {} ELSE {Head(rdy)}

\* obtener_siguiente_proceso_para_cpu: it, unless it is reserved for another CPU.
Candidatos(c) == {p \in Cabeza : retorno_cpu[p] = <<>> \/ Head(retorno_cpu[p]) = c}

MandarProceso(c, p) ==
    /\ hilo[c].pc = "mandar" /\ ~compactacion_value
    /\ p \in Candidatos(c)
    /\ IF algoritmo = "CMN"
       THEN niveles' = [n \in DOMAIN niveles |->
                IF niveles[n] # <<>> /\ \A k \in 0 .. n - 1 : niveles[k] = <<>>
                THEN Tail(niveles[n]) ELSE niveles[n]] /\ UNCHANGED rdy
       ELSE rdy' = Tail(rdy) /\ UNCHANGED niveles
    /\ retorno_cpu' = SinReserva(p)
    /\ IrCon(c, "despachar", p)
    /\ UNCHANGED <<algoritmo, procesos, sem_hay_ready, rnn, desalojo, compac,
                   mutex_conexion_km, cpu>>

\* Wrong variant: the token is lost.
NoMandarSinFicha(c) ==
    /\ hilo[c].pc = "mandar" /\ (compactacion_value \/ Candidatos(c) = {})
    /\ sem_compactacion' = Nadie
    /\ Ir(c, "sem_hay_ready")
    /\ UNCHANGED <<algoritmo, procesos, ready, rnn, suplementarias,
                   compactacion_value, mutex_conexion_km, cpu>>

\* The token goes back, and the thread will try again.
NoMandar(c) ==
    /\ hilo[c].pc = "mandar" /\ (compactacion_value \/ Candidatos(c) = {})
    /\ sem_hay_ready' = sem_hay_ready + 1
    /\ sem_compactacion' = Nadie
    /\ Ir(c, "sem_hay_ready")
    /\ UNCHANGED <<algoritmo, procesos, rdy, niveles, rnn, suplementarias,
                   compactacion_value, mutex_conexion_km, cpu>>

usa_quantum(p) ==
    algoritmo = "RR" \/ (algoritmo = "CMN" /\ prioridad[p] \in NivelesRR)

\* The process goes to the CPU.  Nobody looks at the result of the send (enviar_pid
\* always returns 1), so a CPU that has died gets it too.
Despachar(c) ==
    LET p == hilo[c].pid
    IN  /\ hilo[c].pc = "despachar"
        /\ desalojo' = desalojo \ {p}
        /\ CambiarEstado(p, "RNN")
        /\ rnn' = Append(rnn, p)
        /\ cpu' = [d \in Cpus |->
               IF d = c
               THEN [pid |-> p, paso |-> IF Muerta(c) THEN "muerta" ELSE "ejecuta",
                     propio |-> TRUE]
               ELSE [cpu[d] EXCEPT !.propio = @ /\ cpu[d].pid # p]]
        /\ quantum' = IF usa_quantum(p) THEN [quantum EXCEPT ![p] = @ \cup {"corre"}] ELSE quantum
        /\ sem_compactacion' = Nadie
        /\ Ir(c, "km")
        /\ UNCHANGED <<algoritmo, prioridad, espera, ready, retorno_cpu,
                       compactacion_value, mutex_conexion_km>>

\* The end of every request: MEM_CORRUPT is asked for; then the next one is
\* received, which from a CPU without a process is CPU_LIBRE.
ConsultarKM(c) ==
    /\ hilo[c].pc = "km" /\ mutex_conexion_km = Nadie
    /\ Ir(c, IF cpu[c].pid = Nadie /\ ~Muerta(c) THEN "sem_hay_ready" ELSE "recv")
    /\ UNCHANGED <<algoritmo, procesos, ready, rnn, suplementarias, compac,
                   mutex_conexion_km, cpu>>

-----------------------------------------------------------------------------
(* The CPU, and what it asks of its thread while it runs *)

\* An instruction that is no system call; then the CPU checks for interrupts.
Instruccion(c) ==
    /\ cpu[c].pid # Nadie /\ cpu[c].paso = "ejecuta"
    /\ cpu' = [cpu EXCEPT ![c].paso = "chequea"]
    /\ UNCHANGED <<algoritmo, procesos, ready, rnn, suplementarias, compac,
                   mutex_conexion_km, hilo>>

\* A system call: the thread takes the request of the process that is running.
Pide(c) == hilo[c].pc = "recv" /\ cpu[c].pid # Nadie /\ cpu[c].paso = "ejecuta"
LuegoChequea(c) == cpu' = [cpu EXCEPT ![c].paso = "chequea"]
LuegoOciosa(c) == cpu' = [cpu EXCEPT ![c] = CpuOciosa]

\* desalojar_por_syscall_mismo_cpu: p leaves the CPU, which is reserved for it.
DesalojarMismaCpu(c, p) ==
    /\ desalojo' = desalojo \cup {p}
    /\ retorno_cpu' = [retorno_cpu EXCEPT ![p] = Append(@, c)]

\* mutex_create, and mutex_unlock as far as this module goes.
SyscallMutex(c) ==
    /\ Pide(c) /\ LuegoChequea(c)
    /\ DesalojarMismaCpu(c, cpu[c].pid)
    /\ Ir(c, "km")
    /\ UNCHANGED <<algoritmo, procesos, ready, rnn, compac, mutex_conexion_km>>

\* mem_alloc, mem_free: the thread waits for its turn with Kernel Memory.
MemAlloc(c) ==
    /\ Pide(c) /\ LuegoChequea(c)
    /\ Ir(c, "mem_alloc")
    /\ UNCHANGED <<algoritmo, procesos, ready, rnn, suplementarias, compac, mutex_conexion_km>>

MemFree(c) ==
    /\ Pide(c) /\ LuegoChequea(c)
    /\ Ir(c, "mem_free")
    /\ UNCHANGED <<algoritmo, procesos, ready, rnn, suplementarias, compac, mutex_conexion_km>>

FinMemFree(c) ==
    /\ hilo[c].pc = "mem_free" /\ mutex_conexion_km = Nadie
    /\ DesalojarMismaCpu(c, cpu[c].pid)
    /\ Ir(c, "km")
    /\ UNCHANGED <<algoritmo, procesos, ready, rnn, compac, mutex_conexion_km, cpu>>

\* Kernel Memory answers at once; without room the process only leaves.
AllocResponde(c) ==
    /\ hilo[c].pc = "mem_alloc" /\ mutex_conexion_km = Nadie
    /\ \/ DesalojarMismaCpu(c, cpu[c].pid)
       \/ desalojo' = desalojo \cup {cpu[c].pid} /\ UNCHANGED retorno_cpu
    /\ Ir(c, "km")
    /\ UNCHANGED <<algoritmo, procesos, ready, rnn, compac, mutex_conexion_km, cpu>>

\* Kernel Memory must compact first.  The mutex is kept until its last answer.
PedirCompactacion(c) ==
    /\ hilo[c].pc = "mem_alloc" /\ mutex_conexion_km = Nadie
    /\ mutex_conexion_km' = c
    /\ compactacion_value' = TRUE
    /\ Ir(c, "compactar")
    /\ UNCHANGED <<algoritmo, procesos, ready, rnn, suplementarias, sem_compactacion, cpu>>

Compactacion(c) ==
    /\ hilo[c].pc = "compactar" /\ sem_compactacion = Nadie
    /\ sem_compactacion' = c
    /\ Ir(c, "esperar_rnn")
    /\ UNCHANGED <<algoritmo, procesos, ready, rnn, suplementarias, compactacion_value,
                   mutex_conexion_km, cpu>>

hay_otro_proceso_ejecutando(p) == \E i \in DOMAIN rnn : rnn[i] # p

\* Wrong variant: Kernel Memory is told to start without waiting.
RnnSinEsperar(c) ==
    /\ hilo[c].pc = "esperar_rnn"
    /\ Ir(c, "compactando")
    /\ UNCHANGED <<algoritmo, procesos, ready, rnn, suplementarias, compac,
                   mutex_conexion_km, cpu>>

RnnVacio(c) ==
    /\ hilo[c].pc = "esperar_rnn" /\ ~hay_otro_proceso_ejecutando(cpu[c].pid)
    /\ Ir(c, "compactando")
    /\ UNCHANGED <<algoritmo, procesos, ready, rnn, suplementarias, compac,
                   mutex_conexion_km, cpu>>

\* Wrong variant: the flag is not lowered.
FinSinBajar(c) ==
    /\ hilo[c].pc = "compactando"
    /\ sem_compactacion' = Nadie
    /\ Ir(c, "alloc_ok")
    /\ UNCHANGED <<algoritmo, procesos, ready, rnn, suplementarias, compactacion_value,
                   mutex_conexion_km, cpu>>

CompactacionFinalizada(c) ==
    /\ hilo[c].pc = "compactando"
    /\ compactacion_value' = FALSE
    /\ sem_compactacion' = Nadie
    /\ Ir(c, "alloc_ok")
    /\ UNCHANGED <<algoritmo, procesos, ready, rnn, suplementarias, mutex_conexion_km, cpu>>

\* After a compaction the segment fits.
AllocOk(c) ==
    /\ hilo[c].pc = "alloc_ok"
    /\ mutex_conexion_km' = Nadie
    /\ DesalojarMismaCpu(c, cpu[c].pid)
    /\ Ir(c, "km")
    /\ UNCHANGED <<algoritmo, procesos, ready, rnn, compac, cpu>>

\* exit_proceso: the CPU is told OK, Kernel Memory next, and the lists last.
Exit(c) ==
    /\ Pide(c) /\ LuegoOciosa(c)
    /\ retorno_cpu' = SinReserva(cpu[c].pid)
    /\ IrCon(c, "exit", cpu[c].pid)
    /\ UNCHANGED <<algoritmo, procesos, ready, rnn, desalojo, compac, mutex_conexion_km>>

Finalizar(c) ==
    LET p == hilo[c].pid
    IN  /\ hilo[c].pc = "exit" /\ mutex_conexion_km = Nadie
        /\ CambiarEstado(p, "EXT")
        /\ EliminarDe(estado_pcb[p], p)
        /\ Ir(c, "km")
        /\ UNCHANGED <<algoritmo, prioridad, espera, quantum, suplementarias, compac,
                       mutex_conexion_km, cpu>>

segmentation_fault(c) ==
    LET p == cpu[c].pid
    IN  /\ Pide(c) /\ LuegoOciosa(c)
        /\ retorno_cpu' = SinReserva(p)
        /\ CambiarEstado(p, "EXT")
        /\ EliminarDe(estado_pcb[p], p)
        /\ Ir(c, "km")
        /\ UNCHANGED <<algoritmo, prioridad, espera, quantum, desalojo, compac,
                       mutex_conexion_km>>

init_proc(c) ==
    /\ Pide(c) /\ LuegoChequea(c)
    /\ desalojo' = desalojo \cup {cpu[c].pid}
    /\ Ir(c, "init_proc")
    /\ UNCHANGED <<algoritmo, procesos, ready, rnn, retorno_cpu, compac, mutex_conexion_km>>

\* crearNuevoProceso: the new process is READY if Kernel Memory admits it.
CrearNuevoProceso(c) ==
    /\ hilo[c].pc = "init_proc" /\ mutex_conexion_km = Nadie
    /\ \/ \E q \in Pids :
              /\ estado_pcb[q] = "NEW"
              /\ CambiarEstado(q, "RDY")
              /\ AgregarAReady(q, {})
       \/ UNCHANGED <<estado_pcb, estado_anterior, ready, desalojo>>
    /\ Ir(c, "km")
    /\ UNCHANGED <<algoritmo, prioridad, espera, quantum, rnn, retorno_cpu, compac,
                   mutex_conexion_km, cpu>>

\* io_sleep, io_stdin, io_stdout: blocked, and marked for the CPU to leave it.
Bloquear(c) ==
    LET p == cpu[c].pid
    IN  /\ Pide(c) /\ LuegoChequea(c)
        /\ espera' = [espera EXCEPT ![p] = "io"]
        /\ CambiarEstado(p, "BCK")
        /\ EliminarDe(estado_pcb[p], p)
        /\ desalojo' = desalojo \cup {p}
        /\ Ir(c, "km")
        /\ UNCHANGED <<algoritmo, prioridad, quantum, retorno_cpu, compac, mutex_conexion_km>>

-----------------------------------------------------------------------------
(* desalojo: the answer to the CPU's check, and the way back to READY *)

LeResponde(c, respuesta) ==
    IF respuesta = "OK"
    THEN cpu' = [cpu EXCEPT ![c].paso = "ejecuta"] /\ Ir(c, "km")
    ELSE cpu' = [cpu EXCEPT ![c].paso = "guarda"] /\ Ir(c, "desalojo")

Desalojo(c) ==
    LET p == cpu[c].pid
    IN  /\ hilo[c].pc = "recv" /\ p # Nadie /\ cpu[c].paso = "chequea"
        /\ IF compactacion_value
           THEN /\ LeResponde(c, "COMPACTACION")
                /\ retorno_cpu' = SinReserva(p)
                /\ UNCHANGED desalojo
           ELSE /\ desalojo' = desalojo \ {p}
                /\ LeResponde(c, IF p \in desalojo /\ estado_pcb[p] # "EXT" THEN "DESALOJO" ELSE "OK")
                /\ retorno_cpu' = IF p \in desalojo /\ estado_pcb[p] = "EXT"
                                  THEN SinReserva(p) ELSE retorno_cpu
        /\ UNCHANGED <<algoritmo, procesos, ready, rnn, compac, mutex_conexion_km>>

\* The context is saved: back to READY, in front of the others in a compaction.
\* The list the process was in is left in another step.
VolverAReady(c) ==
    LET p == cpu[c].pid
        vuelve == \/ estado_pcb[p] = "RNN"
                  \/ estado_pcb[p] = "BCK" /\ espera[p] # "io"
    IN  /\ hilo[c].pc = "desalojo" /\ ~Muerta(c) /\ LuegoOciosa(c)
        /\ IF vuelve
           THEN CambiarEstado(p, "RDY") /\ IrCon(c, "eliminar", p)
           ELSE UNCHANGED <<estado_pcb, estado_anterior>> /\ Ir(c, "km")
        /\ IF vuelve /\ compactacion_value
           THEN /\ rdy' = <<p>> \o rdy
                /\ sem_hay_ready' = sem_hay_ready + 1
                /\ prioridad' = IF algoritmo = "CMN" THEN [prioridad EXCEPT ![p] = 0] ELSE prioridad
                /\ UNCHANGED <<niveles, desalojo>>
           ELSE /\ IF vuelve THEN AgregarAReady(p, {}) ELSE UNCHANGED <<ready, desalojo>>
                /\ UNCHANGED prioridad
        /\ UNCHANGED <<algoritmo, espera, quantum, rnn, retorno_cpu, compac, mutex_conexion_km>>

\* eliminar_proceso_Lista, with the state the process has by now.
Eliminar(c) ==
    /\ hilo[c].pc = "eliminar"
    /\ EliminarDe(estado_anterior[hilo[c].pid], hilo[c].pid)
    /\ Ir(c, "km")
    /\ UNCHANGED <<algoritmo, procesos, suplementarias, compac, mutex_conexion_km, cpu>>

-----------------------------------------------------------------------------
(* CPUs that die *)

Caida(c) ==
    /\ ~Muerta(c) /\ Cardinality({d \in Cpus : Muerta(d)}) < MaxCaidas
    /\ cpu' = [cpu EXCEPT ![c].paso = "muerta"]
    /\ UNCHANGED <<algoritmo, procesos, ready, rnn, suplementarias, compac,
                   mutex_conexion_km, hilo>>

\* desalojo, when the CPU dies between the answer and its OK: the CPU is free, and
\* its process stays in RUNNING.
PerderOk(c) ==
    /\ hilo[c].pc = "desalojo" /\ Muerta(c)
    /\ cpu' = [cpu EXCEPT ![c].pid = Nadie]
    /\ Ir(c, "km")
    /\ UNCHANGED <<algoritmo, procesos, ready, rnn, suplementarias, compac,
                   mutex_conexion_km>>

\* Wrong variant: the process of a CPU that died stays where it was.
DesconectarSinReplanificar(c) ==
    /\ hilo[c].pc = "recv" /\ Muerta(c)
    /\ retorno_cpu' = [p \in Pids |-> SinLasDe(retorno_cpu[p], c)]
    /\ cpu' = [cpu EXCEPT ![c].pid = Nadie]
    /\ Ir(c, "fuera")
    /\ UNCHANGED <<algoritmo, procesos, ready, rnn, desalojo, compac, mutex_conexion_km>>

\* gestionar_desconexion_cpu: nothing is reserved for the CPU any more, and its
\* process, unless it waits for a device or was dispatched elsewhere, is READY again.
Desconectar(c) ==
    LET p == cpu[c].pid
        suyo == p # Nadie /\ cpu[c].propio
        vuelve == suyo /\ (estado_pcb[p] = "RNN" \/ (estado_pcb[p] = "BCK" /\ espera[p] # "io"))
    IN  /\ hilo[c].pc = "recv" /\ Muerta(c)
        /\ retorno_cpu' = [q \in Pids |-> SinLasDe(retorno_cpu[q], c)]
        /\ quantum' = IF suyo THEN [quantum EXCEPT ![p] = @ \ {"corre"}] ELSE quantum
        /\ IF vuelve
           THEN /\ CambiarEstado(p, "RDY")
                /\ rnn' = IF estado_pcb[p] = "RNN" THEN Quitar(rnn, p) ELSE rnn
                /\ AgregarAReady(p, {p})
           ELSE /\ desalojo' = IF suyo THEN desalojo \ {p} ELSE desalojo
                /\ UNCHANGED <<estado_pcb, estado_anterior, ready, rnn>>
        /\ cpu' = [cpu EXCEPT ![c].pid = Nadie]
        /\ Ir(c, "fuera")
        /\ UNCHANGED <<algoritmo, prioridad, espera, compac, mutex_conexion_km>>

-----------------------------------------------------------------------------
(* Time and devices *)

\* control_hilo_quantum, of the timer of the current dispatch: it looks whether the
\* process is still in RUNNING...  Bound: one timer of a process in between at a time.
VencerQuantum(p) ==
    /\ "corre" \in quantum[p] /\ "vence" \notin quantum[p]
    /\ quantum' = [quantum EXCEPT ![p] = IF estado_pcb[p] = "RNN" THEN {"vence"} ELSE {}]
    /\ UNCHANGED <<algoritmo, estado_pcb, estado_anterior, prioridad, espera, ready, rnn,
                   suplementarias, compac, mutex_conexion_km, cpu, hilo>>

\* ... and agregar_a_desalojo adds the mark, wherever the process is by then.
MarcarVencido(p) ==
    /\ "vence" \in quantum[p]
    /\ quantum' = [quantum EXCEPT ![p] = @ \ {"vence"}]
    /\ desalojo' = desalojo \cup {p}
    /\ UNCHANGED <<algoritmo, estado_pcb, estado_anterior, prioridad, espera, ready, rnn,
                   retorno_cpu, compac, mutex_conexion_km, cpu, hilo>>

\* rta_io_sleep, rta_io_stdin, rta_io_stdout: the thread of the device resets the mark...
FinalizarIO(p) ==
    /\ espera[p] = "io"
    /\ espera' = [espera EXCEPT ![p] = "despierta"]
    /\ UNCHANGED <<algoritmo, estado_pcb, estado_anterior, prioridad, quantum, ready, rnn,
                   suplementarias, compac, mutex_conexion_km, cpu, hilo>>

\* ... and mediano_plazo_rdy puts the process back in READY.
MedianoPlazoRdy(p) ==
    /\ espera[p] = "despierta"
    /\ espera' = [espera EXCEPT ![p] = "no"]
    /\ IF estado_pcb[p] = "BCK"
       THEN CambiarEstado(p, "RDY") /\ AgregarAReady(p, {})
       ELSE UNCHANGED <<estado_pcb, estado_anterior, ready, desalojo>>
    /\ UNCHANGED <<algoritmo, prioridad, quantum, rnn, retorno_cpu, compac,
                   mutex_conexion_km, cpu, hilo>>

-----------------------------------------------------------------------------
Init ==
    /\ algoritmo \in Algoritmos
    /\ estado_pcb = [p \in Pids |-> IF p = Primero THEN "RDY" ELSE "NEW"]
    /\ estado_anterior = [p \in Pids |-> IF p = Primero THEN "NEW" ELSE "NO_ESTADO"]
    /\ prioridad = PrioridadDe
    /\ espera = [p \in Pids |-> "no"]
    /\ quantum = [p \in Pids |-> {}]
    /\ rdy = IF algoritmo = "CMN" THEN <<>> ELSE <<Primero>>
    /\ niveles = [n \in 0 .. Niveles - 1 |->
                     IF algoritmo = "CMN" /\ n = PrioridadDe[Primero] THEN <<Primero>> ELSE <<>>]
    /\ rnn = <<>> /\ desalojo = {}
    /\ retorno_cpu = [p \in Pids |-> <<>>]
    /\ sem_hay_ready = 1
    /\ compactacion_value = FALSE /\ sem_compactacion = Nadie
    /\ mutex_conexion_km = Nadie
    /\ cpu = [c \in Cpus |-> CpuOciosa]
    /\ hilo = [c \in Cpus |-> [pc |-> "km", pid |-> Nadie]]

\* Steps that wait for a token or for a mutex that others keep taking.
Espera(c) ==
    \/ TomarFicha(c) \/ TomarSemCompactacion(c) \/ ConsultarKM(c)
    \/ FinMemFree(c) \/ AllocResponde(c) \/ Compactacion(c)
    \/ Finalizar(c) \/ CrearNuevoProceso(c)

\* Steps a thread or a CPU takes on its own.
Sigue(c) ==
    \/ NoMandar(c) \/ Despachar(c)
    \/ RnnVacio(c) \/ CompactacionFinalizada(c) \/ AllocOk(c)
    \/ Desalojo(c) \/ VolverAReady(c) \/ Eliminar(c) \/ Desconectar(c)

\* What the program that runs may ask for.
Syscall(c) ==
    \/ SyscallMutex(c) \/ MemAlloc(c) \/ MemFree(c) \/ Exit(c)
    \/ segmentation_fault(c) \/ init_proc(c) \/ Bloquear(c)

Reloj == \E p \in Pids : VencerQuantum(p) \/ MarcarVencido(p) \/ MedianoPlazoRdy(p)

Next ==
    \/ \E c \in Cpus : \/ Espera(c) \/ Sigue(c) \/ Syscall(c) \/ Instruccion(c)
                       \/ PedirCompactacion(c) \/ Caida(c) \/ PerderOk(c)
                       \/ \E p \in Pids : MandarProceso(c, p)
    \/ Reloj
    \/ \E p \in Pids : FinalizarIO(p)

\* A syscall is optional; every other step is taken sooner or later.  A thread that
\* finds nothing to dispatch sleeps before it tries again, so the others get the
\* token, the semaphore and the mutex in the meantime: strong fairness on each.
Justicia ==
    /\ \A c \in Cpus : SF_vars(Espera(c)) /\ WF_vars(Sigue(c)) /\ WF_vars(Instruccion(c))
    /\ \A p \in Pids : /\ WF_vars(VencerQuantum(p)) /\ WF_vars(MarcarVencido(p))
                       /\ WF_vars(MedianoPlazoRdy(p))

Spec == Init /\ [][Next]_vars
SpecJusta ==
    /\ Spec /\ Justicia
    /\ \A c \in Cpus, p \in Pids : WF_vars(MandarProceso(c, p))

-----------------------------------------------------------------------------
(* The same scheduler without three windows the code leaves open           *)

\* Nobody dispatches a process whose eviction has not finished.
MandarOrdenado(c, p) ==
    /\ \A d \in Cpus : ~(hilo[d].pc = "eliminar" /\ hilo[d].pid = p)
    /\ MandarProceso(c, p)

\* A device ends after the CPU has left the process that waits for it.
FinalizarIOOrdenado(p) ==
    /\ \A c \in Cpus : cpu[c].pid # p
    /\ FinalizarIO(p)

\* A CPU does not die between the answer to its check and its OK.
CaidaOrdenada(c) ==
    /\ hilo[c].pc # "desalojo"
    /\ Caida(c)

PasoOrdenado ==
    \/ \E c \in Cpus : \/ Espera(c) \/ Sigue(c) \/ Syscall(c) \/ Instruccion(c)
                       \/ CaidaOrdenada(c)
                       \/ \E p \in Pids : MandarOrdenado(c, p)
    \/ Reloj
    \/ \E p \in Pids : FinalizarIOOrdenado(p)

NextOrdenado == PasoOrdenado \/ \E c \in Cpus : PedirCompactacion(c)

SpecOrdenada == Init /\ [][NextOrdenado]_vars

(* For liveness, also without compactions that cannot end.                 *)

\* A thread that will leave RUNNING without asking Kernel Memory first.
PuedeSoltar(d) ==
    \/ hilo[d].pc \in {"sem_hay_ready", "sem_compactacion", "mandar", "desalojo", "eliminar",
                       "fuera"}
    \/ hilo[d].pc = "km" /\ cpu[d].pid = Nadie
    \/ hilo[d].pc = "recv" /\ cpu[d].paso \in {"chequea", "muerta"}

\* A compaction starts only when the others can answer.
PedirCompactacionOrdenado(c) ==
    /\ \A d \in Cpus \ {c} : PuedeSoltar(d)
    /\ PedirCompactacion(c)

\* Bounds: at most one timer has looked and has yet to mark, and it does before its
\* process is dispatched again.
VencerTurno(p) ==
    /\ \A q \in Pids : "vence" \notin quantum[q]
    /\ VencerQuantum(p)

MandarTurno(c, p) ==
    /\ "vence" \notin quantum[p]
    /\ MandarOrdenado(c, p)

NextTurno ==
    \/ \E c \in Cpus : \/ Espera(c) \/ Sigue(c) \/ Syscall(c) \/ Instruccion(c)
                       \/ CaidaOrdenada(c) \/ PedirCompactacionOrdenado(c)
                       \/ \E p \in Pids : MandarTurno(c, p)
    \/ \E p \in Pids : \/ VencerTurno(p) \/ MarcarVencido(p)
                       \/ MedianoPlazoRdy(p) \/ FinalizarIOOrdenado(p)

SpecTurno ==
    /\ Init /\ [][NextTurno]_vars /\ Justicia
    /\ \A c \in Cpus, p \in Pids : WF_vars(MandarTurno(c, p))

-----------------------------------------------------------------------------
(* Properties *)

\* No process is on two CPUs at once (mandar_proceso_cpu).
EjecucionUnica ==
    \A c, d \in Cpus : c # d /\ cpu[c].pid # Nadie => cpu[c].pid # cpu[d].pid

\* Nor is it dispatched, or waiting in READY, while a CPU still has it: its context is
\* saved before anyone can give it another CPU (desalojo, mediano_plazo_rdy).  And a
\* process in RUNNING is on a CPU or in the hands of a thread, also after its CPU dies:
\* none is left there for ever (gestionar_desconexion_cpu).
UnaSolaCpu ==
    /\ EjecucionUnica
    /\ \A c, d \in Cpus : cpu[c].pid # Nadie =>
           hilo[d].pid # cpu[c].pid /\ VecesEnReady(cpu[c].pid) = 0
    /\ \A p \in Pids : estado_pcb[p] = "RNN" => \E c \in Cpus : p \in {cpu[c].pid, hilo[c].pid}

\* The lists and the states agree: a process is once in the list of its state and in
\* no other, but for one that is being dispatched or leaving its CPU
\* (agregar_proceso_lista, eliminar_proceso_Lista).
ListasExactas ==
    \A p \in Pids :
        LET en(pc) == \E c \in Cpus : hilo[c].pc = pc /\ hilo[c].pid = p
        IN  /\ Veces(rnn, p) = IF \/ estado_pcb[p] = "RNN"
                                  \/ en("eliminar") /\ estado_anterior[p] = "RNN" THEN 1 ELSE 0
            /\ VecesEnReady(p) = IF estado_pcb[p] = "RDY" /\ ~en("despachar") THEN 1 ELSE 0

\* sem_hay_ready counts what is in READY: the tokens, and those the threads that are
\* choosing hold, are as many as the processes that wait.
FichasReady ==
    LET eligiendo == {c \in Cpus : hilo[c].pc \in {"sem_compactacion", "mandar"}}
        enReady == {x \in Pids \X (1 .. Cardinality(Pids)) : x[2] <= VecesEnReady(x[1])}
    IN  sem_hay_ready + Cardinality(eligiendo) = Cardinality(enReady)

\* A reservation is of one CPU that is still there, and only of a process that waits
\* in READY or is about to leave that CPU: no other blocks the head of READY
\* (pinear_retorno_cpu, quitar_retorno_cpu, quitar_retorno_por_fd).
ReservaVigente ==
    \A p \in Pids :
        retorno_cpu[p] # <<>> =>
            LET c == Head(retorno_cpu[p])
            IN  /\ Len(retorno_cpu[p]) = 1 /\ hilo[c].pc # "fuera"
                /\ \/ estado_pcb[p] = "RDY"
                   \/ cpu[c].pid = p /\ cpu[c].paso # "ejecuta"

\* While Kernel Memory moves the segments no other CPU is in the middle of an
\* instruction, and nobody is dispatched (compactacion, mandar_proceso_cpu).
CompactacionQuieta ==
    \A c \in Cpus : hilo[c].pc = "compactando" =>
        \A d \in Cpus \ {c} :
            /\ cpu[d].pid = Nadie \/ cpu[d].paso # "ejecuta"
            /\ hilo[d].pc # "despachar"

\* Under RR a process that is READY gets a CPU, whatever the others reserve, unless
\* compactions never stop: each puts the processes it evicts in front of it.
ListoCorre ==
    \A p \in Pids : (algoritmo = "RR" /\ estado_pcb[p] = "RDY")
                       ~> (estado_pcb[p] # "RDY" \/ compactacion_value)

\* A compaction ends: every CPU can leave its process.
CompactacionTermina == compactacion_value ~> ~compactacion_value

=============================================================================

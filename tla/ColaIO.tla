------------------------------- MODULE ColaIO -------------------------------
(***************************************************************************)
(* The queues of IO of the Kernel Scheduler (server.c): the syscalls        *)
(* io_sleep, io_stdin and io_stdout put a job in the queue of its class and *)
(* post its semaphore; the thread of each IO device takes a token, then a   *)
(* job, and gives the job to its device; the answer of the device makes the *)
(* process ready again.  A device may disconnect at any time, and the       *)
(* medium-term scheduler may suspend a blocked process and take it back.    *)
(*                                                                         *)
(* One step is what a thread does between two points where another thread   *)
(* can be seen: a semaphore, a mutex or a message.                          *)
(***************************************************************************)
EXTENDS Integers, Sequences, FiniteSets

CONSTANTS
    Pids,          \* processes
    Ios,           \* IO devices that may connect
    Clase,         \* class of each device
    Firmes,        \* devices that never disconnect
    MaxPedidos,    \* bound: syscalls of IO of each process
    Lentos,        \* bound: processes whose IO may outlast SUSPENSION_TIMEOUT
    Nada           \* no job, nobody

Clases == {"SLEEP", "STDIN", "STDOUT"}

ASSUME ColaAssumption ==
    /\ IsFiniteSet(Pids) /\ IsFiniteSet(Ios)
    /\ Clase \in [Ios -> Clases] /\ Firmes \subseteq Ios
    /\ MaxPedidos \in [Pids -> Nat] /\ Lentos \subseteq Pids
    /\ Nada \notin Pids /\ Nada \notin Pids \X Nat

VARIABLES
    estado_pcb,        \* of each process; "listo" is READY or RUNNING
    en_lista,          \* the process is in some list, where a search finds it
    pedidos,           \* syscalls of IO the process has made
    syscall,           \* what its syscall has left to do, and its class
    suspension,        \* what its timer of suspension is doing
    transiciones,      \* who holds mutex_transiciones
    lista_bck_io,      \* queue of jobs of each class
    sem_io_vacio,      \* semaphore of each class: "there is a job"
    por_postear,       \* posts that syscalls of each class still owe
    init_sem,          \* semaphore of each class: "there is a device"
    viva,              \* the device is connected and running
    dispositivo,       \* what the device is doing
    io,                \* entry of the device in the scheduler: enUso, pid_ejec
    hilo               \* the thread of the device: where it is, the job it holds

vars == <<estado_pcb, en_lista, pedidos, syscall, suspension, transiciones,
          lista_bck_io, sem_io_vacio, por_postear, init_sem, viva, dispositivo,
          io, hilo>>

\* The variables of the processes, of the queues and of the devices.
procesos == <<estado_pcb, en_lista, pedidos, syscall, suspension, transiciones>>
colas == <<lista_bck_io, sem_io_vacio, por_postear>>
ios == <<init_sem, viva, dispositivo, io, hilo>>

-----------------------------------------------------------------------------
(* Types *)

\* A job: whose it is, and which of the syscalls of that process asked for it.
Trabajo == Pids \X Nat

TypeOK ==
    /\ estado_pcb \in [Pids -> {"listo", "BCK", "S_BCK", "S_RDY"}]
    /\ en_lista \in [Pids -> BOOLEAN]
    /\ pedidos \in [Pids -> Nat]
    /\ syscall \in [Pids -> [paso : {"nada", "agregar", "encolar"}, clase : Clases]]
    /\ suspension \in [Pids -> {"no", "timer", "agregar", "km", "deshacer", "reagregar"}]
    /\ transiciones \in Pids \cup {Nada}
    /\ lista_bck_io \in [Clases -> Seq(Trabajo)]
    /\ sem_io_vacio \in [Clases -> Nat]
    /\ por_postear \in [Clases -> Nat]
    /\ init_sem \in [Clases -> Nat]
    /\ viva \in [Ios -> BOOLEAN]
    /\ dispositivo \in [Ios -> {"apagado", "libre", "espera", "trabaja", "finaliza"}]
    /\ io \in [Ios -> [enUso : BOOLEAN, pid_ejec : Trabajo \cup {Nada}]]
    /\ hilo \in [Ios -> [pc : {"sin_hilo", "recv", "sem_wait", "tomar", "enviar",
                               "postear", "buscar", "mediano_plazo_rdy", "liberar",
                               "desconectar"},
                         trabajo : Trabajo \cup {Nada}]]

Bloqueado(p) == estado_pcb[p] \in {"BCK", "S_BCK"}

Ir(d, pc) == hilo' = [hilo EXCEPT ![d].pc = pc]

-----------------------------------------------------------------------------
(* io_sleep, io_stdin, io_stdout: the thread of the CPU moves the process    *)
(* from its list to BLOCK, queues the job, and posts the semaphore.          *)

Bloquear(p, c) ==
    /\ estado_pcb[p] = "listo" /\ en_lista[p]
    /\ syscall[p].paso = "nada"
    /\ pedidos[p] < MaxPedidos[p]
    /\ pedidos' = [pedidos EXCEPT ![p] = @ + 1]
    /\ estado_pcb' = [estado_pcb EXCEPT ![p] = "BCK"]
    /\ en_lista' = [en_lista EXCEPT ![p] = FALSE]
    /\ syscall' = [syscall EXCEPT ![p] = [paso |-> "agregar", clase |-> c]]
    /\ UNCHANGED <<suspension, transiciones, colas, ios>>

AgregarABlock(p) ==
    /\ syscall[p].paso = "agregar"
    /\ en_lista' = [en_lista EXCEPT ![p] = TRUE]
    /\ syscall' = [syscall EXCEPT ![p].paso = "encolar"]
    /\ UNCHANGED <<estado_pcb, pedidos, suspension, transiciones, colas, ios>>

\* The job enters the queue; the timer of suspension starts.
Encolar(p) ==
    LET c == syscall[p].clase
    IN  /\ syscall[p].paso = "encolar"
        /\ lista_bck_io' = [lista_bck_io EXCEPT ![c] = Append(@, <<p, pedidos[p]>>)]
        /\ por_postear' = [por_postear EXCEPT ![c] = @ + 1]
        /\ syscall' = [syscall EXCEPT ![p].paso = "nada"]
        /\ suspension' = [suspension EXCEPT ![p] =
               IF @ = "no" /\ p \in Lentos THEN "timer" ELSE @]
        /\ UNCHANGED <<estado_pcb, en_lista, pedidos, transiciones, sem_io_vacio, ios>>

Postear(c) ==
    /\ por_postear[c] > 0
    /\ por_postear' = [por_postear EXCEPT ![c] = @ - 1]
    /\ sem_io_vacio' = [sem_io_vacio EXCEPT ![c] = @ + 1]
    /\ UNCHANGED <<procesos, lista_bck_io, ios>>

-----------------------------------------------------------------------------
(* mediano_plazo_bck, and the return from SUSP. READY in nuevo_espacio.      *)

\* Between eliminar_proceso_Lista and agregar_proceso_lista no search finds the
\* process.
Suspender(p) ==
    /\ suspension[p] = "timer" /\ syscall[p].paso = "nada"
    /\ estado_pcb[p] = "BCK" /\ transiciones = Nada
    /\ transiciones' = p
    /\ estado_pcb' = [estado_pcb EXCEPT ![p] = "S_BCK"]
    /\ en_lista' = [en_lista EXCEPT ![p] = FALSE]
    /\ suspension' = [suspension EXCEPT ![p] = "agregar"]
    /\ UNCHANGED <<pedidos, syscall, colas, ios>>

\* agregar_proceso_lista, of the suspension or of its rollback.
AgregarDeSuspension(p) ==
    /\ suspension[p] \in {"agregar", "reagregar"}
    /\ en_lista' = [en_lista EXCEPT ![p] = TRUE]
    /\ transiciones' = Nada
    /\ suspension' = [suspension EXCEPT ![p] = IF @ = "agregar" THEN "km" ELSE "no"]
    /\ UNCHANGED <<estado_pcb, pedidos, syscall, colas, ios>>

\* Kernel Memory answers OK or NOTOK.
RespuestaSuspension(p) ==
    /\ suspension[p] = "km"
    /\ \E r \in {"no", "deshacer"} : suspension' = [suspension EXCEPT ![p] = r]
    /\ UNCHANGED <<estado_pcb, en_lista, pedidos, syscall, transiciones, colas, ios>>

Deshacer(p) ==
    /\ suspension[p] = "deshacer" /\ transiciones = Nada
    /\ \/ /\ estado_pcb[p] \in {"S_BCK", "S_RDY"}
          /\ estado_pcb' = [estado_pcb EXCEPT ![p] = IF @ = "S_BCK" THEN "BCK" ELSE "listo"]
          /\ en_lista' = [en_lista EXCEPT ![p] = FALSE]
          /\ transiciones' = p
          /\ suspension' = [suspension EXCEPT ![p] = "reagregar"]
       \/ /\ estado_pcb[p] \notin {"S_BCK", "S_RDY"}
          /\ suspension' = [suspension EXCEPT ![p] = "no"]
          /\ UNCHANGED <<estado_pcb, en_lista, transiciones>>
    /\ UNCHANGED <<pedidos, syscall, colas, ios>>

Reanudar(p) ==
    /\ estado_pcb[p] = "S_RDY" /\ en_lista[p]
    /\ estado_pcb' = [estado_pcb EXCEPT ![p] = "listo"]
    /\ UNCHANGED <<en_lista, pedidos, syscall, suspension, transiciones, colas, ios>>

-----------------------------------------------------------------------------
(* A device connects, announces that it is free, and gets a job.             *)

NuevaIO(d) ==
    /\ hilo[d].pc = "sin_hilo" /\ viva[d]
    /\ init_sem' = [init_sem EXCEPT ![Clase[d]] = @ + 1]
    /\ dispositivo' = [dispositivo EXCEPT ![d] = "libre"]
    /\ Ir(d, "recv")
    /\ UNCHANGED <<procesos, colas, viva, io>>

IoLibre(d) ==
    /\ hilo[d].pc = "recv" /\ viva[d] /\ dispositivo[d] = "libre"
    /\ dispositivo' = [dispositivo EXCEPT ![d] = "espera"]
    /\ Ir(d, "sem_wait")
    /\ UNCHANGED <<procesos, colas, init_sem, viva, io>>

\* Wrong variant: the thread does not wait for a token (sem_trywait, its result
\* ignored).
TomarSinEsperar(d) ==
    /\ hilo[d].pc = "sem_wait"
    /\ sem_io_vacio' = [sem_io_vacio EXCEPT ![Clase[d]] = @ - 1]
    /\ Ir(d, "tomar")
    /\ UNCHANGED <<procesos, lista_bck_io, por_postear, init_sem, viva, dispositivo, io>>

TomarFicha(d) ==
    /\ hilo[d].pc = "sem_wait"
    /\ sem_io_vacio[Clase[d]] > 0
    /\ sem_io_vacio' = [sem_io_vacio EXCEPT ![Clase[d]] = @ - 1]
    /\ Ir(d, "tomar")
    /\ UNCHANGED <<procesos, lista_bck_io, por_postear, init_sem, viva, dispositivo, io>>

\* Wrong variant: the job that was requeued, or left alone, is not announced.
DevolverSinPostear(d) ==
    /\ hilo[d].pc = "postear"
    /\ Ir(d, "recv")
    /\ UNCHANGED <<procesos, colas, init_sem, viva, dispositivo, io>>

\* The token goes back: the device is in use, there is no job, or it was requeued.
DevolverFicha(d) ==
    /\ hilo[d].pc = "postear"
    /\ sem_io_vacio' = [sem_io_vacio EXCEPT ![Clase[d]] = @ + 1]
    /\ Ir(d, "recv")
    /\ UNCHANGED <<procesos, lista_bck_io, por_postear, init_sem, viva, dispositivo, io>>

TomarTrabajo(d) ==
    LET cola == lista_bck_io[Clase[d]]
    IN  /\ hilo[d].pc = "tomar"
        /\ \/ /\ io[d].enUso \/ cola = <<>>
              /\ Ir(d, "postear")
              /\ UNCHANGED <<lista_bck_io, io>>
           \/ /\ ~io[d].enUso /\ cola # <<>>
              /\ io' = [io EXCEPT ![d].enUso = TRUE]
              /\ lista_bck_io' = [lista_bck_io EXCEPT ![Clase[d]] = Tail(@)]
              /\ hilo' = [hilo EXCEPT ![d] = [pc |-> "enviar", trabajo |-> Head(cola)]]
        /\ UNCHANGED <<procesos, sem_io_vacio, por_postear, init_sem, viva, dispositivo>>

\* Wrong variant: the job of a failed delivery is freed (the bug that the comment of
\* io_libre tells of).
EntregarLiberando(d) ==
    /\ hilo[d].pc = "enviar"
    /\ \/ /\ viva[d]
          /\ io' = [io EXCEPT ![d].pid_ejec = hilo[d].trabajo]
          /\ dispositivo' = [dispositivo EXCEPT ![d] = "trabaja"]
          /\ hilo' = [hilo EXCEPT ![d] = [pc |-> "recv", trabajo |-> Nada]]
       \/ /\ ~viva[d]
          /\ io' = [io EXCEPT ![d].enUso = FALSE]
          /\ hilo' = [hilo EXCEPT ![d] = [pc |-> "recv", trabajo |-> Nada]]
          /\ UNCHANGED dispositivo
    /\ UNCHANGED <<procesos, colas, init_sem, viva>>

\* A live device confirms with OK; with a dead one the job goes back to the front.
EntregarTrabajo(d) ==
    /\ hilo[d].pc = "enviar"
    /\ \/ /\ viva[d]
          /\ io' = [io EXCEPT ![d].pid_ejec = hilo[d].trabajo]
          /\ dispositivo' = [dispositivo EXCEPT ![d] = "trabaja"]
          /\ hilo' = [hilo EXCEPT ![d] = [pc |-> "recv", trabajo |-> Nada]]
          /\ UNCHANGED lista_bck_io
       \/ /\ ~viva[d]
          /\ io' = [io EXCEPT ![d].enUso = FALSE]
          /\ lista_bck_io' =
                 [lista_bck_io EXCEPT ![Clase[d]] = <<hilo[d].trabajo>> \o @]
          /\ hilo' = [hilo EXCEPT ![d] = [pc |-> "postear", trabajo |-> Nada]]
          /\ UNCHANGED dispositivo
    /\ UNCHANGED <<procesos, sem_io_vacio, por_postear, init_sem, viva>>

-----------------------------------------------------------------------------
(* The device answers: rta_io_sleep, rta_io_stdin, rta_io_stdout and, for    *)
(* STDOUT only, io_finalizada.                                               *)

Responder(d) ==
    /\ hilo[d].pc = "recv" /\ viva[d] /\ dispositivo[d] = "trabaja"
    /\ Ir(d, "buscar")
    /\ UNCHANGED <<procesos, colas, init_sem, viva, dispositivo, io>>

\* buscar_pcb_por_pid finds the process of the job.
EncontrarPcb(d) ==
    /\ hilo[d].pc = "buscar" /\ en_lista[io[d].pid_ejec[1]]
    /\ Ir(d, "mediano_plazo_rdy")
    /\ UNCHANGED <<procesos, colas, init_sem, viva, dispositivo, io>>

\* It finds nobody.  SLEEP and STDIN return at once and the device stays in use (the
\* STDIN one waits for an answer for ever); STDOUT releases it, but keeps pid_ejec.
NoEncontrarPcb(d) ==
    /\ hilo[d].pc = "buscar" /\ ~en_lista[io[d].pid_ejec[1]]
    /\ dispositivo' = [dispositivo EXCEPT ![d] =
           CASE Clase[d] = "SLEEP"  -> "libre"
             [] Clase[d] = "STDIN"  -> "espera"
             [] Clase[d] = "STDOUT" -> "finaliza"]
    /\ io' = IF Clase[d] = "STDOUT" THEN [io EXCEPT ![d].enUso = FALSE] ELSE io
    /\ Ir(d, "recv")
    /\ UNCHANGED <<procesos, colas, init_sem, viva>>

\* Wrong variant: only a process in BLOCK becomes ready.
MedianoPlazoRdySinSuspendidos(d) ==
    LET p == io[d].pid_ejec[1]
    IN  /\ hilo[d].pc = "mediano_plazo_rdy" /\ transiciones = Nada
        /\ estado_pcb' = [estado_pcb EXCEPT ![p] = IF @ = "BCK" THEN "listo" ELSE @]
        /\ dispositivo' = IF Clase[d] = "STDOUT"
                          THEN [dispositivo EXCEPT ![d] = "finaliza"] ELSE dispositivo
        /\ Ir(d, IF Clase[d] = "STDOUT" THEN "recv" ELSE "liberar")
        /\ UNCHANGED <<en_lista, pedidos, syscall, suspension, transiciones, colas,
                       init_sem, viva, io>>

MedianoPlazoRdy(d) ==
    LET p == io[d].pid_ejec[1]
    IN  /\ hilo[d].pc = "mediano_plazo_rdy" /\ transiciones = Nada
        /\ estado_pcb' = [estado_pcb EXCEPT ![p] =
               CASE @ = "BCK" -> "listo" [] @ = "S_BCK" -> "S_RDY" [] OTHER -> @]
        /\ dispositivo' = IF Clase[d] = "STDOUT"
                          THEN [dispositivo EXCEPT ![d] = "finaliza"] ELSE dispositivo
        /\ Ir(d, IF Clase[d] = "STDOUT" THEN "recv" ELSE "liberar")
        /\ UNCHANGED <<en_lista, pedidos, syscall, suspension, transiciones, colas,
                       init_sem, viva, io>>

\* Wrong variant: the job is freed but the device stays in use.
LiberarSinSoltar(d) ==
    /\ \/ hilo[d].pc = "liberar"
       \/ hilo[d].pc = "recv" /\ viva[d] /\ dispositivo[d] = "finaliza"
    /\ io' = [io EXCEPT ![d].pid_ejec = Nada]
    /\ dispositivo' = [dispositivo EXCEPT ![d] = "libre"]
    /\ Ir(d, "recv")
    /\ UNCHANGED <<procesos, colas, init_sem, viva>>

\* The end of rta_io_sleep and rta_io_stdin, and io_finalizada.
LiberarIO(d) ==
    /\ \/ hilo[d].pc = "liberar"
       \/ hilo[d].pc = "recv" /\ viva[d] /\ dispositivo[d] = "finaliza"
    /\ io' = [io EXCEPT ![d] = [enUso |-> FALSE, pid_ejec |-> Nada]]
    /\ dispositivo' = [dispositivo EXCEPT ![d] = "libre"]
    /\ Ir(d, "recv")
    /\ UNCHANGED <<procesos, colas, init_sem, viva>>

-----------------------------------------------------------------------------
(* A device dies; when its thread receives -1, gestionar_desconexion_io      *)
(* looks at what it was doing, and then takes it out of the list.            *)

Caida(d) ==
    /\ viva[d] /\ d \notin Firmes /\ hilo[d].pc # "sin_hilo"
    /\ viva' = [viva EXCEPT ![d] = FALSE]
    /\ UNCHANGED <<procesos, colas, init_sem, dispositivo, io, hilo>>

Desconexion(d) ==
    LET t == io[d].pid_ejec
    IN  /\ hilo[d].pc = "recv" /\ ~viva[d]
        /\ hilo' = [hilo EXCEPT ![d] =
               [pc |-> "desconectar",
                trabajo |-> IF io[d].enUso /\ t # Nada /\ en_lista[t[1]] /\ Bloqueado(t[1])
                            THEN t ELSE Nada]]
        /\ UNCHANGED <<procesos, colas, init_sem, viva, dispositivo, io>>

QuitarIO(d) ==
    LET t == hilo[d].trabajo
    IN  /\ hilo[d].pc = "desconectar"
        /\ init_sem[Clase[d]] > 0
        /\ init_sem' = [init_sem EXCEPT ![Clase[d]] = @ - 1]
        /\ lista_bck_io' = IF t = Nada THEN lista_bck_io
                           ELSE [lista_bck_io EXCEPT ![Clase[d]] = Append(@, t)]
        /\ io' = [io EXCEPT ![d] = [enUso |-> FALSE, pid_ejec |-> Nada]]
        /\ dispositivo' = [dispositivo EXCEPT ![d] = "apagado"]
        /\ hilo' = [hilo EXCEPT ![d] = [pc |-> "sin_hilo", trabajo |-> Nada]]
        /\ UNCHANGED <<procesos, sem_io_vacio, por_postear, viva>>

-----------------------------------------------------------------------------
Init ==
    /\ estado_pcb = [p \in Pids |-> "listo"]
    /\ en_lista = [p \in Pids |-> TRUE]
    /\ pedidos = [p \in Pids |-> 0]
    /\ syscall = [p \in Pids |-> [paso |-> "nada", clase |-> "SLEEP"]]
    /\ suspension = [p \in Pids |-> "no"]
    /\ transiciones = Nada
    /\ lista_bck_io = [c \in Clases |-> <<>>]
    /\ sem_io_vacio = [c \in Clases |-> 0]
    /\ por_postear = [c \in Clases |-> 0]
    /\ init_sem = [c \in Clases |-> 0]
    /\ viva = [d \in Ios |-> TRUE]
    /\ dispositivo = [d \in Ios |-> "apagado"]
    /\ io = [d \in Ios |-> [enUso |-> FALSE, pid_ejec |-> Nada]]
    /\ hilo = [d \in Ios |-> [pc |-> "sin_hilo", trabajo |-> Nada]]

\* cpu_libre lets no CPU work before a device of each class has connected.
HayIos == \A d \in Firmes : hilo[d].pc # "sin_hilo"

\* The steps of a syscall that began, and of a suspension that began.
SeguirSyscall(p) == AgregarABlock(p) \/ Encolar(p)
SeguirSuspension(p) == AgregarDeSuspension(p) \/ RespuestaSuspension(p) \/ Deshacer(p)

\* The steps of the thread of a device but for those that look at the process.
SeguirHilo(d) ==
    \/ NuevaIO(d) \/ IoLibre(d) \/ DevolverFicha(d) \/ TomarTrabajo(d)
    \/ EntregarTrabajo(d) \/ Responder(d) \/ MedianoPlazoRdy(d) \/ LiberarIO(d)
    \/ QuitarIO(d)

Next ==
    \/ \E p \in Pids, c \in {Clase[d] : d \in Firmes} : HayIos /\ Bloquear(p, c)
    \/ \E p \in Pids : SeguirSyscall(p) \/ Suspender(p) \/ SeguirSuspension(p) \/ Reanudar(p)
    \/ \E c \in Clases : Postear(c)
    \/ \E d \in Ios : \/ SeguirHilo(d) \/ TomarFicha(d) \/ EncontrarPcb(d)
                      \/ NoEncontrarPcb(d) \/ Caida(d) \/ Desconexion(d)

\* Threads are scheduled and devices finish their work.  Nothing obliges a process
\* to ask, a timer to expire or a device to die.  A semaphore is fair to no one
\* thread, only to those that wait on it together.
Justicia ==
    /\ \A p \in Pids : WF_vars(SeguirSyscall(p)) /\ WF_vars(SeguirSuspension(p))
    /\ \A c \in Clases : /\ WF_vars(Postear(c))
                         /\ WF_vars(\E d \in Ios : Clase[d] = c /\ TomarFicha(d))
    /\ \A d \in Ios : /\ WF_vars(SeguirHilo(d))
                      /\ WF_vars(EncontrarPcb(d) \/ NoEncontrarPcb(d))
                      /\ WF_vars(Desconexion(d))

Spec == Init /\ [][Next]_vars
SpecJusta == Spec /\ Justicia

-----------------------------------------------------------------------------
(* The code serves every job under two hypotheses it does not enforce:        *)
(*   - the answer of a device never falls between the two halves of a move    *)
(*     of its process to or from SUSP. BLOCK;                                 *)
(*   - a device dies only when it holds no job.                               *)

CaidaOciosa(d) == io[d].pid_ejec = Nada /\ Caida(d)

NextOrdenada ==
    \/ \E p \in Pids, c \in {Clase[d] : d \in Firmes} : HayIos /\ Bloquear(p, c)
    \/ \E p \in Pids : SeguirSyscall(p) \/ Suspender(p) \/ SeguirSuspension(p) \/ Reanudar(p)
    \/ \E c \in Clases : Postear(c)
    \/ \E d \in Ios : \/ SeguirHilo(d) \/ TomarFicha(d) \/ EncontrarPcb(d)
                      \/ CaidaOciosa(d) \/ Desconexion(d)

SpecOrdenada == Init /\ [][NextOrdenada]_vars
SpecOrdenadaJusta == SpecOrdenada /\ Justicia

-----------------------------------------------------------------------------
(* Properties *)

\* Threads of class c that took a token and have not yet decided what to do.
ConFicha(c) == {d \in Ios : Clase[d] = c /\ hilo[d].pc \in {"tomar", "postear"}}

\* Every queued job has its token: in the semaphore, about to be posted, or in the
\* hand of a thread.  A job without a token waits although a device is idle, and a
\* token without a job wakes a device for nothing (io_libre, io_sleep).
FichasJustas ==
    \A c \in Clases :
        sem_io_vacio[c] + por_postear[c] + Cardinality(ConFicha(c)) = Len(lista_bck_io[c])

\* Where the jobs of a process are: in a queue, in the hand of a thread, or in a
\* device that has not answered.
LugaresEnCola(p, c) ==
    {<<c, i>> : i \in {j \in DOMAIN lista_bck_io[c] : lista_bck_io[c][j][1] = p}}
LugaresEnHilo(p) ==
    {<<d, "hilo">> : d \in {e \in Ios : hilo[e].trabajo # Nada /\ hilo[e].trabajo[1] = p}}
LugaresEnIo(p) ==
    {<<d, "io">> : d \in {e \in Ios : /\ dispositivo[e] = "trabaja"
                                      /\ hilo[e].pc # "liberar"
                                      /\ io[e].pid_ejec[1] = p}}

Lugares(p) ==
    (UNION {LugaresEnCola(p, c) : c \in Clases}) \cup LugaresEnHilo(p) \cup LugaresEnIo(p)

\* A process that waits for IO has exactly one job, in exactly one place; one that
\* does not wait has none.  Deliveries that fail, suspensions and their rollback
\* neither lose a job nor run it twice.
TrabajoUnico ==
    \A p \in Pids :
        Cardinality(Lugares(p)) = IF Bloqueado(p) /\ syscall[p].paso = "nada" THEN 1 ELSE 0

\* A device counts as in use only while a job is being given to it, or it works
\* ("si no queda ocupada para siempre", rta_io_stdout): else no thread would ever
\* give it a job again.
IoOcupadaTrabaja ==
    \A d \in Ios : io[d].enUso =>
        hilo[d].pc \in {"enviar", "desconectar"} \/ dispositivo[d] \in {"trabaja", "finaliza"}

\* The service a process sees, without queues, tokens and suspensions: a device works
\* for it from the delivery to the answer.
Servicio == INSTANCE ServicioIO WITH
    pedido <- [p \in Pids |-> IF Bloqueado(p) THEN syscall[p].clase ELSE Nada],
    trabaja <- [d \in Ios |-> IF dispositivo[d] = "trabaja" /\ hilo[d].pc # "liberar"
                              THEN io[d].pid_ejec[1] ELSE Nada]

\* Each request is carried out once, by a device of its class, and nothing but the
\* answer of that device lets the process go on: no failed delivery, requeue,
\* suspension or rollback wakes it early, late or twice (io_libre, rta_io_sleep and
\* its like, mediano_plazo_bck).
ServicioUnico == Servicio!Spec

\* A process that waits for IO stops waiting.
TodoTrabajoTermina == \A p \in Pids : Bloqueado(p) ~> ~Bloqueado(p)
=============================================================================

------------------------------- MODULE MutexKS -------------------------------
(***************************************************************************)
(* The mutexes of the Kernel Scheduler (server.c 1651-1752 and 2217-2415)   *)
(* with priority inheritance, over the medium-term scheduler: scripts that  *)
(* lock, unlock, wait for devices, create processes and end; the CPUs that  *)
(* run them; and the threads of the scheduler that serve those CPUs.        *)
(*                                                                         *)
(* mutex_lock leaves mutex_simulados between joining the queue and blocking *)
(* the process, which it does in four calls; mutex_unlock leaves it between *)
(* giving the mutex to the next one and waking it; and desalojo looks at    *)
(* the state, changes it and moves the process in calls of their own.       *)
(* Whoever waits may be anywhere: still in its CPU, blocked, or suspended.  *)
(*                                                                         *)
(* Left out: affinity to a CPU and compactions (Planificador), quanta of    *)
(* levels that have none (any process may be evicted after an instruction). *)
(***************************************************************************)
EXTENDS MedianoPlazo

CONSTANTS
    Primero,     \* the initial process
    CantCpus,    \* how many CPUs
    Mutexes,     \* names of mutexes
    Programas    \* the scripts to consider: functions from Pids to sequences

Instruccion ==
    [op : {"NOOP", "SLEEP"}] \cup [op : {"INIT_PROC"}, hijo : Pids \ {Primero}]
    \cup [op : {"MUTEX_CREATE", "MUTEX_LOCK", "MUTEX_UNLOCK"}, mutex : Mutexes]

\* Every INIT_PROC makes a process of its own (contador_pid, under mutex_conexion_km).
PidsNuevos(prog) ==
    \A p, q \in Pids : \A i \in DOMAIN prog[p], j \in DOMAIN prog[q] :
        prog[p][i].op = "INIT_PROC" /\ prog[p][i] = prog[q][j] => p = q /\ i = j

ASSUME MutexAssumption ==
    /\ Primero \in Pids
    /\ CantCpus \in Nat \ {0}
    /\ IsFiniteSet(Mutexes)
    /\ Programas \subseteq [Pids -> Seq(Instruccion)]
    /\ \A prog \in Programas : PidsNuevos(prog)

VARIABLES
    programa,   \* the scripts of this run
    pc,         \* instructions each process has behind it
    hilo,       \* what the CPU of each process, and its thread, are doing
    mutex       \* lista_mutex: creado, valor, duenio (dueno_actual), cola_mutex

vars == <<planVars, programa, pc, hilo, mutex>>

\* Where the thread that serves the CPU of a process is: in mutex_lock from encolado
\* to marca, in mutex_unlock from despierta, and in desalojo from interrupt to sale.
Pasos == {"fuera", "fetch", "encolado", "bloqueado", "agregado", "despierta", "marca",
          "interrupt", "guarda", "vuelve", "listo", "sale"}
HiloFuera == [paso |-> "fuera", otro |-> Nadie]

\* The types of the variables, those of the medium-term scheduler included.
TypeOK ==
    /\ PlanTypeOK
    /\ programa \in Programas
    /\ pc \in [Pids -> Nat]
    /\ hilo \in [Pids -> [paso : Pasos, otro : Pids \cup {Nadie}]]
    /\ mutex \in [Mutexes -> [creado : BOOLEAN, valor : {0, 1},
                              duenio : Pids \cup {Nadie}, cola : Seq(Pids)]]

-----------------------------------------------------------------------------
Actual(p) ==
    IF pc[p] < Len(programa[p]) THEN programa[p][pc[p] + 1] ELSE [op |-> "EXIT"]

EnCpu(p) == hilo[p].paso # "fuera"
Ejecuta(p, op) == hilo[p].paso = "fetch" /\ Actual(p).op = op

\* mutex_tomados
Tomados(p) == {m \in Mutexes : mutex[m].duenio = p}

Sigue(p, paso) == hilo' = [hilo EXCEPT ![p].paso = paso]

\* The instruction is done and the CPU goes on to interrupt().
Cumplida(p) ==
    /\ pc' = [pc EXCEPT ![p] = @ + 1]
    /\ Sigue(p, "interrupt")
    /\ UNCHANGED programa

Marcar(p) == desalojo' = desalojo \cup {p}

-----------------------------------------------------------------------------
(* The CPUs *)

\* cpu_libre: the head of the best queue, and any mark it still has is dropped
\* (quitar_de_desalojo).  Hypothesis: the thread of the CPU it was in has done with it
\* (Planificador is about the other case: FinIOTemprano, and MandarOrdenado).
Despachar(p) ==
    /\ Cardinality({q \in Pids : EnCpu(q)}) < CantCpus
    /\ ~EnCpu(p)
    /\ \E n \in DOMAIN niveles :
         /\ niveles[n] # <<>> /\ Head(niveles[n]) = p
         /\ \A k \in 0 .. n - 1 : niveles[k] = <<>>
         /\ niveles' = [niveles EXCEPT ![n] = Tail(@)]
    /\ pcb' = [pcb EXCEPT ![p] = ConEstado(@, "RNN")]
    /\ rnn' = Append(rnn, p)
    /\ desalojo' = desalojo \ {p}
    /\ Sigue(p, "fetch")
    /\ UNCHANGED <<s_rdy, en_io, hilos, rondas, residente, programa, pc, mutex>>

\* The query DESALOJO after an instruction: the process stays, or the CPU is told to
\* save its context.
Interrupt(p) ==
    /\ hilo[p].paso = "interrupt"
    /\ desalojo' = desalojo \ {p}
    /\ Sigue(p, IF p \in desalojo THEN "guarda" ELSE "fetch")
    /\ UNCHANGED <<pcb, niveles, rnn, s_rdy, en_io, hilos, rondas, residente, programa,
                   pc, mutex>>

\* Wrong variant: a process that was given the mutex before it blocked is left there.
OkSoloEnRunning(p) ==
    /\ hilo[p].paso = "guarda"
    /\ Sigue(p, IF Estado(p) = "RNN" THEN "vuelve" ELSE "fuera")
    /\ UNCHANGED <<planVars, programa, pc, mutex>>

\* The CPU answers OK: unless the process waits, or was woken before it left, its
\* thread takes it to READY.
OkDesalojo(p) ==
    /\ hilo[p].paso = "guarda"
    /\ Sigue(p, IF Estado(p) = "RNN" \/ (Estado(p) = "BCK" /\ ~pcb[p].esperando_io)
                THEN "vuelve" ELSE "fuera")
    /\ UNCHANGED <<planVars, programa, pc, mutex>>

Volver(p) ==
    /\ hilo[p].paso = "vuelve"
    /\ pcb' = [pcb EXCEPT ![p] = ConEstado(@, "RDY")]
    /\ Sigue(p, "listo")
    /\ UNCHANGED <<niveles, rnn, s_rdy, desalojo, en_io, hilos, rondas, residente,
                   programa, pc, mutex>>

\* The calls agregar_proceso_lista and eliminar_proceso_Lista of mutex_lock and of
\* desalojo, none of them under mutex_transiciones.
Agregar(p) ==
    /\ hilo[p].paso \in {"bloqueado", "listo"}
    /\ AgregarALista(p)
    /\ Sigue(p, IF hilo[p].paso = "listo" THEN "sale" ELSE "agregado")
    /\ UNCHANGED <<pcb, rnn, en_io, hilos, rondas, residente, programa, pc, mutex>>

Eliminar(p) ==
    /\ hilo[p].paso \in {"agregado", "sale"}
    /\ EliminarDeLista(p)
    /\ Sigue(p, IF hilo[p].paso = "sale" THEN "fuera" ELSE "marca")
    /\ UNCHANGED <<pcb, desalojo, en_io, hilos, rondas, residente, programa, pc, mutex>>

\* A quantum that ends.  The mark is looked at only in the query.
FinQuantum(p) ==
    /\ hilo[p].paso = "interrupt" /\ Estado(p) = "RNN" /\ p \notin desalojo
    /\ Marcar(p)
    /\ UNCHANGED <<pcb, niveles, rnn, s_rdy, en_io, hilos, rondas, residente, programa,
                   pc, hilo, mutex>>

-----------------------------------------------------------------------------
(* Instructions without mutexes *)

Noop(p) ==
    /\ Ejecuta(p, "NOOP")
    /\ Cumplida(p)
    /\ UNCHANGED <<planVars, mutex>>

Sleep(p) ==
    /\ Ejecuta(p, "SLEEP")
    /\ EsperarIO(p)
    /\ Cumplida(p)
    /\ UNCHANGED mutex

\* init_proc: the caller is marked, and the new process goes to READY.
InitProc(p) ==
    LET hijo == Actual(p).hijo IN
    /\ Ejecuta(p, "INIT_PROC")
    /\ pcb' = [pcb EXCEPT ![hijo] = ConEstado(@, "RDY")]
    /\ niveles' = [niveles EXCEPT ![pcb[hijo].prioridad] = Append(@, hijo)]
    /\ desalojo' = desalojo \cup {p} \cup
           (IF Preemption THEN Victima(pcb, hijo) ELSE {})
    /\ Cumplida(p)
    /\ UNCHANGED <<rnn, s_rdy, en_io, hilos, rondas, residente, mutex>>

\* exit_proceso: the mutexes of the process stay as they are.
Exit(p) ==
    /\ Ejecuta(p, "EXIT")
    /\ pcb' = [pcb EXCEPT ![p] = ConEstado(@, "EXT")]
    /\ rnn' = Sin(rnn, p)
    /\ residente' = [residente EXCEPT ![p] = FALSE]
    /\ hilo' = [hilo EXCEPT ![p] = HiloFuera]
    /\ UNCHANGED <<niveles, s_rdy, desalojo, en_io, hilos, rondas, programa, pc, mutex>>

-----------------------------------------------------------------------------
(* Priorities *)

\* The best of the original priority and those in the given queues.
Mejor(p, colas) ==
    Min({PrioridadDe[p]} \cup {pcb[q].prioridad : q \in UNION {ToSet(c) : c \in colas}})

\* Wrong variant: a process in READY stays in the queue of its old priority.
EncoladoDondeEstaba(p, prioridad) == niveles

\* actualizar_prioridad_pcb: a process in READY moves to the queue of its priority.
Reencolado(p, prioridad) ==
    LET vieja == pcb[p].prioridad IN
    IF Estado(p) = "RDY" /\ prioridad # vieja /\ p \in ToSet(niveles[vieja])
    THEN [niveles EXCEPT ![vieja] = Sin(@, p), ![prioridad] = Append(@, p)]
    ELSE niveles

\* Wrong variant: the owner passes before the best of those that wait.
HerenciaDeMas(p, cola) == Mejor(p, {cola}) - 1

\* Wrong variant: the owner keeps the priority it had.
HerenciaNula(p, cola) == pcb[p].prioridad

\* actualizar_herencia: what the owner gets from the queue of ONE mutex.
Herencia(p, cola) == Mejor(p, {cola})

\* It evicts someone if the priority of the owner changed, whatever QUEUE_PREEMPTION.
VictimaDeHerencia(registros, p) ==
    IF registros[p].prioridad # pcb[p].prioridad THEN Victima(registros, p) ELSE {}

-----------------------------------------------------------------------------
(* The mutexes *)

\* A second mutex with the same name is never found.
MutexCreate(p) ==
    LET m == Actual(p).mutex IN
    /\ Ejecuta(p, "MUTEX_CREATE")
    /\ mutex' = [mutex EXCEPT ![m].creado = TRUE]
    /\ Marcar(p)
    /\ Cumplida(p)
    /\ UNCHANGED <<pcb, niveles, rnn, s_rdy, en_io, hilos, rondas, residente>>

LockLibre(p) ==
    LET m == Actual(p).mutex IN
    /\ Ejecuta(p, "MUTEX_LOCK")
    /\ mutex[m].creado /\ mutex[m].valor = 1
    /\ mutex' = [mutex EXCEPT ![m].valor = 0, ![m].duenio = p]
    /\ Cumplida(p)
    /\ UNCHANGED planVars

\* Taken, under mutex_simulados: it joins the queue and the owner inherits.
LockTomado(p) ==
    LET m == Actual(p).mutex
        duenio == mutex[m].duenio
        cola == Append(mutex[m].cola, p)
        prioridad == Herencia(duenio, cola)
        registros == [pcb EXCEPT ![p].esperando_io = TRUE, ![duenio].prioridad = prioridad]
    IN  /\ Ejecuta(p, "MUTEX_LOCK")
        /\ mutex[m].creado /\ mutex[m].valor = 0
        /\ mutex' = [mutex EXCEPT ![m].cola = cola]
        /\ pcb' = registros
        /\ niveles' = Reencolado(duenio, prioridad)
        /\ desalojo' = desalojo \cup VictimaDeHerencia(registros, duenio)
        /\ pc' = [pc EXCEPT ![p] = @ + 1]
        /\ hilo' = [hilo EXCEPT ![p].paso = "encolado"]
        /\ UNCHANGED <<rnn, s_rdy, en_io, hilos, rondas, residente, programa>>

\* And then it is blocked: cambiar_estado_pcb, Agregar, Eliminar and MarcarAlTerminar.
\* No thread will suspend it.
Bloquear(p) ==
    /\ hilo[p].paso = "encolado"
    /\ pcb' = [pcb EXCEPT ![p] = ConEstado(@, "BCK")]
    /\ Sigue(p, "bloqueado")
    /\ UNCHANGED <<niveles, rnn, s_rdy, desalojo, en_io, hilos, rondas, residente,
                   programa, pc, mutex>>

\* Answered with an error that the CPU only writes in its log.
LockInexistente(p) ==
    /\ Ejecuta(p, "MUTEX_LOCK") /\ ~mutex[Actual(p).mutex].creado
    /\ Cumplida(p)
    /\ UNCHANGED <<planVars, mutex>>

UnlockInexistente(p) ==
    /\ Ejecuta(p, "MUTEX_UNLOCK") /\ ~mutex[Actual(p).mutex].creado
    /\ Cumplida(p)
    /\ UNCHANGED <<planVars, mutex>>

\* The caller is not the owner: only the log hears of it.
UnlockAjeno(p) ==
    LET m == Actual(p).mutex IN
    /\ Ejecuta(p, "MUTEX_UNLOCK") /\ mutex[m].creado /\ mutex[m].duenio # p
    /\ Marcar(p)
    /\ Cumplida(p)
    /\ UNCHANGED <<pcb, niveles, rnn, s_rdy, en_io, hilos, rondas, residente, mutex>>

\* Wrong variant: the mutex is also left free for whoever comes first.
MutexSinTraspaso(m) ==
    IF mutex[m].cola = <<>> THEN [mutex[m] EXCEPT !.valor = 1, !.duenio = Nadie]
    ELSE [mutex[m] EXCEPT !.valor = 1, !.duenio = Head(mutex[m].cola), !.cola = Tail(@)]

\* Free, or of the first that waits: valor stays 0 and it passes directly.
MutexSoltado(m) ==
    IF mutex[m].cola = <<>> THEN [mutex[m] EXCEPT !.valor = 1, !.duenio = Nadie]
    ELSE [mutex[m] EXCEPT !.duenio = Head(mutex[m].cola), !.cola = Tail(@)]

\* recalcular_prioridad, over the mutexes the caller keeps.
PrioridadAlSoltar(p, m) == Mejor(p, {mutex[n].cola : n \in Tomados(p) \ {m}})

UnlockSinEspera(p) ==
    LET m == Actual(p).mutex IN
    /\ Ejecuta(p, "MUTEX_UNLOCK")
    /\ mutex[m].creado /\ mutex[m].duenio = p /\ mutex[m].cola = <<>>
    /\ mutex' = [mutex EXCEPT ![m] = MutexSoltado(m)]
    /\ pcb' = [pcb EXCEPT ![p].prioridad = PrioridadAlSoltar(p, m)]
    /\ Marcar(p)
    /\ Cumplida(p)
    /\ UNCHANGED <<niveles, rnn, s_rdy, en_io, hilos, rondas, residente>>

\* Hand-off, under mutex_simulados; the new owner is woken in the next step.
UnlockTraspaso(p) ==
    LET m == Actual(p).mutex
        sig == Head(mutex[m].cola)
        prioridad == Herencia(sig, Tail(mutex[m].cola))
        registros == [pcb EXCEPT ![p].prioridad = PrioridadAlSoltar(p, m),
                                 ![sig].prioridad = prioridad,
                                 ![sig].esperando_io = FALSE]
    IN  /\ Ejecuta(p, "MUTEX_UNLOCK")
        /\ mutex[m].creado /\ mutex[m].duenio = p /\ mutex[m].cola # <<>>
        /\ mutex' = [mutex EXCEPT ![m] = MutexSoltado(m)]
        /\ pcb' = registros
        /\ niveles' = Reencolado(sig, prioridad)
        /\ desalojo' = desalojo \cup VictimaDeHerencia(registros, sig)
        /\ pc' = [pc EXCEPT ![p] = @ + 1]
        /\ hilo' = [hilo EXCEPT ![p] = [paso |-> "despierta", otro |-> sig]]
        /\ UNCHANGED <<rnn, s_rdy, en_io, hilos, rondas, residente, programa>>

\* Wrong variant: a process that has been suspended meanwhile is not woken.
DespertarSoloBloqueado(p) ==
    LET q == hilo[p].otro IN
    /\ hilo[p].paso = "despierta"
    /\ IF Estado(q) = "BCK" THEN MedianoPlazoRdy(q)
       ELSE UNCHANGED <<pcb, niveles, s_rdy, desalojo>>
    /\ hilo' = [hilo EXCEPT ![p] = [paso |-> "marca", otro |-> Nadie]]
    /\ UNCHANGED <<rnn, en_io, hilos, rondas, residente, programa, pc, mutex>>

\* mediano_plazo_rdy of the new owner.
Despertar(p) ==
    /\ hilo[p].paso = "despierta"
    /\ MedianoPlazoRdy(hilo[p].otro)
    /\ hilo' = [hilo EXCEPT ![p] = [paso |-> "marca", otro |-> Nadie]]
    /\ UNCHANGED <<rnn, en_io, hilos, rondas, residente, programa, pc, mutex>>

\* The mark that ends mutex_unlock (desalojar_por_syscall_mismo_cpu), and mutex_lock of
\* a mutex that was taken.
MarcarAlTerminar(p) ==
    /\ hilo[p].paso = "marca"
    /\ Marcar(p)
    /\ Sigue(p, "interrupt")
    /\ UNCHANGED <<pcb, niveles, rnn, s_rdy, en_io, hilos, rondas, residente, programa,
                   pc, mutex>>

-----------------------------------------------------------------------------
Init ==
    /\ PlanInit
    /\ programa \in Programas
    /\ pc = [p \in Pids |-> 0]
    /\ hilo = [p \in Pids |-> HiloFuera]
    /\ mutex = [m \in Mutexes |-> [creado |-> FALSE, valor |-> 1, duenio |-> Nadie,
                                   cola |-> <<>>]]

\* The initial process, created before any CPU is served.
CrearInicial ==
    /\ Estado(Primero) = "NEW"
    /\ pcb' = [pcb EXCEPT ![Primero] = ConEstado(@, "RDY")]
    /\ Listo(Primero)
    /\ UNCHANGED <<rnn, s_rdy, en_io, hilos, rondas, residente, programa, pc, hilo, mutex>>

\* What the CPU of p, or the thread that serves it, does next.
Paso(p) ==
    \/ Noop(p) \/ Sleep(p) \/ InitProc(p) \/ Exit(p)
    \/ MutexCreate(p)
    \/ LockLibre(p) \/ LockTomado(p) \/ Bloquear(p) \/ LockInexistente(p)
    \/ UnlockInexistente(p) \/ UnlockAjeno(p) \/ UnlockSinEspera(p)
    \/ UnlockTraspaso(p) \/ MarcarAlTerminar(p)
    \/ Interrupt(p) \/ OkDesalojo(p) \/ Volver(p)
    \/ Agregar(p) \/ Eliminar(p)

FinDeIO(p) == FinIO(p) /\ UNCHANGED <<programa, pc, hilo, mutex>>

PasoPlan ==
    /\ \/ \E h \in hilos : PasoHilo(h)
       \/ \E r \in Rondas : PasoRonda(r) \/ HayEspacio(r)
    /\ UNCHANGED <<programa, pc, hilo, mutex>>

\* A wake-up of p: by the thread that gave it a mutex, or that hears of its device.
Despertado(p) ==
    \/ \E q \in Pids : hilo[q].otro = p /\ Despertar(q)
    \/ /\ \E h \in hilos : h.pid = p /\ DespertarDeIO(h)
       /\ UNCHANGED <<programa, pc, hilo, mutex>>

\* The steps the hypotheses on time are about.  A thread mediano_plazo_bck that begins
\* late may find its process in a later wait, for a mutex; if it suspends it before it
\* leaves its CPU, and the mutex was given to it before it blocked, the query DESALOJO
\* finds it suspended and nobody wakes it.  mutex_unlock wakes the new owner after it
\* has released mutex_simulados: if the owner has left its CPU for READY, has been
\* dispatched and waits again by then, it is woken from a wait that is not over.  And
\* a wake-up among the calls by which mutex_lock blocks its process, or by which desalojo
\* takes one in BLOCK to READY, adds it to READY twice and may leave it in RUNNING: these
\* do not take mutex_transiciones.
PasoLibre ==
    \/ \E p \in Pids : Despachar(p) \/ Despertado(p)
    \/ /\ (\E h \in hilos : VencerTimer(h)) \/ (\E r \in Rondas : ElegirSuspendido(r))
       /\ UNCHANGED <<programa, pc, hilo, mutex>>

\* A thread has given a mutex to p, or heard of its device, and has not woken it.
PorDespertar(p) ==
    \/ \E q \in Pids : hilo[q] = [paso |-> "despierta", otro |-> p]
    \/ \E h \in hilos : h.pid = p /\ h.fase = "despierta"

DespachoOrdenado == \E p \in Pids : ~PorDespertar(p) /\ Despachar(p)

\* Its own thread is between a look at the state of p, or a change of it, and the end of
\* what follows from it.
EnTransito(p) == hilo[p].paso \in {"bloqueado", "agregado", "vuelve"}

DespertarOrdenado(p) == ~EnTransito(p) /\ Despertado(p)

PlazoOrdenado ==
    /\ \/ \E h \in hilos : ~EnCpu(h.pid) /\ VencerOrdenado(h)
       \/ \E r \in Rondas : ElegirOrdenado(r)
    /\ UNCHANGED <<programa, pc, hilo, mutex>>

PasoOrdenado ==
    DespachoOrdenado \/ PlazoOrdenado \/ \E p \in Pids : DespertarOrdenado(p)

\* Every script has come to its end.
Terminado == (\A p \in Pids : Estado(p) = "EXT") /\ UNCHANGED vars

PasoComun ==
    \/ CrearInicial
    \/ \E p \in Pids : Paso(p) \/ FinQuantum(p) \/ FinDeIO(p)
    \/ PasoPlan

Spec == Init /\ [][PasoComun \/ PasoLibre]_vars

\* What CPUs, devices and their threads do.
PasoDeHilos ==
    \/ CrearInicial \/ DespachoOrdenado
    \/ \E p \in Pids : Paso(p) \/ FinDeIO(p) \/ DespertarOrdenado(p)

\* The CPUs, the devices and the threads that serve them go on (scripts end, so that
\* fairness to all of them together is enough), as do timers and rounds, and Kernel
\* Memory has room now and again for each suspended process (what frees it is not here).
Justicia ==
    /\ WF_vars(PasoDeHilos) /\ WF_vars(PasoPlan) /\ WF_vars(PlazoOrdenado)
    /\ \A p \in Pids : SF_vars(/\ \E r \in Rondas : rondas[r].pid = p /\ HayEspacio(r)
                               /\ UNCHANGED <<programa, pc, hilo, mutex>>)

SpecJusta == Init /\ [][PasoComun \/ PasoOrdenado \/ Terminado]_vars /\ Justicia

-----------------------------------------------------------------------------
(* Properties *)

\* In which lists a process is: that of its state, but for what the thread of its CPU has
\* still to add or to take out, from the change of state in mutex_lock or desalojo to the
\* call that removes (server.c 2312-2314, 1117-1172).
EnReady(p) == Estado(p) = "RDY" /\ hilo[p].paso # "listo"
EnRunning(p) ==
    \/ Estado(p) = "RNN" \/ hilo[p].paso \in {"bloqueado", "agregado"}
    \/ hilo[p].paso \in {"listo", "sale"} /\ pcb[p].anterior = "RNN"

EnNiveles(p) == {x \in UNION {{n} \X DOMAIN niveles[n] : n \in DOMAIN niveles} :
                    niveles[x[1]][x[2]] = p}

\* A process in READY is in one queue, that of its priority now, and only once: a
\* priority that changes while it is there takes it along, and neither the end of a
\* round nor a rollback nor the thread of its CPU adds it twice; and the other lists
\* agree (ready_CMN, actualizar_prioridad_pcb, nuevo_espacio, mediano_plazo_bck,
\* mutex_lock and desalojo, under the hypotheses on time).
ListasExactas ==
    \A p \in Pids :
        /\ Cardinality(EnNiveles(p)) = (IF EnReady(p) THEN 1 ELSE 0)
        /\ \A x \in EnNiveles(p) : x[1] = pcb[p].prioridad
        /\ Cardinality({i \in DOMAIN rnn : rnn[i] = p}) = (IF EnRunning(p) THEN 1 ELSE 0)
        /\ Cardinality({i \in DOMAIN s_rdy : s_rdy[i] = p})
             + Cardinality({r \in Rondas : rondas[r].fase = "quitado" /\ rondas[r].pid = p})
             = (IF Estado(p) = "S_RDY" THEN 1 ELSE 0)

\* A process that may run has its segments in RAM: what the scheduler believes of a
\* suspension is what Kernel Memory did (mediano_plazo_bck 808-876 and nuevo_espacio
\* 1532-1630, under the hypotheses on time).
ResidenciaAcordada == \A p \in Pids : Estado(p) \in {"RDY", "RNN"} => residente[p]

\* Nobody is lost in the queue of a mutex: who is in it waits, and is in no other; who
\* waits and is neither in a queue nor in a device is about to be woken, or its own
\* thread, which has not yet looked, will take it to READY when it leaves its CPU
\* (mutex_lock 2300-2320, mutex_unlock 2366-2392, desalojo 1091-1147).
EsperaSinPerderse ==
    \A p \in Pids :
        LET colas == {m \in Mutexes : p \in ToSet(mutex[m].cola)}
            paso == hilo[p].paso
        IN
        /\ Cardinality(colas) <= 1
        /\ colas # {} => /\ pcb[p].esperando_io /\ p \notin en_io
                         /\ Estado(p) \in {"BCK", "S_BCK"} \/ paso = "encolado"
        /\ Estado(p) \in {"BCK", "S_BCK"} /\ colas = {} /\ p \notin en_io =>
               \/ PorDespertar(p)
               \/ /\ Estado(p) = "BCK" /\ ~pcb[p].esperando_io
                  /\ \/ paso \in {"bloqueado", "agregado", "marca", "guarda", "vuelve"}
                     \/ paso = "interrupt" /\ p \in desalojo

\* The owner of one mutex has the best of its own priority and those of the processes
\* that wait for it, as long as these hold no mutex; and who holds none has its own
\* priority back.  (With two mutexes, or with waiters that are waited for, the code
\* gives something else: actualizar_herencia looks at one queue and at no owner.)
HerenciaJusta ==
    \A p \in Pids :
        LET esperan == UNION {ToSet(mutex[m].cola) : m \in Tomados(p)} IN
        (Cardinality(Tomados(p)) <= 1 /\ \A q \in esperan : Tomados(q) = {}) =>
            pcb[p].prioridad = Min({PrioridadDe[q] : q \in esperan \cup {p}})

\* The scripts: p has a MUTEX_LOCK of m behind it, not its MUTEX_UNLOCK, and does not
\* wait for it.
EnSeccion(p, m) ==
    /\ \E k \in 1 .. pc[p] :
         /\ programa[p][k] = [op |-> "MUTEX_LOCK", mutex |-> m]
         /\ \A j \in k + 1 .. pc[p] : programa[p][j] # [op |-> "MUTEX_UNLOCK", mutex |-> m]
    /\ p \notin ToSet(mutex[m].cola)

Promesa == INSTANCE Cerrojo WITH
    dentro <- [m \in Mutexes |-> {p \in Pids : EnSeccion(p, m)}],
    fila <- [m \in Mutexes |-> mutex[m].cola]

\* To the scripts a mutex is a lock: one of them inside, the others in their order,
\* and nobody in between (mutex_lock 2255-2327, mutex_unlock 2330-2415), as long as no
\* script asks for a mutex that it holds or that has not been created.
Exclusion == Promesa!Spec

\* Who waits for a mutex comes to run with it, through suspensions of its owner and of
\* itself, when every script gives back what it took before it ends.
EsperaTermina ==
    \A p \in Pids : \A m \in Mutexes :
        p \in ToSet(mutex[m].cola) ~> (mutex[m].duenio = p /\ Estado(p) = "RNN")

=============================================================================

---------------------------- MODULE MedianoPlazo ----------------------------
(***************************************************************************)
(* The states of a process in the Kernel Scheduler and the medium-term      *)
(* scheduler (server.c 753-900 and 1532-1650, utilsKS.c): the lists READY   *)
(* (a queue per priority), RUNNING and SUSPENDED READY; the thread that     *)
(* sleeps and then suspends a process that is still blocked; the rounds of  *)
(* nuevo_espacio that bring suspended processes back, run by several        *)
(* threads; and where Kernel Memory has the segments of each process, which *)
(* two messages change: SUSPENDIDO and NUEVO_ESPACIO.                       *)
(*                                                                         *)
(* Scheduler and Kernel Memory keep a state each and agree on it only by    *)
(* those messages, sent after mutex_transiciones has been released.  A       *)
(* process changes its state in one call, enters a list in another and      *)
(* leaves one in a third: mediano_plazo_bck and mediano_plazo_rdy do it      *)
(* under mutex_transiciones, the threads of the CPUs without it.            *)
(*                                                                         *)
(* This is the scheduler under CMN.  What the CPUs ask of it is in MutexKS.  *)
(* Left out: BLOCK, NEW and EXIT as lists (nobody here looks for a process  *)
(* in them), how many segments a process has and which of them fit          *)
(* (KernelMemory), the queues of the devices (ColaIO).                      *)
(***************************************************************************)
EXTENDS Integers, FiniteSets, SequencesExt

CONSTANTS
    Pids,
    Niveles,       \* config: how many queues CMN has
    PrioridadDe,   \* prioridad_original
    Preemption,    \* config: QUEUE_PREEMPTION
    Rondas,        \* the threads that run nuevo_espacio
    Nadie          \* no process

ASSUME MedianoPlazoAssumption ==
    /\ IsFiniteSet(Pids) /\ Nadie \notin Pids
    /\ Niveles \in Nat \ {0}
    /\ PrioridadDe \in [Pids -> 0 .. Niveles - 1]
    /\ Preemption \in BOOLEAN

VARIABLES
    pcb,        \* per process: estado, anterior (estado_anterior), prioridad,
                \* version (block_version), esperando_io
    niveles,    \* READY: a queue per priority
    rnn,        \* RUNNING
    s_rdy,      \* SUSPENDED READY
    desalojo,   \* processes that must leave their CPU
    en_io,      \* processes with a job in a device
    hilos,      \* the threads mediano_plazo_bck, and those that end an IO
    rondas,     \* the rounds of nuevo_espacio
    residente   \* Kernel Memory: the segments of the process are in RAM

planVars == <<pcb, niveles, rnn, s_rdy, desalojo, en_io, hilos, rondas, residente>>

Estados == {"NEW", "RDY", "RNN", "BCK", "S_BCK", "S_RDY", "EXT"}
Hilo == [pid : Pids, nacio : Nat,
         fase : {"arranca", "duerme", "avisa", "deshace", "despierta"}, version : Nat]
Ronda == [fase : {"busca", "elegido", "respondido", "quitado"},
          pid : Pids \cup {Nadie}, intentados : SUBSET Pids]
RondaLibre == [fase |-> "busca", pid |-> Nadie, intentados |-> {}]

PlanTypeOK ==
    /\ pcb \in [Pids -> [estado : Estados, anterior : Estados,
                         prioridad : 0 .. Niveles - 1, version : Nat,
                         esperando_io : BOOLEAN]]
    /\ niveles \in [0 .. Niveles - 1 -> Seq(Pids)]
    /\ rnn \in Seq(Pids) /\ s_rdy \in Seq(Pids)
    /\ desalojo \subseteq Pids /\ en_io \subseteq Pids
    /\ hilos \subseteq Hilo
    /\ rondas \in [Rondas -> Ronda]
    /\ residente \in [Pids -> BOOLEAN]

-----------------------------------------------------------------------------
(* Changes of state *)

Estado(p) == pcb[p].estado

\* cambiar_estado_pcb: a process that enters BLOCK starts a new period of it.
ConEstado(r, estado) ==
    [r EXCEPT !.estado = estado, !.anterior = r.estado,
              !.version = IF estado = "BCK" THEN @ + 1 ELSE @]

Sin(s, p) == RemoveFirst(s, p)

\* verificar_desalojo_por_prioridad: the first running process of worse priority,
\* with the priorities in registros.
Victima(registros, p) ==
    LET peores == {i \in DOMAIN rnn :
            rnn[i] # p /\ registros[p].prioridad < registros[rnn[i]].prioridad}
    IN  IF peores = {} THEN {} ELSE {rnn[Min(peores)]}

\* ready_CMN
Listo(p) ==
    /\ niveles' = [niveles EXCEPT ![pcb[p].prioridad] = Append(@, p)]
    /\ desalojo' = desalojo \cup (IF Preemption THEN Victima(pcb, p) ELSE {})

\* agregar_proceso_lista: into the list of the state the process has by then.
AgregarALista(p) ==
    /\ s_rdy' = IF Estado(p) = "S_RDY" THEN Append(s_rdy, p) ELSE s_rdy
    /\ IF Estado(p) = "RDY" THEN Listo(p) ELSE UNCHANGED <<niveles, desalojo>>

\* eliminar_proceso_Lista: out of the list of the state it had before, if it is there.
EliminarDeLista(p) ==
    LET anterior == pcb[p].anterior
        colas == {n \in DOMAIN niveles : p \in ToSet(niveles[n])}
    IN  /\ rnn' = IF anterior = "RNN" THEN Sin(rnn, p) ELSE rnn
        /\ s_rdy' = IF anterior = "S_RDY" THEN Sin(s_rdy, p) ELSE s_rdy
        /\ niveles' = IF anterior = "RDY" /\ colas # {}
                      THEN [niveles EXCEPT ![Min(colas)] = Sin(@, p)] ELSE niveles

\* mediano_plazo_rdy, under mutex_transiciones.
MedianoPlazoRdy(p) ==
    \/ /\ Estado(p) = "BCK"
       /\ pcb' = [pcb EXCEPT ![p] = ConEstado(@, "RDY")]
       /\ Listo(p)
       /\ UNCHANGED s_rdy
    \/ /\ Estado(p) = "S_BCK"
       /\ pcb' = [pcb EXCEPT ![p] = ConEstado(@, "S_RDY")]
       /\ s_rdy' = Append(s_rdy, p)
       /\ UNCHANGED <<niveles, desalojo>>
    \/ /\ Estado(p) \notin {"BCK", "S_BCK"}
       /\ UNCHANGED <<pcb, niveles, s_rdy, desalojo>>

-----------------------------------------------------------------------------
(* Input and output *)

\* io_sleep, and its like: the process waits for a device, and a thread begins that
\* will suspend it.
EsperarIO(p) ==
    LET r == ConEstado([pcb[p] EXCEPT !.esperando_io = TRUE], "BCK") IN
    /\ pcb' = [pcb EXCEPT ![p] = r]
    /\ rnn' = Sin(rnn, p)
    /\ desalojo' = desalojo \cup {p}
    /\ en_io' = en_io \cup {p}
    /\ hilos' = hilos \cup {[pid |-> p, nacio |-> r.version, fase |-> "arranca",
                             version |-> 0]}
    /\ UNCHANGED <<niveles, s_rdy, rondas, residente>>

\* rta_io_sleep, and its like: the process no longer waits for the device, and then the
\* same thread wakes it.
FinIO(p) ==
    /\ p \in en_io
    /\ en_io' = en_io \ {p}
    /\ pcb' = [pcb EXCEPT ![p].esperando_io = FALSE]
    /\ hilos' = hilos \cup {[pid |-> p, nacio |-> pcb[p].version, fase |-> "despierta",
                             version |-> 0]}
    /\ UNCHANGED <<niveles, rnn, s_rdy, desalojo, rondas, residente>>

DespertarDeIO(h) ==
    /\ h.fase = "despierta"
    /\ hilos' = hilos \ {h}
    /\ MedianoPlazoRdy(h.pid)
    /\ UNCHANGED <<rnn, en_io, rondas, residente>>

-----------------------------------------------------------------------------
(* mediano_plazo_bck: a thread per wait for a device *)

Pasa(h, fase) == hilos' = (hilos \ {h}) \cup {[h EXCEPT !.fase = fase]}

\* The thread begins, and takes the version of the wait it finds.
ArrancarTimer(h) ==
    /\ h.fase = "arranca"
    /\ hilos' = (hilos \ {h}) \cup
           (IF Estado(h.pid) = "BCK"
            THEN {[h EXCEPT !.fase = "duerme", !.version = pcb[h.pid].version]} ELSE {})
    /\ UNCHANGED <<pcb, niveles, rnn, s_rdy, desalojo, en_io, rondas, residente>>

\* Wrong variant: it does not look again after tiempo_suspension.
VencerSinChequeo(h) ==
    /\ h.fase = "duerme"
    /\ pcb' = [pcb EXCEPT ![h.pid] = ConEstado(@, "S_BCK")]
    /\ Pasa(h, "avisa")
    /\ UNCHANGED <<niveles, rnn, s_rdy, desalojo, en_io, rondas, residente>>

\* tiempo_suspension later: the process is suspended only if it is in the same wait.
VencerTimer(h) ==
    LET sigue == Estado(h.pid) = "BCK" /\ pcb[h.pid].version = h.version IN
    /\ h.fase = "duerme"
    /\ IF sigue
       THEN /\ pcb' = [pcb EXCEPT ![h.pid] = ConEstado(@, "S_BCK")]
            /\ Pasa(h, "avisa")
       ELSE /\ hilos' = hilos \ {h}
            /\ UNCHANGED pcb
    /\ UNCHANGED <<niveles, rnn, s_rdy, desalojo, en_io, rondas, residente>>

\* SUSPENDIDO, under mutex_conexion_km: Kernel Memory takes the segments to SWAP, or
\* has no room there.
AvisarSuspension(h) ==
    /\ h.fase = "avisa"
    /\ \/ /\ residente' = [residente EXCEPT ![h.pid] = FALSE]
          /\ hilos' = hilos \ {h}
       \/ /\ Pasa(h, "deshace")
          /\ UNCHANGED residente
    /\ UNCHANGED <<pcb, niveles, rnn, s_rdy, desalojo, en_io, rondas>>

\* Rollback of a suspension Kernel Memory refused.  No other thread begins: a process
\* back in BLOCK is not suspended again in this wait.
DeshacerSuspension(h) ==
    LET p == h.pid IN
    /\ h.fase = "deshace"
    /\ hilos' = hilos \ {h}
    /\ IF Estado(p) = "S_RDY"
       THEN /\ pcb' = [pcb EXCEPT ![p] = ConEstado(@, "RDY")]
            /\ s_rdy' = Sin(s_rdy, p)
            /\ Listo(p)
       ELSE /\ pcb' = IF Estado(p) = "S_BCK"
                      THEN [pcb EXCEPT ![p] = ConEstado(@, "BCK")] ELSE pcb
            /\ UNCHANGED <<niveles, s_rdy, desalojo>>
    /\ UNCHANGED <<rnn, en_io, rondas, residente>>

-----------------------------------------------------------------------------
(* nuevo_espacio: the thread hilo_reintentar_desuspension every two seconds,  *)
(* and the threads that end a process, free a segment or hear of a stick      *)

\* Those not tried in this round; the best priority first, then the oldest.
Candidatos(r) == {i \in DOMAIN s_rdy : s_rdy[i] \notin rondas[r].intentados}
Elegidos(r) ==
    {i \in Candidatos(r) : \A j \in Candidatos(r) :
        \/ pcb[s_rdy[i]].prioridad < pcb[s_rdy[j]].prioridad
        \/ pcb[s_rdy[i]].prioridad = pcb[s_rdy[j]].prioridad /\ i <= j}

\* Chosen under sem_procesos_s_ready, which is then released.
ElegirSuspendido(r) ==
    /\ rondas[r].fase = "busca"
    /\ \E i \in Elegidos(r) :
         rondas' = [rondas EXCEPT ![r].fase = "elegido", ![r].pid = s_rdy[i]]
    /\ UNCHANGED <<pcb, niveles, rnn, s_rdy, desalojo, en_io, hilos, residente>>

\* Nobody left to try: the round ends, and the next one forgets who was tried.
TerminarRonda(r) ==
    /\ rondas[r].fase = "busca" /\ rondas[r].intentados # {}
    /\ Candidatos(r) = {}
    /\ rondas' = [rondas EXCEPT ![r] = RondaLibre]
    /\ UNCHANGED <<pcb, niveles, rnn, s_rdy, desalojo, en_io, hilos, residente>>

\* NUEVO_ESPACIO answered with OK: the segments are, or are again, in RAM.
HayEspacio(r) ==
    /\ rondas[r].fase = "elegido"
    /\ residente' = [residente EXCEPT ![rondas[r].pid] = TRUE]
    /\ rondas' = [rondas EXCEPT ![r].fase = "respondido"]
    /\ UNCHANGED <<pcb, niveles, rnn, s_rdy, desalojo, en_io, hilos>>

\* Any other answer: the next candidate is tried.
NoHayEspacio(r) ==
    /\ rondas[r].fase = "elegido" /\ ~residente[rondas[r].pid]
    /\ rondas' = [rondas EXCEPT ![r] = [fase |-> "busca", pid |-> Nadie,
                                        intentados |-> @.intentados \cup {@.pid}]]
    /\ UNCHANGED <<pcb, niveles, rnn, s_rdy, desalojo, en_io, hilos, residente>>

Busca(r) == rondas' = [rondas EXCEPT ![r].fase = "busca", ![r].pid = Nadie]

\* removido: another round may have taken it.
QuitarSuspendido(r) ==
    LET p == rondas[r].pid IN
    /\ rondas[r].fase = "respondido"
    /\ s_rdy' = Sin(s_rdy, p)
    /\ IF p \in ToSet(s_rdy)
       THEN rondas' = [rondas EXCEPT ![r].fase = "quitado"]
       ELSE Busca(r)
    /\ UNCHANGED <<pcb, niveles, rnn, desalojo, en_io, hilos, residente>>

\* The change of state is not under mutex_transiciones.
Desuspender(r) ==
    LET p == rondas[r].pid IN
    /\ rondas[r].fase = "quitado"
    /\ pcb' = [pcb EXCEPT ![p] = ConEstado(@, "RDY")]
    /\ Listo(p)
    /\ Busca(r)
    /\ UNCHANGED <<rnn, s_rdy, en_io, hilos, residente>>

-----------------------------------------------------------------------------
(* Hypotheses on time.  The code lets a process whose SUSPENDIDO has not yet   *)
(* been sent be woken, chosen, brought back and dispatched, and Kernel Memory  *)
(* then takes a running process to SWAP; and lets a round hold an answer about *)
(* a process while it runs, blocks and is suspended again.  Both need a thread *)
(* that stays still longer than tiempo_suspension or a round of two seconds.   *)
(* MutexKS adds that a process leaves its CPU within tiempo_suspension, that   *)
(* who is given a mutex is woken before it can run and wait again, and that no *)
(* wake-up falls among the calls by which its own thread moves it.             *)

SuspensionEnCurso(p) == \E h \in hilos : h.pid = p /\ h.fase \in {"avisa", "deshace"}
EnManos(p) == \E r \in Rondas : rondas[r].pid = p

ElegirOrdenado(r) ==
    /\ \A i \in Elegidos(r) : ~SuspensionEnCurso(s_rdy[i])
    /\ ElegirSuspendido(r)

VencerOrdenado(h) == ~EnManos(h.pid) /\ VencerTimer(h)

PasoHilo(h) == ArrancarTimer(h) \/ AvisarSuspension(h) \/ DeshacerSuspension(h)

PasoRonda(r) ==
    TerminarRonda(r) \/ NoHayEspacio(r) \/ QuitarSuspendido(r) \/ Desuspender(r)

PlanInit ==
    /\ pcb = [p \in Pids |-> [estado |-> "NEW", anterior |-> "NEW",
                              prioridad |-> PrioridadDe[p], version |-> 0,
                              esperando_io |-> FALSE]]
    /\ niveles = [n \in 0 .. Niveles - 1 |-> <<>>]
    /\ rnn = <<>> /\ s_rdy = <<>>
    /\ desalojo = {} /\ en_io = {} /\ hilos = {}
    /\ rondas = [r \in Rondas |-> RondaLibre]
    /\ residente = [p \in Pids |-> TRUE]

=============================================================================

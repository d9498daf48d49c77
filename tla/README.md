# TLA+ models of tp_so_limpio

The repository is a distributed simulator of an operating system in C: seven
processes that talk over TCP. These modules model the parts where several threads
or processes share state, check them with TLC on small instances, and prove their main
safety invariants, and one refinement, with TLAPS for every instance.

File names below are relative to `src/`; `server.c` is
`kernel_scheduler/src/server/src/server.c`, `utils.c` is `kernel_memory/src/utils.c`,
`utilsKS.c` is `kernel_scheduler/utilsKS/utilsKS.c`, and `cliente.c` is `cpu/src/cliente.c`.

## 1. The system

| Part | State | Operations | Talks to |
|---|---|---|---|
| **Kernel Scheduler (KS)**, `server.c`, `utilsKS.c` | PCB lists (NEW, READY or one queue per level, RUNNING, BLOCK, SUSP. BLOCK, SUSP. READY, EXIT), list of evictions, CPU reservations, IO queues and devices, simulated mutexes, semaphores | one thread per CPU and per IO device, one per quantum, one per suspension timer | CPUs, IO devices, KM |
| **Kernel Memory (KM)**, `kernel_memory/src` | list of holes, segment tables, contexts, registry of sticks, bitmap of SWAP | one thread for KS, one per CPU, one per stick | KS, CPUs, Memory Sticks, SWAP |
| **CPU**, `cliente.c` | registers, cached segment table, sockets to the sticks | fetch, decode, execute, check_interrupt; MMU | KS, KM, sticks |
| **Memory Stick**, `memory_stick/src` | an array of bytes | read, write | KM, CPUs |
| **SWAP**, `swap/src` | a file of blocks | read, write | KM |
| **IO**, `io/src` | its class | SLEEP, STDIN, STDOUT | KS |
| **Utilities**, `utils/src` | none | sockets, packets, handshakes | all |

### Inside the Kernel Scheduler

* *Short term* (`cpu_libre`, `mandar_proceso_cpu`, `desalojo`, `control_hilo_quantum`,
  `compactacion`). Correct when no process is on two CPUs, a process is in the list of its
  state only, the tokens of `sem_hay_ready` count READY, a reservation of a CPU never
  blocks the others for good, nothing runs while memory is compacted, and READY processes run.
* *IO* (`io_sleep`, `io_stdin`, `io_stdout`, `io_libre`, `rta_io_*`, `io_finalizada`,
  `gestionar_desconexion_io`). Correct when a job is done once, tokens count jobs, a device
  in use has a job, and a process that waits stops waiting.
* *Medium term* (`mediano_plazo_bck`, `mediano_plazo_rdy`, `nuevo_espacio`). Correct when a
  process is found by every handler that looks for it, and KS and KM agree on who is resident.
* *Mutexes and inheritance* (`mutex_create/lock/unlock`, `actualizar_herencia`). Correct when
  a mutex has one owner, a waiting process is given it, and priorities return to what they were.

### Inside Kernel Memory

* *Sticks* (`conexion_memory_stick`): total memory and holes grow in two critical sections.
* *Allocation* (`creacion_segmento`, `eliminar_segmento`, `liberar_espacio_en_huecos`,
  `solicitar_y_ejecutar_compactacion`). Correct when no byte has two owners and none is lost,
  free neighbours are joined, the hole chosen is still there when it is cut, compaction is
  enough when it is asked for, and no process sees it.
* *SWAP* (`suspender_proceso`, `desuspender_proceso`, `obtener_n_bloques_libres`). Correct when
  the bitmap marks exactly the blocks in use, and a segment comes back as it left.
* *Contexts and instructions*: kept per process, served one at a time to each CPU.

### What is hard

Interleavings of about four kinds of thread in KS over lists with a mutex each and no global
order; a process moved between lists in several critical sections; semaphores that count lists
they are not updated with; one connection to KM that every thread shares; answers of devices,
quantum and suspension timers that arrive in the middle; devices, CPUs and sticks that
disappear; requests to KM that fail after doing part of their work. `PROJECT.json` lists each
hazard at its line with the properties that cover it, or why none does yet.

## 2. Modules

| Module | Models | Files |
|---|---|---|
| `KernelMemory` | holes, segment tables, sticks, compaction, SWAP, the bytes themselves | `utils.c`, `kernel_memory/src/server.c`, and the requests of `server.c` and `cliente.c` |
| `MemoriaAbstracta` | what KM promises to processes: a private list of segments | (abstract specification) |
| `ColaIO` | queues, semaphores, device threads, device failures, suspension of blocked processes | `server.c` |
| `ServicioIO` | what the queues of IO promise: a request is carried out by one device, once | (abstract specification) |
| `Planificador` | READY, RUNNING, dispatch, eviction, quantum, affinity, compaction handshake, CPUs that die | `server.c`, `utilsKS.c`, `cliente.c` |
| `Instrucciones` | the instruction set: what each does to the registers and their widths | `cliente.c` |
| `CPU` | the instruction cycle of several CPUs, MMU, accesses piece by piece, contexts, and the part of KM and KS they talk to | `cliente.c`, `utils.c`, `server.c` |
| `MaquinaIdeal` | what the CPUs promise: each script on a machine of its own | (abstract specification) |
| `MedianoPlazo` | states of a process, timers of suspension, rounds of `nuevo_espacio`, where KM has the segments | `server.c`, `utilsKS.c` |
| `MutexKS` | mutexes, hand-off, priority inheritance, over `MedianoPlazo` | `server.c`, `utilsKS.c` |
| `Cerrojo` | what the mutexes promise: one inside, the others in order | (abstract specification) |
| `KernelMemory_proofs`, `ColaIO_proofs`, `Planificador_proofs`, `CPU_proofs`, `MutexKS_proofs` | lemmas and theorems about the module of that name | |
| `KernelMemoryEspacio_proofs` | more theorems about `KernelMemory`: no space is lost; it implements `MemoriaAbstracta` | |
| `CPUMemoria_proofs` | more theorems about `CPU`: types, the space of the segments, where accesses lie | |
| `Exclusion_proofs` | `MutexKS` implements `Cerrojo` | |
| `MCKernelMemory`, `MCColaIO`, `MCPlanificador`, `MCCPU`, `MCMutexKS` | values of the constants for TLC | |

`MutexKS` EXTENDS `MedianoPlazo`, so that the two components run together: a process that waits for
a mutex may be suspended, and so may its owner. `CPU` EXTENDS `Instrucciones`, which `MaquinaIdeal` uses
too: both give an instruction the same meaning, and differ in where the registers and the bytes are.
The other modules meet at their boundaries: what one leaves to another is named in its head.

### KernelMemory

One thread of KM serves KS (`hilo`: where it is and what it was asked), so requests of KS never
overlap. They overlap with the thread of each stick that connects, which takes one mutex to
register the memory (`ConexionMemoryStick`) and another, later, to add the hole
(`AgregarHuecoStick`), and with the CPUs, which write to the sticks directly (`EscribirCPU`).
`creacion_segmento` is four steps, as it takes the mutex of the holes three times:
`PedirSegmento`, `MedirEspacio` or not, `Compactar` and `ReelegirHueco`, `CrearSegmento`.
Suspension, its opposite and the end of a process are loops over segments, one step per
iteration. The list of holes is sorted after every change, so it is a set; sizes are bytes and
the contents of the bytes are kept, since moving them is where compaction can go wrong.
`estado` is what KS believes of each process, moved by the answers of KM.

The memory is sound under two hypotheses that the code does not enforce, `SpecOrdenada`:

1. sticks connect one at a time, and none is between its two critical sections while memory is
   compacted;
2. a process does not run while one of its segments is in SWAP.

Without (1) a stick that connects while memory is compacted has its bytes counted as free twice.
Without (2) a CPU would write at an address that is no longer the process's. The second is what
a partial suspension breaks: run `SuspensionParcial`, which uses `Spec` without hypotheses.

The refinement: `MemoriaPrivada` maps each segment to its number and its bytes, wherever they
are, and says the result is a behaviour of `MemoriaAbstracta`, where only a process's own
requests and writes change what it sees, and nothing writes for a process while it is moved.

### ColaIO

A syscall is three steps: block the process, queue the job, post the semaphore of its class
(`Bloquear`, `AgregarABlock`/`Encolar`, `Postear`). A device's thread takes a token, then a job,
then gives it to the device (`TomarFicha`, `TomarTrabajo`, `EntregarTrabajo`), and gives the token
back when there is no job for it. The answer looks the process up in the lists and makes it ready
(`Responder`, `EncontrarPcb` or `NoEncontrarPcb`, `MedianoPlazoRdy`), and frees the device
(`LiberarIO`). `Caida`, `Desconexion`, `QuitarIO` are a device that dies, the thread that notices it
and its requeue. `Suspender`, `AgregarDeSuspension`, `RespuestaSuspension`, `Deshacer` are the timer
of suspension: between the first two the process is in no list.

`ServicioUnico` is the refinement of `ServicioIO`: a process waits for the class it asked, a device works
for it from the moment it is given the job until it answers, and nothing else moves either; jobs
that go back to the queue, tokens and suspensions are not seen.

`SpecOrdenada` adds two hypotheses: no answer falls while its process is between two lists, and a
device dies only without a job. Dropping the second gives `ColaIOCaida`, dropping the first
`ColaIOVentana`.

### Planificador

`hilo[c]` is the thread of CPU `c` in KS: it waits for a request, for a token of
`sem_hay_ready`, for `sem_compactacion`, dispatches, or serves a syscall or a DESALOJO; `cpu[c]` is
what the CPU does: it executes, asks whether it must leave its process, or is free.
`MandarProceso` chooses and takes out of READY, `Despachar` exchanges the context with KM and puts
the process in RUNNING; `Desalojo`, `VolverAReady` and `Eliminar` are the eviction, in which the
code adds to the new list before it removes from the old one. After every request the thread also
asks KM for MEM_CORRUPT under `mutex_conexion_km` (`ConsultarKM`); `mem_alloc` keeps that mutex
while `compactacion` waits for RUNNING to be empty but for the caller. Semaphores and condition
variables are guards; what a process does next is any syscall of its program.

A CPU may die at any point (`Caida`). Its thread serves what it had asked, and finds out at its next
read (`Desconectar`, which is `gestionar_desconexion_cpu`): reservations of that CPU, the mark and the timer of
its process are undone, and the process goes back to READY unless it waits for a device or another CPU has
it (`cpu.propio` is `pcb->fd_cpu == cpu->fd`). A CPU that dies idle is dispatched to like any other, since
`enviar_pid` always answers 1 and the branch for its failure in `mandar_proceso_cpu` is never
taken; the process comes back when the thread reads.

A quantum timer looks whether its process still runs its turn (`VencerQuantum`) and marks it in another step
(`MarcarVencido`), so that the mark may reach a process that has left its CPU, or a later turn of it.

Three windows of the code are closed in `SpecOrdenada`: a process is not dispatched while its
eviction has not removed it from its old list (otherwise the removal takes out the new entry); an IO ends after
the CPU has left its process; and a CPU does not die between the answer to its DESALOJO and its OK
(`PerderOk`: the code then leaves the process in RUNNING with no CPU, which `Spec` reaches).
`FinIOTemprano` uses `Spec` and shows the second window. `SpecTurno` adds fairness and starts
a compaction only when every other CPU can leave its process without asking KM first;
`CompactacionTrabada` drops that and deadlocks. To bound the state space of a liveness check, `SpecTurno` has one timer at a
time between its look and its mark, and the mark comes before its process is dispatched again
(`VencerTurno`, `MandarTurno`); `SpecOrdenada` and the theorems about it do not ask for that.

### Instrucciones, CPU and MaquinaIdeal

A CPU copies the context of a process from KM (`RecibirContexto`), runs one instruction at a time from its
copy, asks after each whether it must leave (`Interrupt`), saves the registers (`GuardarContexto`) and tells
KS (`Avisar`). `cpu[c].fase` is where it is. Memory is read and written through the copy of the segment table
(`Mmu`), straight to the sticks, in as many steps as sticks the access crosses (`LeerPieza`,
`EscribirPieza`), while KM serves others. `EjecutarMemAlloc`, `TomarCompactacion`, `Compactar` and `EjecutarMemFree` change
the table in KM and in the copy; `EscribirStdin` and `LeerStdout` are KM's own accesses for a device;
`ConectarStick` and `RecibirNuevaMemoryStick` a stick that connects while the CPUs work. Who is READY next, and
which hole is taken, are any: they are the business of `Planificador` and `KernelMemory`.

`MaquinaIdeal` is a script alone: registers, a list of segments with their bytes, what it asked of a device and
what it printed; no CPUs, no addresses. `CadaScriptSolo` maps to it the copy in a CPU if there is one and the
context in KM if not; an access that has begun to write counts as done, because its PC++ and its
remaining bytes are already decided. It fails if any step of one process, of a compaction or of an
eviction shows in another, or if an instruction is repeated or skipped.

The code breaks that promise at a few points, which the model takes as they are: the step puts the
script in `perdidos`, and nothing is promised to it from then on. They are: a translation equal to
`ERROR_SEGMENTATION_FAULT` (13, also a legal address) is taken for an error; an access to a stick of
which this CPU has not heard is dropped, as the notice goes to one CPU only; a request of STDIN or
STDOUT across two sticks is refused, and for STDOUT the refusal is read as data, after which the socket to KM is
no longer in step (`canal_sano`). COPY_MEM looks at neither of its translations: KS is told of each one the MMU refused and
ends the process once for each (`avisos`, `Finalizar`), while the CPU goes on and reads from or writes to address 13;
whoever has bytes where it writes, or in the old place of a segment its process has lost meanwhile, loses them and is in
`perdidos` too (`Victimas`). What the run shows is that there is no other. `AccesoPropio` says of every access where it may
be: in a segment of its process and in nobody else's, or, for a COPY_MEM that was refused, among as many bytes as it copies from address 13
on, or in a segment its process had when it was refused.

Hypotheses: a blocked process is woken after its CPU has left it (`FinIOTemprano` is the other case), and
`TAM_MAX_SEGMENTO` of the CPUs equals `SEGMENT_MAX_SIZE` of KM. Both
are 128 in the repository's files but `kernel_memory/pcp_km.config`, where KM's is 256: with that one, a
CPU and KM take the same logical address for different segments.

### MedianoPlazo

`pcb[p]` has the state, the priority and `block_version`; `niveles`, `rnn` and `s_rdy` are the lists;
`residente` is where KM has the segments. A thread `mediano_plazo_bck` is a record of `hilos`, and goes
through `ArrancarTimer`, `VencerTimer` (suspends, if the wait is still the same), `AvisarSuspension`
(SUSPENDIDO, to KM) and, if KM has no room, `DeshacerSuspension`. A thread that runs `nuevo_espacio` is an
element of `rondas`: it chooses the best of those it has not tried (`ElegirSuspendido`), asks KM
(`HayEspacio`, `NoHayEspacio`), takes the process out of the list, unless another round did
(`QuitarSuspendido`), and makes it READY (`Desuspender`). `MedianoPlazoRdy` is the wake-up; when a device answers, its
thread first resets `esperando_io` (`FinIO`) and then wakes the process (`DespertarDeIO`). `AgregarALista` and
`EliminarDeLista` are `agregar_proceso_lista` and `eliminar_proceso_Lista`: they go by the state the process has, and had, by
the time they are called, which is not always the one the caller gave it.

### MutexKS

`hilo[p]` is what the CPU of `p` and its thread are doing. Only the part of a handler under `mutex_simulados`, or
`mutex_transiciones`, is one step. `mutex_lock` of a taken mutex is five: joining the queue (`LockTomado`), the change of state
(`Bloquear`), the new list (`Agregar`), the old one (`Eliminar`) and the mark (`MarcarAlTerminar`). `mutex_unlock` with somebody
waiting is three: the hand-off (`UnlockTraspaso`), the wake-up (`Despertar`) and the mark. `desalojo` is five too: the answer
(`Interrupt`), the OK of the CPU and the look at the state (`OkDesalojo`), the change of it (`Volver`), and the two lists
(`Agregar`, `Eliminar`). The refusals of the code are actions: a lock of a mutex that does not exist lets the script go on
(`LockInexistente`), as the CPU only logs it; an unlock by another does nothing (`UnlockAjeno`). Inheritance is
`actualizar_herencia`, over one queue, and moves the owner to another queue of READY if it is there.

`SpecJusta` takes hypotheses on time:

1. nobody dispatches a process that a CPU still has (`Despachar`, also in `Spec`);
2. a round does not choose a process whose SUSPENDIDO, or its rollback, is on its way
   (`ElegirOrdenado`), and no round holds a process when its timer fires (`VencerOrdenado`);
3. a process leaves its CPU within `tiempo_suspension` (`PlazoOrdenado`);
4. who is given a mutex, or has ended its IO, is woken before it is dispatched again (`DespachoOrdenado`);
5. a wake-up does not fall between the change of state of its process and the end of the two changes of list that
   follow in `mutex_lock`, nor between the look of `desalojo` that finds it blocked without reason and the change of its state
   (`EnTransito`, `DespertarOrdenado`).

The second and the third are about a thread that stays still for longer than `tiempo_suspension` or the two
seconds of a round. `Spec` has only the first, and there `ResidenciaAcordada` is false: KM takes to SWAP a process
that runs, although the comment at `server.c:820` says the check under the mutex closes that race.

The fourth came from the proof. `mutex_unlock` releases `mutex_simulados` before it wakes the new owner
(`server.c:2386-2392`). If the new owner had not left its CPU yet, the query DESALOJO may put it in READY first;
dispatched again, it may lock another mutex and block before the wake-up arrives, which then takes it out of
that wait while it is still in the queue. `EsperaSinPerderse` was not inductive without excluding that.

The fifth is a race of the code that `mutex_transiciones` does not close, because only the medium-term scheduler takes it.
In `mutex_lock` (`server.c:2312-2314`), a wake-up after the change to BLOCK makes the process READY and adds it; the caller then
adds it to READY again, and takes it out of the list of its previous state, BLOCK, so that it stays in RUNNING too. In `desalojo`
(`server.c:1113-1141`), a wake-up after the look makes the process READY, and the thread adds it once more. `Spec` reaches both,
and `ListasExactas` is false there. What the run and the theorems say of `ListasExactas`, `EsperaSinPerderse` and `EsperaTermina` is
that this is the *only* place where a hand-off or a wake-up does harm: the hand-off itself may come at any point of either
handler, and the wake-up at any other, before the change to BLOCK and between the query and the OK included.

The models do not have one more case: `mutex_unlock` looks its new owner up in the lists (`server.c:2375`), and while
`mediano_plazo_bck` has it between two of them it finds nobody, frees the mutex and forgets who was waiting.

## 3. Runs

| Run | Instance | Shows |
|---|---|---|
| `KernelMemory` | 2 processes, 2 sticks of 3 bytes, SWAP of 2 blocks of 2, sizes 1, 3 and 4, BEST; 215 k states | types, no overlap, no leak, exact SWAP, joined holes, the chosen hole is still there, compaction is enough, requests end or wait for their compaction |
| `MemoriaPrivada` | 2 processes, sticks of 2 and 1 bytes, SWAP of 2 blocks of 1, 2 values, WORST; 391 k states | the allocator implements `MemoriaAbstracta` |
| `SuspensionParcial` | as `KernelMemory`, with sticks of 3 and 2 bytes, sizes 1-4 and `Spec` | *violation* of `ResidenteEnRam` |
| `ColaIO` | 2 processes, 2 SLEEP devices (one may die), 1 STDOUT; 192 k states | types, tokens, one job in one place, devices in use work, every wait ends; the queues implement `ServicioIO` |
| `ColaIOCaida` | 2 devices, one may die with a job | *violation* of `TodoTrabajoTermina` |
| `ColaIOVentana` | 2 devices that do not die, one suspension | *violation* of `IoOcupadaTrabaja` |
| `Planificador` | 3 processes, 2 CPUs, one of which may die, 2 levels, FIFO and CMN with preemption, with symmetry; 1.3 M states | types, one CPU per process and none lost, exact lists, tokens, reservations, quiet compaction |
| `TurnoRR` | 2 processes, 2 CPUs, one of which may die, RR; 208 k states | READY processes run, compactions end |
| `CPU` | 2 CPUs, 2 scripts, sticks of 4, 1 and 3 bytes, the last connecting later; bytes of 4 values, words of 2 bytes; with symmetry; 371 k states | registers keep their width, copies of the table are good when used, accesses stay in their segment, or where a refused COPY_MEM may go, one CPU per process; the CPUs implement `MaquinaIdeal` |
| `MutexKS` | 3 processes of 3 priorities, 3 sets of scripts, 2 CPUs, 2 rounds; 59 k states, deadlock checked | types, exact lists, KM and KS agree, nobody lost in a queue, inheritance; the mutexes implement `Cerrojo`; every wait ends |
| `FinIOTemprano` | 2 processes, 2 CPUs, RR | *violation* of `EjecucionUnica` |
| `CompactacionTrabada` | 2 processes, 2 CPUs, RR, fairness | *violation* of `CompactacionTermina` |

Each violation contradicts a comment or a message of the code, quoted in `PROJECT.json`:

* a suspension for which SWAP is too small leaves the segments it has moved in SWAP, and KS's
  rollback takes the process for resident (`utils.c:1277`, `server.c:860`);
* the job of a device that died is requeued without `sem_post` (`server.c:3168`, against
  `server.c:1308`), so it waits for ever unless another job arrives;
* `rta_io_sleep` returns before it frees the device when it does not find the process
  (`server.c:2730`, against the comment at `server.c:2998`);
* an IO that ends before the CPU asked for DESALOJO makes a running process READY
  (`server.c:2735`, against `server.c:1117`);
* the thread of a CPU waits for `mutex_conexion_km`, which the compaction that waits for that CPU
  holds (`server.c:186`).

Other places where a comment or a message says what the code does not do; the models take the code, and
no run is spent on them:

* `server.c:851` logs that a refused suspension will be tried again ("Se reintentará más adelante"); no
  thread does (`DeshacerSuspension`);
* the comment at `server.c:2409` says that the caller of `mutex_unlock` is neither blocked nor evicted, three lines
  before it is marked for eviction (`MarcarAlTerminar`);
* a MUTEX_LOCK refused because the mutex does not exist is logged by the CPU (`cliente.c:1030`) and the
  script goes into its section (`LockInexistente`);
* a process that waits for a mutex is never given a suspension timer, unlike one that waits for a device;
* a MEM_ALLOC larger than `SEGMENT_MAX_SIZE` is tried for ever, as the CPU cannot tell it from a lack of room;
* `COPY_MEM` looks at neither of its translations (`cliente.c:978`), ends its process twice if both were refused, and waits
  for ever if what it should read is in no stick it knows.

### Bounds, and why they are enough

* Two sticks: the second connects during an allocation, a compaction or a suspension of the first.
  Six bytes and two processes give holes on both sides of a segment, a free interval joined to
  both, a compaction that moves, and one that moves nothing. `SEGMENT_MAX_SIZE` is 3 and one
  size is 4, so the refused size is tried. With two blocks of SWAP the second segment of a suspension
  may not fit. `MaxSegmentos` = 2 is the shortest list with an order.
* `MemoriaPrivada` needs values, so it has fewer bytes; a stick of two and one of one gives
  segments that lie across the two, and blocks of one byte give segments of several blocks.
* One segment number (`Ids`) is enough for `eliminar_segmento` to have to choose the first of two.
* Two devices of a class compete for one token, a third has another class; one process makes two
  requests, so a job of an earlier request can be confused with a later one; `Lentos` says whose IO
  outlasts `SUSPENSION_TIMEOUT`.
* Two CPUs are the least with which a process can be on two; three processes keep READY non-empty
  while both CPUs work. Each process is created once, so behaviours are finite up to cycles of
  scheduling. Symmetry (two processes of equal priority, and the CPUs) is used only in runs
  without liveness; in `MemoriaPrivada` and in `CPU` the property is a safety one. RR differs from the other
  two in the quantum and in the affinity of a CPU, and has `TurnoRR`; the theorems are about the three. `MaxCaidas` is 1: with one
  of two CPUs dead the other takes over all its work, and with both nothing moves.
* `CPU`: a word of two bytes may lie across the sticks of 4 and 1; the second script frees and asks for more,
  which needs a compaction when the segment of the first lies in the middle; the third stick makes room
  that one CPU knows of and the other may not; the first script ends with an access past its segment. The second copies as many
  bytes as its input says: its COPY_MEM is legal, or refused for one address, or for both. The address 3 stands for 13, and may be in
  the segment of the other script or in its own. Bytes of four values are enough for sums and differences to wrap.
* `MutexKS`: in the first set of scripts both others wait for an owner that waits for a device and may
  be suspended, and a mutex that nobody creates is locked; in the second one script holds two mutexes, another wants one and then
  the other, and the third gives back what is not its own; in the third a process that waits for the mutex has waited for a device
  before, so that its old timer is still there. They release what they took and lock in no cyclic order, as `EsperaTermina` needs: an owner
  that ends keeps its mutex (`Exit`), and the code has no detection of deadlock. Two rounds are the least that can
  choose the same process.
* `CHECK_DEADLOCK FALSE`, in all but `MutexKS`: the system stops legitimately when no process asks for
  anything more or all have ended. `MutexKS` checks deadlock, with `Terminado` for the end of all scripts.

### Fairness, and why the code justifies it

* `KernelMemory`: the thread that serves KS goes on with its request, and the thread of a stick
  with its connection (`WF`): they are POSIX threads that take mutexes held for bounded sections. The compaction has no
  fairness: its thread waits in `recv` for KS to empty the CPUs (`utils.c:907`), and `CompactacionTrabada` shows that the answer may
  never come. `PedidoTermina` therefore says that a request ends, or stays for ever in the compaction it asked for.
* `ColaIO`: threads go on and devices finish their work (`WF`); a token is eventually taken by
  *some* thread of its class, not by each of them. No fairness on syscalls, timers or failures.
* `Planificador`: threads, CPUs, quantum timers and the wake-up after an IO go on (`WF`). Waits for
  a token, a semaphore or `mutex_conexion_km` have strong fairness, because a thread that finds
  nothing to dispatch sleeps 5 ms before it tries again (`usleep(5000)`), and the others get in.
  No fairness on syscalls, and so none on IO: a process may run for ever, which under RR the
  quantum ends. `ListoCorre` is therefore stated of RR only, and up to the next compaction: a
  process evicted by one is put at the front of READY, and compactions that never stop starve the rest. No
  fairness on `Caida`: a CPU may never die.
* `MutexKS`: CPUs, devices and the threads that serve them go on, as do timers and rounds (`WF` of each of the three kinds: scripts end,
  so that fairness to all of a kind together is enough), and KM has room now and again for each process that is
  asked for (`SF` on `HayEspacio` of each), since what frees memory is not in this module. None on
  the end of a quantum. A free CPU takes the head of READY, and a wake-up comes, as soon as the thread they have to
  wait for has gone on (`DespachoOrdenado` and `DespertarOrdenado` are in `PasoDeHilos`), and the timer fires or finds another
  wait (`PlazoOrdenado`).

## 4. Proofs

Every module named `X_proofs` proves its theorems for every value of the constants of `X`, from the assumption
`X` makes of them alone; those about `KernelMemory` are in three modules and those about `MutexKS` in two (`Exclusion_proofs` is the second), each over the one before. In each component, `Invariante` says that an inductive invariant `IInv` always holds, and the other
theorems follow from it:

| Theorems | State | Under |
|---|---|---|
| `KernelMemory_proofs`: `TiposCorrectos`, `MemoriaSinSolapamiento`, `HuecoElegidoVigente` | `TypeOK`, `SinSolapamiento`, `HuecoVigente` | `SpecOrdenada` |
| `KernelMemoryEspacio_proofs`: `HuecosSiempreUnidos`, `NingunByteSePierde`, `BitmapSiempreExacto`, `CompactacionSiempreAlcanza` | `HuecosConsolidados`, `SinFugas`, `SwapExacto`, `CompactarAlcanza` | `SpecOrdenada` |
| `KernelMemoryEspacio_proofs`: `ImplementaMemoria` | `MemoriaPrivada`: KM implements `MemoriaAbstracta` | `SpecOrdenada` |
| `ColaIO_proofs`: `TiposCorrectos`, `FichasSiempreJustas`, `IoOcupadaSoloSiTrabaja`, `CadaTrabajoUnico` | `TypeOK`, `FichasJustas`, `IoOcupadaTrabaja`, `TrabajoUnico` | `SpecOrdenada` |
| `ColaIO_proofs`: `ImplementaServicio` | `ServicioUnico`: the queues implement `ServicioIO` | `SpecOrdenada` |
| `Planificador_proofs`: `TiposCorrectos`, `UnaCpuSiempre`, `ListasSiempreExactas`, `FichasSiempreReady`, `ReservaSiempreVigente`, `CompactacionSiempreQuieta` | `TypeOK`, `UnaSolaCpu`, `ListasExactas`, `FichasReady`, `ReservaVigente`, `CompactacionQuieta` | `SpecOrdenada` |
| `CPU_proofs`: `TablaSiempreVigente`, `UnaSolaCpuPorProceso` | `TablaVigente`, `UnaCpuPorProceso` | `Spec` |
| `CPUMemoria_proofs`: `TiposCorrectos` | `TypeOK` | `Spec` |
| `CPUMemoria_proofs`: `MemoriaSiempreRepartida` | segments lie within the sticks, and those of different processes share no byte | `Spec` |
| `CPUMemoria_proofs`: `AccesoSiemprePropio` | `AccesoPropio` | `Spec` and `[]SinDesborde` |
| `MutexKS_proofs`: `TiposCorrectos`, `ListasSiempreExactas`, `ResidenciaSiempreAcordada`, `EsperaSiempreBien`, `HerenciaSiempreJusta` | `TypeOK`, `ListasExactas`, `ResidenciaAcordada`, `EsperaSinPerderse`, `HerenciaJusta` | `SpecJusta` |
| `Exclusion_proofs`: `SeccionesSiempreBien`, `ImplementaCerrojo` | `Exclusion`: the mutexes implement `Cerrojo` | `SpecJusta` and `[]Disciplina` |

The specification is the one the run of that module checks, with the hypotheses section 2 gives for it.
The theorems do not need fairness.

### KernelMemory

`SinSolapamiento` is not inductive. `IInv` adds:

* `TypeOK`, `Acotada` (the length of the tables) and `HiloBien` (what the thread remembers at each
  step: its process has a context, its segment an index);
* `MemoriaSana`: holes and segments in RAM are disjoint *and* below the registered memory. Without the
  bound, the hole of a new stick could overlap something;
* `SticksSanos`: the interval of a stick between its two critical sections is apart from every hole
  and every segment, and is the end of the memory. This is where hypothesis 1 is used;
* `EnBloques`: a segment in SWAP lies within the blocks;
* `HuecoVigente`: the hole chosen is still there. Adding the hole of a stick can join it with the
  chosen one, but only at its end, so the base stays.

`LiberarEspacioLema` says that joining a freed interval with its neighbours keeps the
holes disjoint and apart from what was apart from both; `RecortarLema` the same of cutting.
`LiberarSano` and `OcuparSano` lift them to tables, so that every action that frees or takes
memory (delete, end, to SWAP; create, from SWAP) is one of the two. `CompactarSano` shows
that the new base of a segment, the number of cells of the segments before it, makes intervals
that are disjoint and end at `FinCompactado`, where the only hole begins; it counts cells with
`CeldasLema` and `NuevaBaseLema`, which stand for an induction over the segments. `PasoIInv` has one
case per action.

`Espacio` is a second invariant over `IInv`, about what is *not* lost. `Consolidados` says that no hole ends where
another begins; `Cubierta`, that every byte of the sticks has an owner; `BloquesBien`, that the bitmap is
the union of the blocks of the segments in SWAP, which are disjoint; `Alcanza`, that what was measured before a
compaction is still free, and after it is in one hole. `LiberarEspacioUne` and `RecortarUne` are what joining
and cutting do to the first two. The sums of sizes that `Alcanza` compares are never added up: `LibresCaben`
maps the bytes of the segments one to one into the addresses no hole has, so that both sets fit in memory; and in a
compaction `CompactadosLlenan` takes a byte below `FinCompactado` to the segment that now has it, because a
one-to-one map between finite sets of the same size is onto.

`ImplementaMemoria` is the step simulation of `MemoriaAbstracta`. It needs one more invariant, `Acuerdo`: KM has a context
of exactly the processes that KS believes alive, a process not yet created has no segments, and the
request being served suits the state of its process. A request to allocate, free, end or write is the step of that
name (`CrearSegmentoVista`, `EliminarVista`, `FinalizacionVista`, `EscribirCPUVista`, `EscrituraMemoriaVista`);
everything else leaves the view alone, and three steps of those are not obvious. A compaction copies each byte from
its own segment (`CompactarVista`: only one segment has the new address). A segment sent to SWAP gets blocks that
are nobody's, which `BloquesBien` gives, and a segment that comes back gets bytes of a hole, which `MemoriaSana` gives
(`MoverVista`, `RestaurarVista`). Of a write, `BytesAparte` says no other segment has the byte, in the sticks or in SWAP; for a
CPU that is so because of hypothesis 2: a segment in SWAP keeps its old base, where another may be by now.

### ColaIO

A process has a *place* while it waits: its job is in one queue, in the hand of one thread or in one device.
`LugaresDistintos` says no process has two, `LugarSiEspera` that it has one exactly while it waits and its
syscall has ended, `ClasePedida` that it is where a device of its class will look, and `PasoDelHilo` ties the step of
each thread to what its device does and to what its entry in the list of devices says. `FichasJustas`, an
equation between tokens and jobs, is inductive once `PasoDelHilo` says which threads have a token in hand;
`FichaDeMas`, `FichaDeMenos` and `FichaConTrabajo` are the arithmetic of one token that changes hands.
`TrabajoUnico` counts the places, and is what `LugaresDistintos` says, counted (`LugaresDeUno`).

`ImplementaServicio` is the step simulation: `PasoRefina` takes each action to a step of `ServicioIO` (blocking asks,
giving the job to the device begins the service, making READY answers) or to a stutter (tokens, requeues,
suspensions, failures). It needs `IInv` to know that the device that answers worked for that process.

### Planificador

`Semaforos` says which threads hold `sem_compactacion` and `mutex_conexion_km`; `Duenios`, that a process belongs to one
CPU or to the thread of one, and what each step of a thread says of it; `Listas`, what is in READY
and RUNNING and that nothing is twice; `Fichas`, the equation of `sem_hay_ready`; `Reservas`, what a reservation
that is still there needs; `Quieta`, that nobody executes while memory is compacted. The properties follow by counting
(`VecesDeUna`, `VecesDeReady`). `FichasReady` is the reason for `Listas`: a token is lost or forged exactly when a
process enters or leaves READY twice.

### CPU

`SegunFase` says, for each phase of the cycle, what the scheduler thinks of the process of that CPU and whether its
copy of the table is in use; then it equals that of KM. The argument is that no action changes the table of a
process in KM but the CPU that has it (`UnDuenio`) or a compaction, which happens when no other copy is in use
(`RunningConCpu`).

Three more parts (`CPUMemoria_proofs`) stand on it:

* `Tipos`, for `TypeOK`: the types, phase by phase. In an access under way, what has been read and what is missing
  make up the operand of the instruction (`CpuBien`), which is why a value that comes from memory fits its register.
  The widths are powers, which no backend computes, and the value of some bytes is a recursive function. Both are
  reached from the definition: `Recursion` shows, from the well-foundedness of `<` over sets of numbers, that a
  function given by a value at 0 and a step exists, so that the one the module chooses has those values
  (`PotenciaValores`, `ValorDeBien`, `BaseStickValores`).
* `Espacio`: segments lie within the sticks that have answered (`EnMemoria`), those of two processes are apart
  (`Separados`), and a process that waits for a compaction asked for no more than is free (`HayLugar`). A compaction
  puts each segment after as many bytes as were taken below it, and `CuantasIntervalo` and `CuantasLlena`, which
  count cells, say why the new places are apart and end where the free memory begins (`MovidasBien`).
* `AccesoBien`, for `AccesoPropio`: what an access has still to do is within a segment of the copy of the CPU (`EnSegmento`), and so
  will be the second half of a COPY_MEM (`EsDestino`); after a refusal it is within the bytes that follow address 13, as many as
  the instruction copies (`EnLugar`). From there, `TablaVigente` and `Espacio` give the property.

`SinDesborde` is the hypothesis of the last. `pedir_direccion_mmu` adds an offset and a size in 32 bits and compares the sum with
the bound of the segment: a size of nearly 2^32 in a COPY_MEM would pass, and the access would leave its segment. The
hypothesis says that the largest segment and what one instruction touches add up to 2^32 at most. The
configurations of the repository have segments of 128 or 256 bytes and none of its scripts uses COPY_MEM; in the run `CPU`
the sum is at most 4 + 5, where a register has 16 values, so that every state satisfies it. The rest needs no
hypothesis. `NadieAssumption` says that `Nadie` is not a context.

### MutexKS and MedianoPlazo

The two components run together, and the invariant has a part for each concern:

* `Nacen`: who has not been created is in no list, and its INIT_PROC is still ahead of somebody;
* `Cpus`: who runs is in a CPU, and which state each point of a handler finds (`EnSuCpu`); who reaches the query DESALOJO
  without running has been marked;
* `Colas`: a mutex is taken or nobody waits for it, and nobody waits for two;
* `Esperas`: `esperando_io` is true exactly of those in a device or in a queue; whoever is blocked with neither, and
  out of its CPU, is about to be woken, by the thread of a mutex or of a device that is still there (`PorDespertar`);
* `Listas`: the lists as sets. They agree with the states up to the calls a thread has still to make: who is between a change of
  state and the list it goes to, or the one it leaves (`EnReady`, `EnRunning`), and the processes that a round has taken out of
  SUSPENDED READY and not yet made READY;
* `Plazos`: one thread at most suspends a process, and then its segments are still in RAM (`HilosBien`); a round never
  holds a process that is being suspended (`RondaBien`); whoever is neither suspended nor ended has its
  segments in RAM (`EnRam`);
* `HerenciaJusta`, which is inductive by itself once `Colas` is known.

The lemmas `...Siguen`, `...Entra`, `...Sale` say what a step leaves of one part from what it changes, so that the lemma of each
action, `Paso...`, is about the parts it disturbs. The hardest are the calls of `mutex_lock` and of `desalojo` and the hand-off, where
the priority of an owner changes while it is in READY (`NivelesReencola`). `Despierta` is the wake-up, shared by devices
and mutexes. The proof found the fourth hypothesis on time, which the bounded run had not: the scripts of
`MCMutexKS` now include a set in which a late wake-up would do harm.

`ImplementaCerrojo` is about what the scripts see. It has a hypothesis on them, `Disciplina`: whoever carries out a MUTEX_LOCK
finds the mutex created and does not own it. Without the first half the code answers with an error the CPU only logs, and
the script goes on as if it were inside; without the second the process waits for itself. Nothing is asked of MUTEX_UNLOCK:
one by who is not the owner changes no mutex. The first set of scripts of `MCMutexKS` does not satisfy it, for a mutex that nobody
creates; the other two do. `Secciones` is the invariant: a process has passed its MUTEX_LOCK of a mutex and not
its MUTEX_UNLOCK exactly when it owns it or is in its queue, and not both. `PideDespues` is what one
instruction does to the first half, and `CerrojoEntra`, `CerrojoEspera` and `CerrojoSale` are the three steps of
`Cerrojo`; the hand-off is one of them, although the code wakes the new owner later, because the
mutex is never without owner in between.

### What only TLC checks

* Liveness (`TodoTrabajoTermina`, `ListoCorre`, `CompactacionTermina`, `EsperaTermina`, that requests to KM end or wait for their compaction): fairness and `ENABLED` are
  outside the reach of the prover.
* The refinement `CadaScriptSolo`: it follows the values of registers and bytes through recursive functions (`ValorDe`).
* What `CadaScriptSolo` needs of `EnBytes` and `ValorDe`, that one undoes the other. The library's induction theorems have
  an operator as parameter, which the installed provers cannot instantiate; the induction of `CPUMemoria_proofs` is on sets of
  numbers and serves for bounds. No module here declares a recursive operator.

## 5. Not modelled, and why

* Sockets, packets, handshakes, logging, configuration files, Makefiles, the mock, the script that
  changes addresses: pure I/O or build. Connections are reliable and ordered, one question and one
  answer at a time, so an exchange is one step of the thread that has the connection.
* MEM_CORRUPT and the end of the system when a stick falls. `mem_corrupt` waits for RUNNING to be empty in the
  thread of a CPU whose process is in RUNNING, and `mandar_proceso_cpu` does not look at
  `mem_corrupt_value`, so the end it aims at is reached only if the thread that hears of the fall has just lost its process.
* The text of instructions and its parsing; NEW and EXIT as lists; the choice of a process by the long term, which
  admits whatever KM admits.
* CPUs that connect while the scheduler runs, except in `CPU`; CPUs that die, except in `Planificador`. A
  process whose CPU died runs again from the context last saved, and repeats what it did since: `MaquinaIdeal` would
  not promise anything to it.
* Invalid priorities and segments of size zero: no script or configuration of the repository asks for them.
* Unbounded growth of lists and memory exhaustion of the C processes.

## 6. Plan

Done: `KernelMemory`, `MemoriaAbstracta`; `ColaIO`, `ServicioIO`; `Planificador`, with CPUs that die; `CPU`, `MaquinaIdeal`;
`MedianoPlazo`, `MutexKS`, `Cerrojo`; the theorems of section 4. Left, in order of importance:

1. The life cycle of a process as an abstract specification, refined by `Planificador`.
2. MEM_CORRUPT, with the fall of a stick in `KernelMemory`.

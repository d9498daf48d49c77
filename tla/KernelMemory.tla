---------------------------- MODULE KernelMemory ----------------------------
(***************************************************************************)
(* The allocator of Kernel Memory (kernel_memory/src/utils.c): the list of  *)
(* free holes, the segment table of every process, compaction, and the     *)
(* move of segments to and from SWAP.                                      *)
(*                                                                         *)
(* Two kinds of thread change this state.  The Kernel Scheduler has ONE    *)
(* connection, so one thread (atender_kernel) serves its requests one      *)
(* after the other: variable hilo is what that thread is doing.  Every     *)
(* Memory Stick that connects is registered by a thread of its own, in two *)
(* critical sections under two different mutexes (conexion_memory_stick).   *)
(* The CPUs write to the sticks directly, at the addresses of the segment  *)
(* table they were sent.                                                    *)
(*                                                                         *)
(* A loop over the segments of a process is one action per iteration.  The *)
(* list of holes is sorted by base after every change, so it is a set.     *)
(***************************************************************************)
EXTENDS Integers, Sequences, FiniteSets

CONSTANTS
    Pids,                 \* processes the Kernel Scheduler may create
    Ids,                  \* segment numbers the scripts use
    Tamanios,             \* sizes the scripts ask for
    Valores,              \* values of a byte
    Sticks,               \* Memory Sticks that may connect
    TamanioStick,         \* size of each stick
    MemoriaMaxima,        \* bound: bytes all sticks may add up to
    SEGMENT_MAX_SIZE,     \* config: largest segment
    ALLOCATION_STRATEGY,  \* config: BEST, WORST, or anything else
    TotalBloques,         \* blocks of SWAP
    BlockSize,            \* bytes of a block of SWAP
    MaxSegmentos,         \* bound: segments of one process
    Nadie                 \* no process

\* Sizes are positive: the scripts never ask for an empty segment.
ASSUME KMAssumption ==
    /\ IsFiniteSet(Pids) /\ Nadie \notin Pids /\ Ids # {}
    /\ Tamanios \subseteq Nat \ {0}
    /\ 0 \in Valores
    /\ TamanioStick \in [Sticks -> Nat \ {0}]
    /\ MemoriaMaxima \in Nat
    /\ SEGMENT_MAX_SIZE \in Nat \ {0}
    /\ TotalBloques \in Nat /\ BlockSize \in Nat \ {0}
    /\ MaxSegmentos \in Nat

VARIABLES
    ms,                     \* registry of sticks: state and base_global of each
    memoria_total_sistema,  \* bytes of all registered sticks
    lista_huecos_libres,    \* set of holes [base, tam]
    tabla_segmentos,        \* per process, its segments in the order of the list
    contextos,              \* processes with a context in lista_contextos
    bitmap_swap,            \* occupied blocks of SWAP
    memoria,                \* the bytes of the sticks, by global address
    swap,                   \* the bytes of SWAP
    hilo,                   \* what the thread that serves the scheduler is doing
    estado                  \* what the scheduler believes of each process

vars == <<ms, memoria_total_sistema, lista_huecos_libres, tabla_segmentos,
          contextos, bitmap_swap, memoria, swap, hilo, estado>>

-----------------------------------------------------------------------------
(* Types *)

Direcciones == 0 .. MemoriaMaxima - 1
BytesSwap   == 0 .. TotalBloques * BlockSize - 1
Bloques     == 0 .. TotalBloques - 1

Hueco == [base : Nat, tam : Nat \ {0}]

Segmento == [id_segmento : Ids, direccion_base : Nat,
             limite : 1 .. SEGMENT_MAX_SIZE,
             en_swap : BOOLEAN, bloque_swap : Nat]

Pasos == {"libre", "elegido", "sin_hueco", "compactar", "reelegir",
          "suspendiendo", "desuspendiendo", "finalizando"}

\* "residente": the scheduler believes the process is in memory (it is ready,
\* running or blocked); "suspendido": suspended, or being suspended.
Estados == {"nuevo", "residente", "suspendido", "terminado"}

TypeOK ==
    /\ ms \in [Sticks -> [estado : {"fuera", "conectando", "lista"}, base : Nat]]
    /\ memoria_total_sistema \in 0 .. MemoriaMaxima
    /\ lista_huecos_libres \subseteq Hueco
    /\ tabla_segmentos \in [Pids -> Seq(Segmento)]
    /\ contextos \subseteq Pids
    /\ bitmap_swap \subseteq Bloques
    /\ memoria \in [Direcciones -> Valores]
    /\ swap \in [BytesSwap -> Valores]
    /\ hilo \in [pc : Pasos, pid : Pids \cup {Nadie}, id : Ids, tam : Nat,
                 base : Nat, i : Nat, exito : BOOLEAN]
    /\ estado \in [Pids -> Estados]

-----------------------------------------------------------------------------
(* Holes, segments and blocks *)

\* The thread between two requests.
Ocioso == [pc |-> "libre", pid |-> Nadie, id |-> CHOOSE x \in Ids : TRUE,
           tam |-> 0, base |-> 0, i |-> 0, exito |-> TRUE]

Libre == hilo.pc = "libre"

Conectando == {m \in Sticks : ms[m].estado = "conectando"}

\* Two intervals of addresses, given by base and size, share no byte.
Disjuntos(b1, t1, b2, t2) == b1 + t1 <= b2 \/ b2 + t2 <= b1

\* Wrong variants of the next operator: the hole on the right is dropped without
\* taking its bytes; the hole on the left is not joined.
LiberarPerdiendoDerecha(huecos, base, tam) ==
    {h \in huecos : h.base # base + tam} \cup {[base |-> base, tam |-> tam]}
LiberarSinIzquierda(huecos, base, tam) ==
    LET der == {h \in huecos : h.base = base + tam}
        fin == IF der = {} THEN base + tam
               ELSE LET d == CHOOSE h \in der : TRUE IN d.base + d.tam
    IN  (huecos \ der) \cup {[base |-> base, tam |-> fin - base]}

\* liberar_espacio_en_huecos: add the hole, sort, and join it with the hole
\* that ends where it begins and the one that begins where it ends.
LiberarEspacio(huecos, base, tam) ==
    LET izq == {h \in huecos : h.base + h.tam = base}
        der == {h \in huecos : h.base = base + tam}
        nueva == IF izq = {} THEN base ELSE (CHOOSE h \in izq : TRUE).base
        fin == IF der = {} THEN base + tam
               ELSE LET d == CHOOSE h \in der : TRUE IN d.base + d.tam
    IN  (huecos \ (izq \cup der)) \cup {[base |-> nueva, tam |-> fin - nueva]}

HuecosValidos(tam) == {h \in lista_huecos_libres : h.tam >= tam}

\* seleccionar_hueco_segun_algoritmo: the holes it may return.  list_sort
\* promises no order among holes of equal size.
HuecosElegibles(tam) ==
    {h \in HuecosValidos(tam) :
        \A g \in HuecosValidos(tam) :
            CASE ALLOCATION_STRATEGY = "BEST"  -> h.tam <= g.tam
              [] ALLOCATION_STRATEGY = "WORST" -> h.tam >= g.tam
              [] OTHER -> h.base <= g.base}

\* Wrong variant: the hole shrinks but its base does not advance.
RecortarSinAvanzar(huecos, h, tam) ==
    (huecos \ {h}) \cup
        (IF h.tam = tam THEN {} ELSE {[base |-> h.base, tam |-> h.tam - tam]})

\* Take tam bytes from the start of hole h; an empty hole leaves the list.
Recortar(huecos, h, tam) ==
    (huecos \ {h}) \cup
        (IF h.tam = tam THEN {} ELSE {[base |-> h.base + tam, tam |-> h.tam - tam]})

\* Wrong variant: the size of memory, for what is free of it.
EspacioTotal == memoria_total_sistema

\* The free bytes, one pair per byte of each hole (calcular_espacio_libre_total
\* adds up the sizes).
EspacioLibreTotal ==
    Cardinality({c \in lista_huecos_libres \X Direcciones : c[2] < c[1].tam})

BloquesNecesarios(limite) == (limite + BlockSize - 1) \div BlockSize

\* Wrong variants: a run of blocks may pass the end of SWAP; only the first block
\* of the run is looked at.
IniciosSinTope(n) == {b \in Bloques : (b .. b + n - 1) \cap bitmap_swap = {}}
IniciosPrimerBloque(n) == {b \in Bloques : b + n <= TotalBloques /\ b \notin bitmap_swap}

\* Where n consecutive free blocks start; first fit takes the lowest.
IniciosLibres(n) ==
    {b \in Bloques : b + n <= TotalBloques /\ (b .. b + n - 1) \cap bitmap_swap = {}}

BloquesDe(seg) == seg.bloque_swap .. seg.bloque_swap + BloquesNecesarios(seg.limite) - 1

\* The segments that are in the sticks, as places <<pid, index>> of the tables.
Lugares == {l \in Pids \X (1 .. MaxSegmentos) : l[2] \in DOMAIN tabla_segmentos[l[1]]}
Seg(l) == tabla_segmentos[l[1]][l[2]]
EnRam == {l \in Lugares : ~Seg(l).en_swap}

\* Position of the first segment of the table with that number.
PrimerIndice(p, id) ==
    {i \in DOMAIN tabla_segmentos[p] :
        /\ tabla_segmentos[p][i].id_segmento = id
        /\ \A j \in 1 .. i - 1 : tabla_segmentos[p][j].id_segmento # id}

QuitarIndice(s, i) == SubSeq(s, 1, i - 1) \o SubSeq(s, i + 1, Len(s))

-----------------------------------------------------------------------------
(* A Memory Stick connects: two critical sections (578-582 and 616). *)

ConexionMemoryStick(m) ==
    /\ ms[m].estado = "fuera"
    /\ memoria_total_sistema + TamanioStick[m] <= MemoriaMaxima
    /\ ms' = [ms EXCEPT ![m] = [estado |-> "conectando", base |-> memoria_total_sistema]]
    /\ memoria_total_sistema' = memoria_total_sistema + TamanioStick[m]
    /\ UNCHANGED <<lista_huecos_libres, tabla_segmentos, contextos, bitmap_swap,
                   memoria, swap, hilo, estado>>

AgregarHuecoStick(m) ==
    /\ ms[m].estado = "conectando"
    /\ ms' = [ms EXCEPT ![m].estado = "lista"]
    /\ lista_huecos_libres' =
           LiberarEspacio(lista_huecos_libres, ms[m].base, TamanioStick[m])
    /\ UNCHANGED <<memoria_total_sistema, tabla_segmentos, contextos, bitmap_swap,
                   memoria, swap, hilo, estado>>

-----------------------------------------------------------------------------
(* ENVIAR_PROCESO and ks_INIT_PROC *)

CrearProceso(p) ==
    /\ Libre
    /\ estado[p] = "nuevo"
    /\ contextos' = contextos \cup {p}
    /\ estado' = [estado EXCEPT ![p] = "residente"]
    /\ UNCHANGED <<ms, memoria_total_sistema, lista_huecos_libres, tabla_segmentos,
                   bitmap_swap, memoria, swap, hilo>>

-----------------------------------------------------------------------------
(* gl_MEM_ALLOC: creacion_segmento chooses a hole, releases the mutex, and  *)
(* cuts the hole in a second critical section.                              *)

Elegir(p, id, tam, h) ==
    hilo' = [Ocioso EXCEPT !.pc = "elegido", !.pid = p, !.id = id,
                           !.tam = tam, !.base = h.base]

PedirSegmento(p, id, tam) ==
    /\ Libre
    /\ estado[p] = "residente"
    /\ Len(tabla_segmentos[p]) < MaxSegmentos
    /\ tam <= SEGMENT_MAX_SIZE
    /\ \/ \E h \in HuecosElegibles(tam) : Elegir(p, id, tam, h)
       \/ /\ HuecosElegibles(tam) = {}
          /\ hilo' = [Ocioso EXCEPT !.pc = "sin_hueco", !.pid = p, !.id = id, !.tam = tam]
    /\ UNCHANGED <<ms, memoria_total_sistema, lista_huecos_libres, tabla_segmentos,
                   contextos, bitmap_swap, memoria, swap, estado>>

\* No hole is large enough: either memory is fragmented or it is full.
MedirEspacio ==
    /\ hilo.pc = "sin_hueco"
    /\ hilo' = IF EspacioLibreTotal >= hilo.tam
               THEN [hilo EXCEPT !.pc = "compactar"]
               ELSE Ocioso
    /\ UNCHANGED <<ms, memoria_total_sistema, lista_huecos_libres, tabla_segmentos,
                   contextos, bitmap_swap, memoria, swap, estado>>

\* The bytes of the segments at the places of S, one pair per byte.
Celdas(S) == {c \in S \X (0 .. SEGMENT_MAX_SIZE - 1) : c[2] < Seg(c[1]).limite}

\* proxima_direccion_libre when the loop of the compaction reaches l, and at
\* its end: the sizes of the segments already placed.
NuevaBase(l) ==
    Cardinality(Celdas({k \in EnRam : Seg(k).direccion_base < Seg(l).direccion_base}))

\* Wrong variant: the segments in SWAP take room too.
FinContandoSwap == Cardinality(Celdas(Lugares))

FinCompactado == Cardinality(Celdas(EnRam))

\* ejecutar_compactacion_fisica_memory_stick, once the scheduler answered
\* CPUS_DESALOJADAS_OK.  Segments move down in the order of their bases, so
\* each is read before anything is written over it.
Compactar ==
    /\ hilo.pc = "compactar"
    /\ memoria' =
         [a \in Direcciones |->
            IF \E l \in EnRam : NuevaBase(l) <= a /\ a < NuevaBase(l) + Seg(l).limite
            THEN LET l == CHOOSE l \in EnRam : NuevaBase(l) <= a
                                               /\ a < NuevaBase(l) + Seg(l).limite
                 IN  memoria[Seg(l).direccion_base + (a - NuevaBase(l))]
            ELSE memoria[a]]
    /\ tabla_segmentos' =
         [p \in Pids |->
            [i \in DOMAIN tabla_segmentos[p] |->
               IF <<p, i>> \in EnRam
               THEN [tabla_segmentos[p][i] EXCEPT !.direccion_base = NuevaBase(<<p, i>>)]
               ELSE tabla_segmentos[p][i]]]
    /\ lista_huecos_libres' =
         IF FinCompactado < memoria_total_sistema
         THEN {[base |-> FinCompactado, tam |-> memoria_total_sistema - FinCompactado]}
         ELSE {}
    /\ hilo' = [hilo EXCEPT !.pc = "reelegir"]
    /\ UNCHANGED <<ms, memoria_total_sistema, contextos, bitmap_swap, swap, estado>>

\* Wrong variant: the hole is not searched again after the compaction.
ReelegirSinBuscar ==
    /\ hilo.pc = "reelegir"
    /\ hilo' = [hilo EXCEPT !.pc = "elegido"]
    /\ UNCHANGED <<ms, memoria_total_sistema, lista_huecos_libres, tabla_segmentos,
                   contextos, bitmap_swap, memoria, swap, estado>>

ReelegirHueco ==
    /\ hilo.pc = "reelegir"
    /\ \E h \in HuecosElegibles(hilo.tam) : Elegir(hilo.pid, hilo.id, hilo.tam, h)
    /\ UNCHANGED <<ms, memoria_total_sistema, lista_huecos_libres, tabla_segmentos,
                   contextos, bitmap_swap, memoria, swap, estado>>

\* The pointer bache_elegido is used after the mutex was released; with no
\* hole left at that base it dangles, and no outcome is defined.
CrearSegmento ==
    /\ hilo.pc = "elegido"
    /\ \E h \in lista_huecos_libres :
         /\ h.base = hilo.base /\ h.tam >= hilo.tam
         /\ lista_huecos_libres' = Recortar(lista_huecos_libres, h, hilo.tam)
         /\ tabla_segmentos' = [tabla_segmentos EXCEPT ![hilo.pid] =
                Append(@, [id_segmento |-> hilo.id, direccion_base |-> h.base,
                           limite |-> hilo.tam, en_swap |-> FALSE, bloque_swap |-> 0])]
    /\ hilo' = Ocioso
    /\ UNCHANGED <<ms, memoria_total_sistema, contextos, bitmap_swap, memoria,
                   swap, estado>>

-----------------------------------------------------------------------------
(* gl_MEM_FREE: eliminar_segmento gives the bytes at the segment's base back *)
(* to the list of holes, without asking whether the segment is in SWAP.      *)

EliminarSegmento(p, id) ==
    /\ Libre
    /\ estado[p] = "residente"
    /\ \E i \in PrimerIndice(p, id) :
         LET seg == tabla_segmentos[p][i]
         IN  /\ tabla_segmentos' = [tabla_segmentos EXCEPT ![p] = QuitarIndice(@, i)]
             /\ lista_huecos_libres' =
                    LiberarEspacio(lista_huecos_libres, seg.direccion_base, seg.limite)
    /\ UNCHANGED <<ms, memoria_total_sistema, contextos, bitmap_swap, memoria,
                   swap, hilo, estado>>

-----------------------------------------------------------------------------
(* SUSPENDIDO: suspender_proceso tries to move every segment to SWAP, and    *)
(* goes on after a failure.  The scheduler has marked the process suspended  *)
(* before it asks; on NOTOK it takes it back (mediano_plazo_bck).            *)

PedirSuspension(p) ==
    /\ Libre
    /\ estado[p] = "residente"
    /\ estado' = [estado EXCEPT ![p] = "suspendido"]
    /\ hilo' = [Ocioso EXCEPT !.pc = "suspendiendo", !.pid = p, !.i = 1]
    /\ UNCHANGED <<ms, memoria_total_sistema, lista_huecos_libres, tabla_segmentos,
                   contextos, bitmap_swap, memoria, swap>>

\* Bytes of SWAP after a segment was copied to the blocks that start at b; the
\* rest of the last block is zero (calloc).
CopiarASwap(seg, b) ==
    [x \in BytesSwap |->
        LET k == x - b * BlockSize
        IN  CASE k < 0 \/ k >= BloquesNecesarios(seg.limite) * BlockSize -> swap[x]
              [] k \in 0 .. seg.limite - 1 -> memoria[seg.direccion_base + k]
              [] OTHER -> 0]

MoverSegmentoASwap ==
    LET seg == tabla_segmentos[hilo.pid][hilo.i]
        n == BloquesNecesarios(seg.limite)
    IN  /\ hilo.pc = "suspendiendo"
        /\ hilo.i \in DOMAIN tabla_segmentos[hilo.pid]
        /\ ~seg.en_swap
        /\ \E b \in IniciosLibres(n) :
             /\ \A c \in IniciosLibres(n) : b <= c
             /\ bitmap_swap' = bitmap_swap \cup (b .. b + n - 1)
             /\ swap' = CopiarASwap(seg, b)
             /\ tabla_segmentos' = [tabla_segmentos EXCEPT ![hilo.pid][hilo.i] =
                    [seg EXCEPT !.en_swap = TRUE, !.bloque_swap = b]]
        /\ lista_huecos_libres' =
               LiberarEspacio(lista_huecos_libres, seg.direccion_base, seg.limite)
        /\ hilo' = [hilo EXCEPT !.i = @ + 1]
        /\ UNCHANGED <<ms, memoria_total_sistema, contextos, memoria, estado>>

\* A segment that is already in SWAP, or for which SWAP has no room.
SaltearSegmento ==
    LET seg == tabla_segmentos[hilo.pid][hilo.i]
    IN  /\ hilo.pc = "suspendiendo"
        /\ hilo.i \in DOMAIN tabla_segmentos[hilo.pid]
        /\ seg.en_swap \/ IniciosLibres(BloquesNecesarios(seg.limite)) = {}
        /\ hilo' = [hilo EXCEPT !.i = @ + 1, !.exito = @ /\ seg.en_swap]
        /\ UNCHANGED <<ms, memoria_total_sistema, lista_huecos_libres, tabla_segmentos,
                       contextos, bitmap_swap, memoria, swap, estado>>

TerminarSuspension ==
    /\ hilo.pc = "suspendiendo"
    /\ hilo.i \notin DOMAIN tabla_segmentos[hilo.pid]
    /\ hilo' = Ocioso
    /\ estado' = IF hilo.exito THEN estado
                 ELSE [estado EXCEPT ![hilo.pid] = "residente"]
    /\ UNCHANGED <<ms, memoria_total_sistema, lista_huecos_libres, tabla_segmentos,
                   contextos, bitmap_swap, memoria, swap>>

-----------------------------------------------------------------------------
(* NUEVO_ESPACIO: desuspender_proceso brings the segments back one by one,  *)
(* and stops at the first that finds no hole.                               *)

PedirDesuspension(p) ==
    /\ Libre
    /\ estado[p] = "suspendido"
    /\ hilo' = [Ocioso EXCEPT !.pc = "desuspendiendo", !.pid = p, !.i = 1]
    /\ UNCHANGED <<ms, memoria_total_sistema, lista_huecos_libres, tabla_segmentos,
                   contextos, bitmap_swap, memoria, swap, estado>>

\* Wrong variant: the bytes are taken from the start of SWAP.
CopiarDesdeElInicio(seg, b) ==
    [a \in Direcciones |->
        IF a \in b .. b + seg.limite - 1 THEN swap[a - b] ELSE memoria[a]]

\* Bytes of the sticks after a segment was copied back to address b.
CopiarARam(seg, b) ==
    [a \in Direcciones |->
        IF a \in b .. b + seg.limite - 1
        THEN swap[seg.bloque_swap * BlockSize + (a - b)]
        ELSE memoria[a]]

RestaurarSegmento ==
    LET seg == tabla_segmentos[hilo.pid][hilo.i]
    IN  /\ hilo.pc = "desuspendiendo"
        /\ hilo.i \in DOMAIN tabla_segmentos[hilo.pid]
        /\ seg.en_swap
        /\ \E h \in HuecosElegibles(seg.limite) :
             /\ lista_huecos_libres' = Recortar(lista_huecos_libres, h, seg.limite)
             /\ memoria' = CopiarARam(seg, h.base)
             /\ tabla_segmentos' = [tabla_segmentos EXCEPT ![hilo.pid][hilo.i] =
                    [seg EXCEPT !.en_swap = FALSE, !.direccion_base = h.base,
                                !.bloque_swap = 0]]
        /\ bitmap_swap' = bitmap_swap \ BloquesDe(seg)
        /\ hilo' = [hilo EXCEPT !.i = @ + 1]
        /\ UNCHANGED <<ms, memoria_total_sistema, contextos, swap, estado>>

YaEnRam ==
    /\ hilo.pc = "desuspendiendo"
    /\ hilo.i \in DOMAIN tabla_segmentos[hilo.pid]
    /\ ~tabla_segmentos[hilo.pid][hilo.i].en_swap
    /\ hilo' = [hilo EXCEPT !.i = @ + 1]
    /\ UNCHANGED <<ms, memoria_total_sistema, lista_huecos_libres, tabla_segmentos,
                   contextos, bitmap_swap, memoria, swap, estado>>

\* No hole for the next segment: NOTOK, the segments restored so far stay.
DesuspensionFallida ==
    LET seg == tabla_segmentos[hilo.pid][hilo.i]
    IN  /\ hilo.pc = "desuspendiendo"
        /\ hilo.i \in DOMAIN tabla_segmentos[hilo.pid]
        /\ seg.en_swap
        /\ HuecosElegibles(seg.limite) = {}
        /\ hilo' = Ocioso
        /\ UNCHANGED <<ms, memoria_total_sistema, lista_huecos_libres, tabla_segmentos,
                       contextos, bitmap_swap, memoria, swap, estado>>

TerminarDesuspension ==
    /\ hilo.pc = "desuspendiendo"
    /\ hilo.i \notin DOMAIN tabla_segmentos[hilo.pid]
    /\ hilo' = Ocioso
    /\ estado' = [estado EXCEPT ![hilo.pid] = "residente"]
    /\ UNCHANGED <<ms, memoria_total_sistema, lista_huecos_libres, tabla_segmentos,
                   contextos, bitmap_swap, memoria, swap>>

-----------------------------------------------------------------------------
(* gl_EXIT: manejar_finalizar_proceso takes the context out of the list and  *)
(* then frees its segments one by one (the head of the table here).          *)

PedirFinalizacion(p) ==
    /\ Libre
    /\ estado[p] = "residente"
    /\ contextos' = contextos \ {p}
    /\ estado' = [estado EXCEPT ![p] = "terminado"]
    /\ hilo' = [Ocioso EXCEPT !.pc = "finalizando", !.pid = p]
    /\ UNCHANGED <<ms, memoria_total_sistema, lista_huecos_libres, tabla_segmentos,
                   bitmap_swap, memoria, swap>>

LiberarSegmentoFinalizado ==
    LET seg == Head(tabla_segmentos[hilo.pid])
    IN  /\ hilo.pc = "finalizando"
        /\ tabla_segmentos[hilo.pid] # <<>>
        /\ tabla_segmentos' = [tabla_segmentos EXCEPT ![hilo.pid] = Tail(@)]
        /\ \/ /\ seg.en_swap
              /\ bitmap_swap' = bitmap_swap \ BloquesDe(seg)
              /\ UNCHANGED lista_huecos_libres
           \/ /\ ~seg.en_swap
              /\ lista_huecos_libres' =
                     LiberarEspacio(lista_huecos_libres, seg.direccion_base, seg.limite)
              /\ UNCHANGED bitmap_swap
        /\ UNCHANGED <<ms, memoria_total_sistema, contextos, memoria, swap, hilo, estado>>

TerminarFinalizacion ==
    /\ hilo.pc = "finalizando"
    /\ tabla_segmentos[hilo.pid] = <<>>
    /\ hilo' = Ocioso
    /\ UNCHANGED <<ms, memoria_total_sistema, lista_huecos_libres, tabla_segmentos,
                   contextos, bitmap_swap, memoria, swap, estado>>

-----------------------------------------------------------------------------
(* Writes *)

\* escribir_en_memoria of the CPU: the process runs with the table it was sent,
\* in which a segment in SWAP keeps its old base.  No process runs during a
\* compaction, nor while a request of its own is served.
EscribirCPU(p, i, k, v) ==
    /\ estado[p] = "residente"
    /\ hilo.pc # "compactar" /\ hilo.pid # p
    /\ i \in DOMAIN tabla_segmentos[p]
    /\ k < tabla_segmentos[p][i].limite
    /\ memoria' = [memoria EXCEPT ![tabla_segmentos[p][i].direccion_base + k] = v]
    /\ UNCHANGED <<ms, memoria_total_sistema, lista_huecos_libres, tabla_segmentos,
                   contextos, bitmap_swap, swap, hilo, estado>>

\* Bytes b .. b + n - 1 lie in one registered stick.
EnUnStick(b, n) ==
    \E m \in Sticks : /\ ms[m].estado # "fuera"
                      /\ ms[m].base <= b
                      /\ b + n <= ms[m].base + TamanioStick[m]

\* escritura_memoria: n bytes of an STDIN are written at offset k of the first
\* segment numbered id, in its blocks of SWAP if it is there, and in RAM only
\* when one stick holds them all.
EscrituraMemoria(p, id, k, n, v) ==
    /\ Libre
    /\ p \in contextos
    /\ \E i \in PrimerIndice(p, id) :
         LET seg == tabla_segmentos[p][i]
         IN  /\ k + n <= seg.limite
             /\ \/ /\ seg.en_swap
                   /\ swap' = [x \in BytesSwap |->
                         IF x - seg.bloque_swap * BlockSize \in k .. k + n - 1
                         THEN v ELSE swap[x]]
                   /\ UNCHANGED memoria
                \/ /\ ~seg.en_swap
                   /\ EnUnStick(seg.direccion_base + k, n)
                   /\ memoria' = [a \in Direcciones |->
                         IF a - seg.direccion_base \in k .. k + n - 1
                         THEN v ELSE memoria[a]]
                   /\ UNCHANGED swap
    /\ UNCHANGED <<ms, memoria_total_sistema, lista_huecos_libres, tabla_segmentos,
                   contextos, bitmap_swap, hilo, estado>>

-----------------------------------------------------------------------------
Init ==
    /\ ms = [m \in Sticks |-> [estado |-> "fuera", base |-> 0]]
    /\ memoria_total_sistema = 0
    /\ lista_huecos_libres = {}
    /\ tabla_segmentos = [p \in Pids |-> <<>>]
    /\ contextos = {}
    /\ bitmap_swap = {}
    /\ memoria = [a \in Direcciones |-> 0]
    /\ swap = [x \in BytesSwap |-> 0]
    /\ hilo = Ocioso
    /\ estado = [p \in Pids |-> "nuevo"]

Pedido(p) ==
    \/ CrearProceso(p)
    \/ \E id \in Ids, tam \in Tamanios : PedirSegmento(p, id, tam)
    \/ PedirSuspension(p)
    \/ PedirDesuspension(p)
    \/ PedirFinalizacion(p)
    \/ \E id \in Ids, k \in 0 .. SEGMENT_MAX_SIZE - 1, n \in 1 .. SEGMENT_MAX_SIZE,
          v \in Valores : EscrituraMemoria(p, id, k, n, v)

\* What a process does while it runs on a CPU.
Ejecutar(p) ==
    \/ \E id \in Ids : EliminarSegmento(p, id)
    \/ \E i \in 1 .. MaxSegmentos, k \in 0 .. SEGMENT_MAX_SIZE - 1, v \in Valores :
           EscribirCPU(p, i, k, v)

\* The steps of the thread inside a request, but for the compaction.
Continuar ==
    \/ MedirEspacio \/ ReelegirHueco \/ CrearSegmento
    \/ MoverSegmentoASwap \/ SaltearSegmento \/ TerminarSuspension
    \/ RestaurarSegmento \/ YaEnRam \/ DesuspensionFallida \/ TerminarDesuspension
    \/ LiberarSegmentoFinalizado \/ TerminarFinalizacion

Next ==
    \/ \E m \in Sticks : ConexionMemoryStick(m) \/ AgregarHuecoStick(m)
    \/ \E p \in Pids : Pedido(p) \/ Ejecutar(p)
    \/ Continuar
    \/ Compactar

Spec == Init /\ [][Next]_vars

-----------------------------------------------------------------------------
(* The code keeps its memory sound under two hypotheses on the order of      *)
(* events, which the code itself does not enforce:                           *)
(*   - sticks connect one at a time, and none is between its two critical    *)
(*     sections while memory is compacted;                                   *)
(*   - a process does not run while some segment of its own is in SWAP.      *)

TodoEnRam(p) == \A i \in DOMAIN tabla_segmentos[p] : ~tabla_segmentos[p][i].en_swap

ConectarDeAUno(m) == Conectando = {} /\ ConexionMemoryStick(m)
EjecutarEnRam(p) == TodoEnRam(p) /\ Ejecutar(p)
CompactarSinConexion == Conectando = {} /\ Compactar

NextOrdenada ==
    \/ \E m \in Sticks : ConectarDeAUno(m) \/ AgregarHuecoStick(m)
    \/ \E p \in Pids : Pedido(p) \/ EjecutarEnRam(p)
    \/ Continuar
    \/ CompactarSinConexion

SpecOrdenada == Init /\ [][NextOrdenada]_vars

\* The threads of Kernel Memory are scheduled: a request and a connection that
\* were begun go on.  Nothing is asked of Compactar, which waits for the scheduler to
\* answer CPUS_DESALOJADAS_OK: Planificador's run CompactacionTrabada shows that it
\* may never do so.
SpecJusta ==
    /\ SpecOrdenada
    /\ WF_vars(Continuar)
    /\ \A m \in Sticks : WF_vars(AgregarHuecoStick(m))

-----------------------------------------------------------------------------
(* Properties *)

\* No byte has two owners: two free holes, two segments in RAM, or a hole and a
\* segment never share an address (liberar_espacio_en_huecos, creacion_segmento,
\* desuspender_proceso and the compaction all move these borders).
SinSolapamiento ==
    /\ \A g, h \in lista_huecos_libres :
           g # h => Disjuntos(g.base, g.tam, h.base, h.tam)
    /\ \A k, l \in EnRam :
           k # l => Disjuntos(Seg(k).direccion_base, Seg(k).limite,
                              Seg(l).direccion_base, Seg(l).limite)
    /\ \A h \in lista_huecos_libres, l \in EnRam :
           Disjuntos(h.base, h.tam, Seg(l).direccion_base, Seg(l).limite)

\* No byte is lost: every byte of the registered sticks is in a hole, in a
\* segment in RAM, or in a stick whose hole is still to be added.
SinFugas ==
    \A a \in 0 .. memoria_total_sistema - 1 :
        \/ \E h \in lista_huecos_libres : h.base <= a /\ a < h.base + h.tam
        \/ \E l \in EnRam : /\ Seg(l).direccion_base <= a
                            /\ a < Seg(l).direccion_base + Seg(l).limite
        \/ \E m \in Conectando : ms[m].base <= a /\ a < ms[m].base + TamanioStick[m]

\* The bitmap of SWAP marks exactly the blocks of the segments in SWAP, and no
\* block belongs to two of them (obtener_n_bloques_libres, liberar_bloques_swap).
SwapExacto ==
    /\ bitmap_swap = UNION {BloquesDe(Seg(l)) : l \in Lugares \ EnRam}
    /\ \A k, l \in Lugares \ EnRam : k # l => BloquesDe(Seg(k)) \cap BloquesDe(Seg(l)) = {}

\* Free neighbours are joined: otherwise a request that fits would compact.
HuecosConsolidados ==
    \A g, h \in lista_huecos_libres : g.base + g.tam # h.base

\* When creacion_segmento cuts the hole it chose in an earlier critical section,
\* that hole is still in the list and large enough, whatever sticks connected.
HuecoVigente ==
    hilo.pc = "elegido" =>
        \E h \in lista_huecos_libres : h.base = hilo.base /\ h.tam >= hilo.tam

\* A compaction that was found worthwhile leaves a hole for the request: the
\* pointer that the second search returns is used without a test (line 988).
CompactarAlcanza == hilo.pc = "reelegir" => HuecosValidos(hilo.tam) # {}

\* A process the scheduler takes for resident has all its segments in RAM: a
\* suspension that failed left nothing behind (the rollback of
\* mediano_plazo_bck, server.c:859, returns it to BLOCK or READY).
ResidenteEnRam ==
    \A p \in Pids : estado[p] = "residente" => TodoEnRam(p)

\* Every request of the scheduler ends, or waits for ever in recv for the scheduler's
\* answer to a compaction (solicitar_y_ejecutar_compactacion, line 907).  If the answer
\* comes the request ends as well: the second search does not lead to another compaction,
\* and no loop over the segments of a process goes round for ever.
PedidoTermina ==
    (hilo.pc # "libre") ~> (hilo.pc = "libre" \/ [](hilo.pc = "compactar"))

\* What the processes see of their memory: the number and the bytes of each
\* segment, wherever the segment is.
Contenido(seg) ==
    [k \in 1 .. seg.limite |->
        IF seg.en_swap THEN swap[seg.bloque_swap * BlockSize + k - 1]
        ELSE memoria[seg.direccion_base + k - 1]]

VistaDeProceso ==
    [p \in Pids |->
        IF p \in contextos
        THEN [i \in DOMAIN tabla_segmentos[p] |->
                 [id |-> tabla_segmentos[p][i].id_segmento,
                  bytes |-> Contenido(tabla_segmentos[p][i])]]
        ELSE <<>>]

Quietos == IF hilo.pc = "compactar" THEN Pids ELSE Pids \cap {hilo.pid}

Abstracta == INSTANCE MemoriaAbstracta
                 WITH procesos <- VistaDeProceso, quietos <- Quietos

\* Compaction, suspension, its failures and the connection of sticks are
\* invisible to the processes: what a process reads is what it last wrote.
MemoriaPrivada == Abstracta!Spec
=============================================================================

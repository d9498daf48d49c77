------------------------ MODULE Planificador_proofs ------------------------
(***************************************************************************)
(* Proofs about the short-term scheduler (module Planificador), for any     *)
(* number of CPUs, processes and levels and for the three algorithms.  All  *)
(* of them are about SpecOrdenada, the scheduler without the three windows  *)
(* the code leaves open, as the run Planificador is.                        *)
(***************************************************************************)
EXTENDS Planificador, TLAPS, FiniteSetTheorems, SequenceTheorems,
        FunctionTheorems

-----------------------------------------------------------------------------
(* The inductive invariant *)

\* Where a thread has a process of its own, where its CPU has none, and where it
\* serves a request of the process of its CPU.
ConPid == {"despachar", "exit", "eliminar"}
SinProceso == ConPid \cup {"sem_hay_ready", "sem_compactacion", "mandar", "fuera"}
Compactando == {"compactar", "esperar_rnn", "compactando"}
Sirviendo == Compactando \cup {"mem_alloc", "mem_free", "init_proc", "alloc_ok"}

\* Where it holds sem_compactacion, and where mutex_conexion_km.
ConSem == {"mandar", "despachar", "esperar_rnn", "compactando"}
ConMutex == Compactando \cup {"alloc_ok"}

Semaforos ==
    \A c \in Cpus :
        /\ sem_compactacion = c <=> hilo[c].pc \in ConSem
        /\ mutex_conexion_km = c <=> hilo[c].pc \in ConMutex
        /\ hilo[c].pc \in Compactando => compactacion_value

\* A process belongs to the CPU that has it, or to the thread of that CPU.
Tiene(c, p) == p \in {cpu[c].pid, hilo[c].pid}
Suelto(p) == \A c \in Cpus : ~Tiene(c, p)

\* What the place of a thread says of its CPU and of the process it has.
DeCpu(c) ==
    /\ cpu[c].propio
    /\ hilo[c].pid = Nadie <=> hilo[c].pc \notin ConPid
    /\ hilo[c].pc \in SinProceso => cpu[c].pid = Nadie
    /\ hilo[c].pc \in Sirviendo => /\ cpu[c].pid # Nadie
                                   /\ cpu[c].paso \in {"chequea", "muerta"}
                                   /\ estado_pcb[cpu[c].pid] = "RNN"
    /\ hilo[c].pc = "desalojo" <=> cpu[c].paso = "guarda"
    /\ hilo[c].pc = "desalojo" => cpu[c].pid # Nadie
    /\ cpu[c].pid # Nadie => estado_pcb[cpu[c].pid] \in {"RNN", "BCK"}
    /\ cpu[c].pid # Nadie /\ estado_pcb[cpu[c].pid] = "BCK" =>
           /\ espera[cpu[c].pid] = "io"
           /\ cpu[c].paso # "ejecuta"
           /\ cpu[c].paso = "chequea" => cpu[c].pid \in desalojo
    /\ hilo[c].pc = "despachar" => estado_pcb[hilo[c].pid] = "RDY"
    /\ hilo[c].pc = "exit" => estado_pcb[hilo[c].pid] = "RNN"
    /\ hilo[c].pc = "eliminar" => /\ estado_pcb[hilo[c].pid] = "RDY"
                                  /\ estado_anterior[hilo[c].pid] = "RNN"

\* No process belongs to two, and one in RUNNING belongs to somebody.
Duenios ==
    /\ \A c \in Cpus : DeCpu(c)
    /\ \A c, d \in Cpus : \A p \in Pids : Tiene(c, p) /\ Tiene(d, p) => c = d
    /\ \A p \in Pids : estado_pcb[p] = "RNN" => ~Suelto(p)
    /\ \A p \in Pids : espera[p] # "no" <=> estado_pcb[p] = "BCK"

\* The lists as sets: what is in them, and that nothing is in them twice.
Elementos(s) == {s[i] : i \in DOMAIN s}
SinRepetir(s) == \A i, j \in DOMAIN s : s[i] = s[j] => i = j

EnReady == Elementos(rdy) \cup UNION {Elementos(niveles[n]) : n \in 0 .. Niveles - 1}

ReadySinRepetir ==
    /\ SinRepetir(rdy)
    /\ \A n \in 0 .. Niveles - 1 :
         /\ SinRepetir(niveles[n])
         /\ Elementos(niveles[n]) \cap Elementos(rdy) = {}
         /\ \A m \in 0 .. Niveles - 1 :
              Elementos(niveles[n]) \cap Elementos(niveles[m]) # {} => n = m

Con(pc) == {hilo[c].pid : c \in {d \in Cpus : hilo[d].pc = pc}}
EnEstado(e) == {p \in Pids : estado_pcb[p] = e}

Listas ==
    /\ SinRepetir(rnn)
    /\ Elementos(rnn) = EnEstado("RNN") \cup Con("eliminar")
    /\ ReadySinRepetir
    /\ EnReady = EnEstado("RDY") \ Con("despachar")

Eligiendo == {c \in Cpus : hilo[c].pc \in {"sem_compactacion", "mandar"}}
Fichas == sem_hay_ready + Cardinality(Eligiendo) = Cardinality(EnReady)

\* A reservation of p, if any, is one, of a CPU that is there; p waits in READY, or
\* it is leaving that CPU and its thread is not serving it any more.
Reserva(p) ==
    retorno_cpu[p] # <<>> =>
        LET c == Head(retorno_cpu[p])
        IN  /\ Len(retorno_cpu[p]) = 1 /\ hilo[c].pc # "fuera"
            /\ \/ estado_pcb[p] = "RDY" /\ p \notin Con("despachar")
               \/ /\ cpu[c].pid = p /\ estado_pcb[p] = "RNN"
                  /\ hilo[c].pc \notin Sirviendo
                  /\ cpu[c].paso # "ejecuta"
                  /\ cpu[c].paso = "chequea" => p \in desalojo
Reservas == \A p \in Pids : Reserva(p)

Quieta ==
    \A c \in Cpus : hilo[c].pc = "compactando" =>
        \A d \in Cpus \ {c} : cpu[d].pid = Nadie \/ cpu[d].paso # "ejecuta"

IInv == TypeOK /\ Semaforos /\ Duenios /\ Listas /\ Fichas /\ Reservas /\ Quieta

-----------------------------------------------------------------------------
(* Lemmas about the operators on lists *)

LEMMA AgregarAlFinal ==
    ASSUME NEW S, NEW s \in Seq(S), NEW p \in S
    PROVE  /\ Append(s, p) \in Seq(S)
           /\ Elementos(Append(s, p)) = Elementos(s) \cup {p}
           /\ SinRepetir(s) /\ p \notin Elementos(s) => SinRepetir(Append(s, p))
<1> DEFINE r == Append(s, p)
<1>1. /\ r \in Seq(S) /\ Len(r) = Len(s) + 1 /\ r[Len(s) + 1] = p
      /\ \A i \in 1 .. Len(s) : r[i] = s[i]
  OBVIOUS
<1>2. DOMAIN s = 1 .. Len(s) /\ DOMAIN r = 1 .. Len(s) + 1 /\ Len(s) \in Nat
  BY <1>1
<1> HIDE DEF r
<1>3. Elementos(r) = Elementos(s) \cup {p}
  <2>1. ASSUME NEW i \in DOMAIN r PROVE r[i] \in Elementos(s) \cup {p}
    BY <1>1, <1>2 DEF Elementos
  <2>2. ASSUME NEW i \in DOMAIN s PROVE s[i] \in Elementos(r)
    BY <1>1, <1>2 DEF Elementos
  <2>3. p \in Elementos(r)
    BY <1>1, <1>2 DEF Elementos
  <2> QED
    BY <2>1, <2>2, <2>3 DEF Elementos
<1>4. SinRepetir(s) /\ p \notin Elementos(s) => SinRepetir(r)
  BY <1>1, <1>2 DEF SinRepetir, Elementos
<1> QED
  BY <1>1, <1>3, <1>4 DEF r

LEMMA AgregarAdelante ==
    ASSUME NEW S, NEW s \in Seq(S), NEW p \in S
    PROVE  /\ <<p>> \o s \in Seq(S)
           /\ Elementos(<<p>> \o s) = Elementos(s) \cup {p}
           /\ SinRepetir(s) /\ p \notin Elementos(s) => SinRepetir(<<p>> \o s)
<1> DEFINE r == <<p>> \o s
<1>1. /\ r \in Seq(S) /\ Len(r) = Len(s) + 1 /\ r[1] = p
      /\ \A i \in 1 .. Len(s) : r[i + 1] = s[i]
  OBVIOUS
<1>2. DOMAIN s = 1 .. Len(s) /\ DOMAIN r = 1 .. Len(s) + 1 /\ Len(s) \in Nat
  BY <1>1
<1> HIDE DEF r
<1>3. \A i \in DOMAIN r : i = 1 \/ (i - 1 \in DOMAIN s /\ r[i] = s[i - 1])
  <2> SUFFICES ASSUME NEW i \in DOMAIN r, i # 1 PROVE i - 1 \in DOMAIN s /\ r[i] = s[i - 1]
    OBVIOUS
  <2>1. i - 1 \in 1 .. Len(s) /\ (i - 1) + 1 = i
    BY <1>2
  <2> QED
    BY <1>1, <1>2, <2>1
<1>4. Elementos(r) = Elementos(s) \cup {p}
  <2>1. ASSUME NEW i \in DOMAIN r PROVE r[i] \in Elementos(s) \cup {p}
    BY <1>1, <1>3 DEF Elementos
  <2>2. ASSUME NEW i \in DOMAIN s PROVE s[i] \in Elementos(r)
    <3>1. i + 1 \in DOMAIN r /\ r[i + 1] = s[i]
      BY <1>1, <1>2
    <3> QED
      BY <3>1 DEF Elementos
  <2>3. p \in Elementos(r)
    BY <1>1, <1>2 DEF Elementos
  <2> QED
    BY <2>1, <2>2, <2>3 DEF Elementos
<1>5. ASSUME SinRepetir(s), p \notin Elementos(s) PROVE SinRepetir(r)
  <2> SUFFICES ASSUME NEW i \in DOMAIN r, NEW j \in DOMAIN r, r[i] = r[j] PROVE i = j
    BY DEF SinRepetir
  <2>1. i \in Int /\ j \in Int
    BY <1>2
  <2>2. CASE i = 1 \/ j = 1
    BY <1>1, <1>3, <1>5, <2>2 DEF Elementos
  <2>3. CASE i # 1 /\ j # 1
    <3>1. i - 1 = j - 1
      BY <1>3, <1>5, <2>3 DEF SinRepetir
    <3> QED
      BY <2>1, <3>1
  <2> QED
    BY <2>2, <2>3
<1> QED
  BY <1>1, <1>4, <1>5 DEF r

LEMMA SacarPrimero ==
    ASSUME NEW S, NEW s \in Seq(S), s # <<>>
    PROVE  /\ Head(s) \in S /\ Head(s) \in Elementos(s)
           /\ Tail(s) \in Seq(S)
           /\ SinRepetir(s) => /\ SinRepetir(Tail(s))
                               /\ Elementos(Tail(s)) = Elementos(s) \ {Head(s)}
<1> DEFINE r == Tail(s)
<1>1. /\ r \in Seq(S) /\ Len(s) \in Nat /\ Len(s) > 0 /\ Len(r) = Len(s) - 1
      /\ Head(s) = s[1] /\ s[1] \in S
      /\ \A i \in 1 .. Len(s) - 1 : r[i] = s[i + 1]
  OBVIOUS
<1>2. DOMAIN s = 1 .. Len(s) /\ DOMAIN r = 1 .. Len(s) - 1
  BY <1>1
<1> HIDE DEF r
<1>3. Head(s) \in Elementos(s)
  BY <1>1, <1>2 DEF Elementos
<1>4. ASSUME SinRepetir(s) PROVE SinRepetir(r) /\ Elementos(r) = Elementos(s) \ {Head(s)}
  <2>1. ASSUME NEW i \in DOMAIN r
        PROVE  i + 1 \in DOMAIN s /\ i + 1 # 1 /\ r[i] = s[i + 1] /\ i \in Int
    BY <1>1, <1>2
  <2>2. SinRepetir(r)
    <3> SUFFICES ASSUME NEW i \in DOMAIN r, NEW j \in DOMAIN r, r[i] = r[j] PROVE i = j
      BY DEF SinRepetir
    <3>1. i + 1 = j + 1
      BY <1>4, <2>1 DEF SinRepetir
    <3> QED
      BY <2>1, <3>1
  <2>3. ASSUME NEW i \in DOMAIN r PROVE r[i] \in Elementos(s) \ {Head(s)}
    <3>1. 1 \in DOMAIN s
      BY <1>1, <1>2
    <3> QED
      BY <1>1, <1>4, <2>1, <3>1 DEF Elementos, SinRepetir
  <2>4. ASSUME NEW i \in DOMAIN s, s[i] # Head(s) PROVE s[i] \in Elementos(r)
    <3>1. i - 1 \in DOMAIN r /\ (i - 1) + 1 = i
      BY <1>1, <1>2, <2>4
    <3>2. r[i - 1] = s[i]
      BY <2>1, <3>1
    <3> QED
      BY <3>1, <3>2 DEF Elementos
  <2> QED
    BY <2>2, <2>3, <2>4 DEF Elementos
<1> QED
  BY <1>1, <1>3, <1>4 DEF r

\* Quitar takes out the element, when it is there once, and nothing else.
LEMMA QuitarSaca ==
    ASSUME NEW S, NEW s \in Seq(S), NEW p
    PROVE  /\ Quitar(s, p) \in Seq(S)
           /\ SinRepetir(s) => /\ SinRepetir(Quitar(s, p))
                               /\ Elementos(Quitar(s, p)) = Elementos(s) \ {p}
<1> DEFINE esta == {i \in DOMAIN s : s[i] = p /\ \A j \in 1 .. i - 1 : s[j] # p}
           i == CHOOSE i \in esta : TRUE
           r == SubSeq(s, 1, i - 1) \o SubSeq(s, i + 1, Len(s))
<1>0. DOMAIN s = 1 .. Len(s) /\ Len(s) \in Nat
  OBVIOUS
<1>1. CASE esta = {}
  <2>1. Quitar(s, p) = s
    BY <1>1 DEF Quitar
  <2>2. ASSUME SinRepetir(s) PROVE p \notin Elementos(s)
    <3> SUFFICES ASSUME NEW k \in DOMAIN s, s[k] = p PROVE FALSE
      BY DEF Elementos
    <3>1. \A j \in 1 .. k - 1 : s[j] # p
      <4> SUFFICES ASSUME NEW j \in 1 .. k - 1 PROVE s[j] # p
        OBVIOUS
      <4>1. j \in DOMAIN s /\ j # k
        BY <1>0
      <4> QED
        BY <2>2, <4>1 DEF SinRepetir
    <3> QED
      BY <1>1, <3>1
  <2> QED
    BY <2>1, <2>2
<1>2. CASE esta # {}
  <2>1. i \in esta
    BY <1>2
  <2>2. i \in 1 .. Len(s) /\ s[i] = p
    BY <1>0, <2>1
  <2>3. Quitar(s, p) = r
    BY <1>2 DEF Quitar
  <2> HIDE DEF i
  <2>4. /\ r \in Seq(S) /\ Len(r) = Len(s) - 1
        /\ \A k \in 1 .. i - 1 : r[k] = s[k]
        /\ \A k \in i .. Len(s) - 1 : r[k] = s[k + 1]
    <3> DEFINE a == SubSeq(s, 1, i - 1)
               b == SubSeq(s, i + 1, Len(s))
    <3>1. /\ a \in Seq(S) /\ Len(a) = i - 1
          /\ \A k \in 1 .. i - 1 : a[k] = s[k]
      BY <1>0, <2>2
    <3>2. /\ b \in Seq(S) /\ Len(b) = Len(s) - i
          /\ \A k \in 1 .. Len(s) - i : b[k] = s[i + k]
      <4>1. \A k \in i + 1 .. Len(s) : s[k] \in S
        BY <1>0, <2>2
      <4>2. /\ b \in Seq(S)
            /\ Len(b) = IF i + 1 <= Len(s) THEN Len(s) - (i + 1) + 1 ELSE 0
            /\ \A k \in 1 .. Len(s) - (i + 1) + 1 : b[k] = s[i + 1 + k - 1]
        <5> i + 1 \in Int /\ Len(s) \in Int
          BY <1>0, <2>2
        <5> QED
          BY <4>1, SubSeqProperties
      <4> HIDE DEF b
      <4>3. ASSUME NEW k \in 1 .. Len(s) - i PROVE b[k] = s[i + k]
        <5>1. k \in 1 .. Len(s) - (i + 1) + 1 /\ i + 1 + k - 1 = i + k
          BY <1>0, <2>2
        <5> QED
          BY <4>2, <5>1
      <4>4. Len(b) = Len(s) - i
        <5>1. i \in Int /\ Len(s) \in Int /\ i <= Len(s)
          BY <1>0, <2>2
        <5>2. Len(b) = IF i + 1 <= Len(s) THEN Len(s) - (i + 1) + 1 ELSE 0
          BY <4>2
        <5> QED
          BY <5>1, <5>2
      <4> QED
        BY <4>2, <4>3, <4>4
    <3> HIDE DEF a, b
    <3>3. /\ a \o b \in Seq(S) /\ Len(a \o b) = Len(a) + Len(b)
          /\ \A k \in 1 .. Len(a) : (a \o b)[k] = a[k]
          /\ \A k \in Len(a) + 1 .. Len(a) + Len(b) : (a \o b)[k] = b[k - Len(a)]
      <4>1. /\ a \o b \in Seq(S) /\ Len(a \o b) = Len(a) + Len(b)
            /\ \A k \in 1 .. Len(a) + Len(b) :
                 (a \o b)[k] = IF k <= Len(a) THEN a[k] ELSE b[k - Len(a)]
        BY <3>1, <3>2, ConcatProperties
      <4>2. Len(a) \in Nat /\ Len(b) \in Nat
        BY <3>1, <3>2
      <4> QED
        BY <4>1, <4>2
    <3>4. ASSUME NEW k \in i .. Len(s) - 1 PROVE (a \o b)[k] = s[k + 1]
      <4>1. k \in Len(a) + 1 .. Len(a) + Len(b) /\ k - Len(a) \in 1 .. Len(s) - i
        BY <1>0, <2>2, <3>1, <3>2
      <4>2. i + (k - Len(a)) = k + 1
        BY <1>0, <2>2, <3>1
      <4> QED
        BY <3>2, <3>3, <4>1, <4>2
    <3>5. Len(a) + Len(b) = Len(s) - 1
      BY <1>0, <2>2, <3>1, <3>2
    <3> QED
      BY <3>1, <3>3, <3>4, <3>5 DEF a, b
  <2>5. DOMAIN r = 1 .. Len(s) - 1
    BY <2>4, LenProperties
  <2> HIDE DEF r
  <2>6. ASSUME SinRepetir(s)
        PROVE  SinRepetir(r) /\ Elementos(r) = Elementos(s) \ {p}
    <3>1. ASSUME NEW k \in DOMAIN r
          PROVE  /\ k \in Int
                 /\ k < i => k \in DOMAIN s /\ k # i /\ r[k] = s[k]
                 /\ k >= i => k + 1 \in DOMAIN s /\ k + 1 # i /\ r[k] = s[k + 1]
      BY <1>0, <2>2, <2>4, <2>5
    <3>2. SinRepetir(r)
      <4> SUFFICES ASSUME NEW k \in DOMAIN r, NEW m \in DOMAIN r, r[k] = r[m] PROVE k = m
        BY DEF SinRepetir
      <4>0. i \in Int
        BY <2>2
      <4>1. CASE k < i /\ m < i
        BY <2>6, <3>1, <4>1 DEF SinRepetir
      <4>2. CASE k >= i /\ m >= i
        <5>1. k + 1 = m + 1
          BY <2>6, <3>1, <4>2 DEF SinRepetir
        <5> QED
          BY <3>1, <5>1
      <4>3. CASE k < i /\ m >= i
        <5>1. k = m + 1
          BY <2>6, <3>1, <4>3 DEF SinRepetir
        <5> QED
          BY <3>1, <4>0, <4>3, <5>1
      <4>4. CASE k >= i /\ m < i
        <5>1. k + 1 = m
          BY <2>6, <3>1, <4>4 DEF SinRepetir
        <5> QED
          BY <3>1, <4>0, <4>4, <5>1
      <4> QED
        BY <3>1, <4>0, <4>1, <4>2, <4>3, <4>4
    <3>3. ASSUME NEW k \in DOMAIN r PROVE r[k] \in Elementos(s) \ {p}
      <4>0. i \in DOMAIN s /\ i \in Int
        BY <1>0, <2>2
      <4>1. CASE k < i
        BY <2>2, <2>6, <3>1, <4>0, <4>1 DEF Elementos, SinRepetir
      <4>2. CASE k >= i
        BY <2>2, <2>6, <3>1, <4>0, <4>2 DEF Elementos, SinRepetir
      <4> QED
        BY <3>1, <4>0, <4>1, <4>2
    <3>4. ASSUME NEW k \in DOMAIN s, s[k] # p PROVE s[k] \in Elementos(r)
      <4>0. k \in Int /\ i \in Int /\ k # i
        BY <1>0, <2>2, <3>4
      <4>1. CASE k < i
        <5>1. k \in DOMAIN r /\ r[k] = s[k]
          BY <1>0, <2>2, <2>4, <2>5, <4>1
        <5> QED
          BY <5>1 DEF Elementos
      <4>2. CASE k > i
        <5>1. k - 1 \in i .. Len(s) - 1 /\ (k - 1) + 1 = k
          BY <1>0, <2>2, <4>2
        <5>2. k - 1 \in DOMAIN r /\ r[k - 1] = s[k]
          BY <1>0, <2>2, <2>4, <2>5, <5>1
        <5> QED
          BY <5>2 DEF Elementos
      <4> QED
        BY <4>0, <4>1, <4>2
    <3> QED
      BY <3>2, <3>3, <3>4 DEF Elementos
  <2> QED
    BY <2>3, <2>4, <2>6
<1> QED
  BY <1>1, <1>2

\* What is left of a list of at most one reservation.
LEMMA SinLasDeCorta ==
    ASSUME NEW c, NEW s \in Seq(Cpus), s = <<>> \/ Len(s) = 1
    PROVE  SinLasDe(s, c) = IF s # <<>> /\ Head(s) = c THEN <<>> ELSE s
<1> DEFINE quedan == {i \in DOMAIN s : s[i] # c}
<1>1. CASE s = <<>> \/ Head(s) = c
  <2>1. quedan = {}
    BY <1>1
  <2>2. Cardinality(quedan) = 0
    BY <2>1, FS_EmptySet
  <2>3. SinLasDe(s, c) = <<>>
    <3> DEFINE r == SinLasDe(s, c)
    <3> HIDE DEF quedan
    <3>0. r = [k \in 1 .. Cardinality(quedan) |->
                 s[CHOOSE i \in quedan : Cardinality({j \in quedan : j <= i}) = k]]
      BY DEF SinLasDe, quedan
    <3>1. r \in [1 .. 0 -> Cpus]
      BY <2>2, <3>0
    <3> HIDE DEF r
    <3>2. r \in Seq(Cpus) /\ DOMAIN r = {}
      BY <3>1, SeqDef
    <3>3. Len(r) = 0
      BY <3>2, LenProperties
    <3> QED
      BY <3>2, <3>3, EmptySeq DEF r
  <2> QED
    BY <1>1, <2>3
<1>2. CASE s # <<>> /\ Head(s) # c
  <2>1. DOMAIN s = {1} /\ Head(s) = s[1] /\ s = [k \in {1} |-> s[k]]
    BY <1>2
  <2>2. quedan = {1}
    BY <1>2, <2>1
  <2>3. Cardinality(quedan) = 1
    BY <2>2, FS_Singleton
  <2>4. {j \in quedan : j <= 1} = {1}
    BY <2>2
  <2>5. \A i \in quedan : i = 1
    BY <2>2
  <2> HIDE DEF quedan
  <2>6. SinLasDe(s, c) = [k \in 1 .. Cardinality(quedan) |->
              s[CHOOSE i \in quedan : Cardinality({j \in quedan : j <= i}) = k]]
    BY DEF SinLasDe, quedan
  <2>7. (CHOOSE i \in quedan : Cardinality({j \in quedan : j <= i}) = 1) = 1
    <3>1. Cardinality({j \in quedan : j <= 1}) = 1
      BY <2>4, FS_Singleton
    <3>2. 1 \in quedan
      BY <2>2
    <3>3. \E i \in quedan : Cardinality({j \in quedan : j <= i}) = 1
      BY <3>1, <3>2
    <3> QED
      BY <2>5, <3>3
  <2>8. 1 .. Cardinality(quedan) = {1}
    BY <2>3
  <2>9. SinLasDe(s, c) = [k \in {1} |-> s[1]]
    BY <2>6, <2>7, <2>8
  <2> QED
    BY <1>2, <2>1, <2>9
<1> QED
  BY <1>1, <1>2

-----------------------------------------------------------------------------
(* Lemmas about READY *)

LEMMA VictimaEsProceso ==
    ASSUME TypeOK, NEW p
    PROVE  Victima(p) \subseteq Pids
BY DEF TypeOK, Victima

\* A process that was not in READY is added to it, at the end of the list or of the
\* queue of its level.
LEMMA EntraEnReady ==
    ASSUME TypeOK, ReadySinRepetir, NEW p \in Pids, p \notin EnReady,
           NEW sinMarca, AgregarAReady(p, sinMarca)
    PROVE  /\ rdy' \in Seq(Pids) /\ niveles' \in [0 .. Niveles - 1 -> Seq(Pids)]
           /\ ReadySinRepetir' /\ EnReady' = EnReady \cup {p}
           /\ sem_hay_ready' = sem_hay_ready + 1
           /\ desalojo \ sinMarca \subseteq desalojo' /\ desalojo' \subseteq Pids
<1>1. /\ rdy \in Seq(Pids) /\ niveles \in [0 .. Niveles - 1 -> Seq(Pids)]
      /\ prioridad[p] \in 0 .. Niveles - 1
  BY DEF TypeOK
<1>2. p \notin Elementos(rdy) /\ \A n \in 0 .. Niveles - 1 : p \notin Elementos(niveles[n])
  BY DEF EnReady
<1>3. /\ desalojo \ sinMarca \subseteq desalojo' /\ desalojo' \subseteq Pids
      /\ sem_hay_ready' = sem_hay_ready + 1
  BY VictimaEsProceso DEF AgregarAReady, TypeOK
<1>4. CASE algoritmo = "CMN"
  <2> DEFINE k == prioridad[p]
  <2>1. niveles' = [niveles EXCEPT ![k] = Append(@, p)] /\ rdy' = rdy
    BY <1>4 DEF AgregarAReady
  <2>2. k \in 0 .. Niveles - 1 /\ niveles[k] \in Seq(Pids)
    BY <1>1
  <2> HIDE DEF k
  <2>3. niveles'[k] = Append(niveles[k], p) /\ \A n \in (0 .. Niveles - 1) \ {k} : niveles'[n] = niveles[n]
    BY <1>1, <2>1, <2>2
  <2>4. /\ niveles'[k] \in Seq(Pids) /\ Elementos(niveles'[k]) = Elementos(niveles[k]) \cup {p}
        /\ SinRepetir(niveles'[k])
    BY <1>2, <2>2, <2>3, AgregarAlFinal DEF ReadySinRepetir
  <2>5. niveles' \in [0 .. Niveles - 1 -> Seq(Pids)]
    BY <1>1, <2>1, <2>2, <2>3, <2>4
  <2>6. \A n \in 0 .. Niveles - 1 :
            Elementos(niveles'[n]) = IF n = k THEN Elementos(niveles[k]) \cup {p} ELSE Elementos(niveles[n])
    BY <2>3, <2>4
  <2>7. EnReady' = EnReady \cup {p}
    BY <2>1, <2>2, <2>6 DEF EnReady
  <2>8. ReadySinRepetir'
    <3>1. SinRepetir(rdy')
      BY <2>1 DEF ReadySinRepetir
    <3>2. ASSUME NEW n \in 0 .. Niveles - 1
          PROVE  SinRepetir(niveles'[n]) /\ Elementos(niveles'[n]) \cap Elementos(rdy') = {}
      BY <1>2, <2>1, <2>3, <2>4, <2>6 DEF ReadySinRepetir
    <3>3. ASSUME NEW n \in 0 .. Niveles - 1, NEW m \in 0 .. Niveles - 1,
                 Elementos(niveles'[n]) \cap Elementos(niveles'[m]) # {}
          PROVE  n = m
      <4>1. CASE n # k /\ m # k
        BY <2>6, <3>3, <4>1 DEF ReadySinRepetir
      <4>2. CASE n = k /\ m # k
        BY <1>2, <2>6, <3>3, <4>2 DEF ReadySinRepetir
      <4>3. CASE n # k /\ m = k
        BY <1>2, <2>6, <3>3, <4>3 DEF ReadySinRepetir
      <4> QED
        BY <4>1, <4>2, <4>3
    <3> QED
      BY <3>1, <3>2, <3>3 DEF ReadySinRepetir
  <2> QED
    BY <1>1, <1>3, <2>1, <2>5, <2>7, <2>8
<1>5. CASE algoritmo # "CMN"
  <2>1. rdy' = Append(rdy, p) /\ niveles' = niveles
    BY <1>5 DEF AgregarAReady
  <2>2. /\ rdy' \in Seq(Pids) /\ Elementos(rdy') = Elementos(rdy) \cup {p} /\ SinRepetir(rdy')
    BY <1>1, <1>2, <2>1, AgregarAlFinal DEF ReadySinRepetir
  <2>3. ReadySinRepetir'
    BY <1>2, <2>1, <2>2 DEF ReadySinRepetir
  <2>4. EnReady' = EnReady \cup {p}
    BY <2>1, <2>2 DEF EnReady
  <2> QED
    BY <1>1, <1>3, <2>1, <2>2, <2>3, <2>4
<1> QED
  BY <1>4, <1>5

\* The same in front of the others, in a compaction.
LEMMA EntraAdelante ==
    ASSUME TypeOK, ReadySinRepetir, NEW p \in Pids, p \notin EnReady,
           rdy' = <<p>> \o rdy, niveles' = niveles
    PROVE  rdy' \in Seq(Pids) /\ ReadySinRepetir' /\ EnReady' = EnReady \cup {p}
<1>1. rdy \in Seq(Pids) /\ niveles \in [0 .. Niveles - 1 -> Seq(Pids)]
  BY DEF TypeOK
<1>2. p \notin Elementos(rdy) /\ \A n \in 0 .. Niveles - 1 : p \notin Elementos(niveles[n])
  BY DEF EnReady
<1>3. rdy' \in Seq(Pids) /\ Elementos(rdy') = Elementos(rdy) \cup {p} /\ SinRepetir(rdy')
  BY <1>1, <1>2, AgregarAdelante DEF ReadySinRepetir
<1>4. ReadySinRepetir'
  BY <1>2, <1>3 DEF ReadySinRepetir
<1> QED
  BY <1>3, <1>4 DEF EnReady

\* The process whose turn it is leaves READY.
LEMMA SaleDeReady ==
    ASSUME TypeOK, ReadySinRepetir, NEW c \in Cpus, NEW p \in Pids, MandarProceso(c, p)
    PROVE  /\ rdy' \in Seq(Pids) /\ niveles' \in [0 .. Niveles - 1 -> Seq(Pids)]
           /\ ReadySinRepetir' /\ p \in EnReady /\ EnReady' = EnReady \ {p}
<1>1. /\ rdy \in Seq(Pids) /\ niveles \in [0 .. Niveles - 1 -> Seq(Pids)]
  BY DEF TypeOK
<1>2. p \in Cabeza
  BY DEF MandarProceso, Candidatos
<1>3. CASE algoritmo = "CMN"
  <2>1. PICK k \in 0 .. Niveles - 1 : /\ niveles[k] # <<>> /\ p = Head(niveles[k])
                                      /\ \A m \in 0 .. k - 1 : niveles[m] = <<>>
    BY <1>2, <1>3 DEF Cabeza
  <2>2. ASSUME NEW n \in 0 .. Niveles - 1, niveles[n] # <<>>, \A m \in 0 .. n - 1 : niveles[m] = <<>>
        PROVE  n = k
    <3>1. ~(n < k) /\ ~(k < n)
      BY <2>1, <2>2
    <3> QED
      BY <3>1
  <2>3. niveles' = [n \in DOMAIN niveles |->
            IF niveles[n] # <<>> /\ \A m \in 0 .. n - 1 : niveles[m] = <<>>
            THEN Tail(niveles[n]) ELSE niveles[n]] /\ rdy' = rdy
    BY <1>3 DEF MandarProceso
  <2>4. niveles'[k] = Tail(niveles[k]) /\ \A n \in (0 .. Niveles - 1) \ {k} : niveles'[n] = niveles[n]
    BY <1>1, <2>1, <2>2, <2>3
  <2>5. /\ niveles'[k] \in Seq(Pids) /\ SinRepetir(niveles'[k])
        /\ Elementos(niveles'[k]) = Elementos(niveles[k]) \ {p} /\ p \in Elementos(niveles[k])
    <3>1. niveles[k] \in Seq(Pids) /\ SinRepetir(niveles[k])
      BY <1>1 DEF ReadySinRepetir
    <3> QED
      BY <2>1, <2>4, <3>1, SacarPrimero
  <2>6. niveles' \in [0 .. Niveles - 1 -> Seq(Pids)]
    <3>1. DOMAIN niveles' = 0 .. Niveles - 1 /\ niveles' = [n \in 0 .. Niveles - 1 |-> niveles'[n]]
      BY <1>1, <2>3
    <3>2. \A n \in 0 .. Niveles - 1 : niveles'[n] \in Seq(Pids)
      BY <1>1, <2>4, <2>5
    <3> QED
      BY <3>1, <3>2
  <2>7. \A n \in 0 .. Niveles - 1 : n # k => p \notin Elementos(niveles[n])
    BY <2>5 DEF ReadySinRepetir
  <2>8. p \notin Elementos(rdy)
    BY <2>5 DEF ReadySinRepetir
  <2>9. \A n \in 0 .. Niveles - 1 : Elementos(niveles'[n]) = Elementos(niveles[n]) \ {p}
    BY <2>4, <2>5, <2>7
  <2>10. p \in EnReady /\ EnReady' = EnReady \ {p}
    <3>1. p \in EnReady
      BY <2>5 DEF EnReady
    <3>2. EnReady' = Elementos(rdy) \cup UNION {Elementos(niveles'[n]) : n \in 0 .. Niveles - 1}
      BY <2>3 DEF EnReady
    <3>3. ASSUME NEW q PROVE q \in EnReady' <=> q \in EnReady \ {p}
      <4>1. q \in EnReady' <=> q \in Elementos(rdy) \/ \E n \in 0 .. Niveles - 1 : q \in Elementos(niveles'[n])
        BY <3>2
      <4>2. q \in EnReady <=> q \in Elementos(rdy) \/ \E n \in 0 .. Niveles - 1 : q \in Elementos(niveles[n])
        BY DEF EnReady
      <4> QED
        BY <2>8, <2>9, <4>1, <4>2
    <3> QED
      BY <3>1, <3>3
  <2>11. ReadySinRepetir'
    <3>1. SinRepetir(rdy')
      BY <2>3 DEF ReadySinRepetir
    <3>2. ASSUME NEW n \in 0 .. Niveles - 1
          PROVE  SinRepetir(niveles'[n]) /\ Elementos(niveles'[n]) \cap Elementos(rdy') = {}
      BY <2>3, <2>4, <2>5, <2>9 DEF ReadySinRepetir
    <3>3. ASSUME NEW n \in 0 .. Niveles - 1, NEW m \in 0 .. Niveles - 1,
                 Elementos(niveles'[n]) \cap Elementos(niveles'[m]) # {}
          PROVE  n = m
      BY <2>9, <3>3 DEF ReadySinRepetir
    <3> QED
      BY <3>1, <3>2, <3>3 DEF ReadySinRepetir
  <2> QED
    BY <1>1, <2>3, <2>6, <2>10, <2>11
<1>4. CASE algoritmo # "CMN"
  <2>1. rdy # <<>> /\ p = Head(rdy)
    BY <1>2, <1>4 DEF Cabeza
  <2>2. rdy' = Tail(rdy) /\ niveles' = niveles
    BY <1>4 DEF MandarProceso
  <2>3. /\ rdy' \in Seq(Pids) /\ SinRepetir(rdy')
        /\ Elementos(rdy') = Elementos(rdy) \ {p} /\ p \in Elementos(rdy)
    BY <1>1, <2>1, <2>2, SacarPrimero DEF ReadySinRepetir
  <2>4. \A n \in 0 .. Niveles - 1 : p \notin Elementos(niveles[n])
    BY <2>3 DEF ReadySinRepetir
  <2>5. ReadySinRepetir'
    BY <2>2, <2>3 DEF ReadySinRepetir
  <2>6. p \in EnReady /\ EnReady' = EnReady \ {p}
    BY <2>2, <2>3, <2>4 DEF EnReady
  <2> QED
    BY <1>1, <2>2, <2>3, <2>5, <2>6
<1> QED
  BY <1>3, <1>4

-----------------------------------------------------------------------------
(* Frames: what a step of CPU c and its thread has to show of each part of the
   invariant *)

LEMMA SemaforosIguales ==
    ASSUME Semaforos, NEW c \in Cpus,
           \A d \in Cpus \ {c} : hilo'[d] = hilo[d],
           UNCHANGED <<sem_compactacion, mutex_conexion_km>>,
           hilo[c].pc \in ConSem <=> hilo'[c].pc \in ConSem,
           hilo[c].pc \in ConMutex <=> hilo'[c].pc \in ConMutex,
           hilo'[c].pc \in Compactando => hilo[c].pc \in Compactando,
           compactacion_value => compactacion_value'
    PROVE  Semaforos'
<1> SUFFICES ASSUME NEW d \in Cpus
             PROVE  /\ sem_compactacion' = d <=> hilo'[d].pc \in ConSem
                    /\ mutex_conexion_km' = d <=> hilo'[d].pc \in ConMutex
                    /\ hilo'[d].pc \in Compactando => compactacion_value'
  BY DEF Semaforos
<1>1. CASE d = c
  BY <1>1 DEF Semaforos
<1>2. CASE d # c
  BY <1>2 DEF Semaforos
<1> QED
  BY <1>1, <1>2

LEMMA DueniosDeUna ==
    ASSUME TypeOK, Duenios, NEW c \in Cpus,
           \A d \in Cpus \ {c} : cpu'[d] = cpu[d] /\ hilo'[d] = hilo[d],
           DeCpu(c)',
           \A p \in Pids : ~Tiene(c, p) /\ ~Suelto(p) =>
               /\ estado_pcb'[p] = estado_pcb[p] /\ estado_anterior'[p] = estado_anterior[p]
               /\ espera'[p] = espera[p]
               /\ p \in desalojo => p \in desalojo',
           \A p \in Pids : Tiene(c, p)' => Tiene(c, p) \/ Suelto(p),
           \A p \in Pids : estado_pcb'[p] = "RNN" =>
               Tiene(c, p)' \/ (estado_pcb[p] = "RNN" /\ ~Tiene(c, p)),
           \A p \in Pids : espera'[p] # "no" <=> estado_pcb'[p] = "BCK"
    PROVE  Duenios'
<1>1. ASSUME NEW d \in Cpus PROVE DeCpu(d)'
  <2>1. CASE d = c
    BY <2>1
  <2>2. CASE d # c
    <3>1. cpu'[d] = cpu[d] /\ hilo'[d] = hilo[d] /\ DeCpu(d)
      BY <2>2 DEF Duenios
    <3>2. ASSUME NEW p \in Pids, p = cpu[d].pid \/ p = hilo[d].pid
          PROVE  /\ estado_pcb'[p] = estado_pcb[p] /\ estado_anterior'[p] = estado_anterior[p]
                 /\ espera'[p] = espera[p]
                 /\ p \in desalojo => p \in desalojo'
      <4>1. Tiene(d, p) /\ ~Tiene(c, p) /\ ~Suelto(p)
        BY <2>2, <3>2 DEF Duenios, Tiene, Suelto
      <4> QED
        BY <4>1
    <3>3. cpu[d].pid \in Pids \cup {Nadie} /\ hilo[d].pid \in Pids \cup {Nadie}
      BY DEF TypeOK
    <3>4. hilo[d].pc \in ConPid => hilo[d].pid \in Pids
      BY <3>1, <3>3 DEF DeCpu
    <3>5. hilo[d].pc \in Sirviendo => cpu[d].pid \in Pids
      BY <3>1, <3>3 DEF DeCpu
    <3>6. /\ hilo[d].pc = "despachar" => estado_pcb'[hilo[d].pid] = "RDY"
          /\ hilo[d].pc = "exit" => estado_pcb'[hilo[d].pid] = "RNN"
          /\ hilo[d].pc = "eliminar" => /\ estado_pcb'[hilo[d].pid] = "RDY"
                                        /\ estado_anterior'[hilo[d].pid] = "RNN"
      BY <3>1, <3>2, <3>4 DEF DeCpu, ConPid
    <3>7. cpu[d].pid # Nadie => /\ cpu[d].pid \in Pids
                                /\ estado_pcb'[cpu[d].pid] = estado_pcb[cpu[d].pid]
                                /\ espera'[cpu[d].pid] = espera[cpu[d].pid]
                                /\ cpu[d].pid \in desalojo => cpu[d].pid \in desalojo'
      BY <3>2, <3>3
    <3> QED
      BY <3>1, <3>6, <3>7 DEF DeCpu
  <2> QED
    BY <2>1, <2>2
<1>2. ASSUME NEW a \in Cpus, NEW b \in Cpus, NEW p \in Pids, Tiene(a, p)', Tiene(b, p)'
      PROVE  a = b
  <2>1. \A d \in Cpus \ {c} : Tiene(d, p)' => Tiene(d, p) /\ ~Suelto(p)
    BY DEF Tiene, Suelto
  <2>2. CASE a = c /\ b # c
    BY <1>2, <2>1, <2>2 DEF Duenios
  <2>3. CASE a # c /\ b = c
    BY <1>2, <2>1, <2>3 DEF Duenios
  <2>4. CASE a # c /\ b # c
    BY <1>2, <2>1, <2>4 DEF Duenios
  <2> QED
    BY <2>2, <2>3, <2>4
<1>3. ASSUME NEW p \in Pids, estado_pcb'[p] = "RNN" PROVE ~Suelto(p)'
  <2>1. CASE Tiene(c, p)'
    BY <2>1 DEF Suelto
  <2>2. CASE estado_pcb[p] = "RNN" /\ ~Tiene(c, p)
    <3>1. PICK d \in Cpus : Tiene(d, p)
      BY <2>2 DEF Duenios, Suelto
    <3>2. Tiene(d, p)'
      BY <2>2, <3>1 DEF Tiene
    <3> QED
      BY <3>2 DEF Suelto
  <2> QED
    BY <1>3, <2>1, <2>2
<1> QED
  BY <1>1, <1>2, <1>3 DEF Duenios

\* Who is in a place is the same as before when c was not there and is not.
LEMMA ConIgual ==
    ASSUME NEW c \in Cpus, NEW e,
           \A d \in Cpus \ {c} : hilo'[d] = hilo[d],
           hilo'[c] = hilo[c] \/ (hilo[c].pc # e /\ hilo'[c].pc # e)
    PROVE  Con(e)' = Con(e)
<1>1. {d \in Cpus : hilo'[d].pc = e} = {d \in Cpus : hilo[d].pc = e}
  OBVIOUS
<1>2. \A d \in {x \in Cpus : hilo[x].pc = e} : hilo'[d] = hilo[d]
  OBVIOUS
<1>3. ASSUME NEW q PROVE q \in Con(e)' <=> q \in Con(e)
  BY <1>1, <1>2 DEF Con
<1> QED
  BY <1>3

LEMMA ListasIguales ==
    ASSUME Listas, NEW c \in Cpus,
           \A d \in Cpus \ {c} : hilo'[d] = hilo[d],
           \/ hilo'[c] = hilo[c]
           \/ {hilo[c].pc, hilo'[c].pc} \cap {"eliminar", "despachar"} = {},
           UNCHANGED <<rnn, rdy, niveles, estado_pcb>>
    PROVE  Listas' /\ EnReady' = EnReady
<1>1. Con("eliminar")' = Con("eliminar") /\ Con("despachar")' = Con("despachar")
  BY ConIgual
<1>2. EnReady' = EnReady /\ (ReadySinRepetir <=> ReadySinRepetir')
  BY DEF EnReady, ReadySinRepetir
<1> QED
  BY <1>1, <1>2 DEF Listas, EnEstado

LEMMA FichasIguales ==
    ASSUME Fichas, NEW c \in Cpus,
           \A d \in Cpus \ {c} : hilo'[d] = hilo[d],
           hilo[c].pc \in {"sem_compactacion", "mandar"}
               <=> hilo'[c].pc \in {"sem_compactacion", "mandar"},
           UNCHANGED sem_hay_ready, EnReady' = EnReady
    PROVE  Fichas'
<1>1. Eligiendo' = Eligiendo
  BY DEF Eligiendo
<1> QED
  BY <1>1 DEF Fichas

LEMMA ReservasDeUna ==
    ASSUME TypeOK, Duenios, Reservas, NEW c \in Cpus,
           \A d \in Cpus \ {c} : cpu'[d] = cpu[d] /\ hilo'[d] = hilo[d],
           hilo'[c].pc = "fuera" => hilo[c].pc = "fuera",
           \A p \in Pids : Tiene(c, p) \/ Tiene(c, p)' => Reserva(p)',
           \A p \in Pids : ~Tiene(c, p) /\ ~Tiene(c, p)' =>
               /\ retorno_cpu'[p] = retorno_cpu[p]
               /\ estado_pcb[p] = "RDY" => estado_pcb'[p] = "RDY"
               /\ ~Suelto(p) => /\ estado_pcb'[p] = estado_pcb[p]
                                /\ p \in desalojo => p \in desalojo'
    PROVE  Reservas'
<1> SUFFICES ASSUME NEW p \in Pids, ~Tiene(c, p), ~Tiene(c, p)', retorno_cpu'[p] # <<>>
             PROVE  Reserva(p)'
  BY DEF Reservas, Reserva
<1> DEFINE h == Head(retorno_cpu[p])
<1>1. /\ retorno_cpu'[p] = retorno_cpu[p] /\ retorno_cpu[p] # <<>>
      /\ retorno_cpu[p] \in Seq(Cpus) /\ h \in Cpus
  BY DEF TypeOK
<1>2. /\ Len(retorno_cpu[p]) = 1 /\ hilo[h].pc # "fuera"
      /\ \/ estado_pcb[p] = "RDY" /\ p \notin Con("despachar")
         \/ /\ cpu[h].pid = p /\ estado_pcb[p] = "RNN"
            /\ hilo[h].pc \notin Sirviendo
            /\ cpu[h].paso # "ejecuta"
            /\ cpu[h].paso = "chequea" => p \in desalojo
  BY <1>1 DEF Reservas, Reserva
<1>3. hilo'[h].pc # "fuera"
  BY <1>1, <1>2
<1> HIDE DEF h
<1>4. CASE estado_pcb[p] = "RDY" /\ p \notin Con("despachar")
  <2>1. estado_pcb'[p] = "RDY"
    BY <1>4
  <2>2. p \notin Con("despachar")'
    <3> SUFFICES ASSUME NEW d \in Cpus, hilo'[d].pc = "despachar", hilo'[d].pid = p PROVE FALSE
      BY DEF Con
    <3>1. d # c
      BY DEF Tiene
    <3> QED
      BY <1>4, <3>1 DEF Con
  <2> QED
    BY <1>1, <1>2, <1>3, <2>1, <2>2 DEF Reserva, h
<1>5. CASE /\ cpu[h].pid = p /\ estado_pcb[p] = "RNN"
           /\ hilo[h].pc \notin Sirviendo
           /\ cpu[h].paso # "ejecuta"
           /\ cpu[h].paso = "chequea" => p \in desalojo
  <2>1. h # c /\ ~Suelto(p)
    BY <1>1, <1>5 DEF Tiene, Suelto
  <2>2. cpu'[h] = cpu[h] /\ hilo'[h] = hilo[h]
    BY <1>1, <2>1
  <2> QED
    BY <1>1, <1>2, <1>3, <1>5, <2>1, <2>2 DEF Reserva, h
<1> QED
  BY <1>2, <1>4, <1>5

LEMMA QuietaDeUna ==
    ASSUME Quieta, Semaforos, Semaforos', NEW c \in Cpus,
           \A d \in Cpus \ {c} : cpu'[d] = cpu[d] /\ hilo'[d] = hilo[d],
           hilo'[c].pc = "compactando" => hilo[c].pc = "compactando",
           \/ cpu'[c].pid = Nadie \/ cpu'[c].paso # "ejecuta" \/ cpu'[c] = cpu[c]
           \/ ~compactacion_value' \/ sem_compactacion = c
    PROVE  Quieta'
<1> SUFFICES ASSUME NEW a \in Cpus, hilo'[a].pc = "compactando", NEW d \in Cpus \ {a}
             PROVE  cpu'[d].pid = Nadie \/ cpu'[d].paso # "ejecuta"
  BY DEF Quieta
<1>1. hilo[a].pc = "compactando"
  OBVIOUS
<1>2. sem_compactacion = a /\ compactacion_value'
  BY <1>1 DEF Semaforos, ConSem, Compactando
<1>3. cpu[d].pid = Nadie \/ cpu[d].paso # "ejecuta"
  BY <1>1 DEF Quieta
<1>4. CASE d # c
  BY <1>3, <1>4
<1>5. CASE d = c
  BY <1>2, <1>3, <1>5
<1> QED
  BY <1>4, <1>5

-----------------------------------------------------------------------------
(* Steps that change no list and no state of a process *)

\* The thread of a CPU goes somewhere, and its CPU takes a step.
Lugares == {"sem_hay_ready", "sem_compactacion", "mandar", "despachar", "km", "recv",
            "mem_alloc", "mem_free", "init_proc", "exit", "compactar", "esperar_rnn",
            "compactando", "alloc_ok", "desalojo", "eliminar", "fuera"}
Pasos == {"ejecuta", "chequea", "guarda", "muerta"}
HiloOK == hilo \in [Cpus -> [pc : Lugares, pid : Pids \cup {Nadie}]]
CpuOK == cpu \in [Cpus -> [pid : Pids \cup {Nadie}, propio : BOOLEAN, paso : Pasos]]

LEMMA TiposDeCpu == TypeOK => HiloOK /\ CpuOK
BY DEF TypeOK, HiloOK, CpuOK, Lugares, Pasos

LEMMA HiloVa ==
    ASSUME TypeOK, NEW c \in Cpus, NEW e \in Lugares, NEW q \in Pids \cup {Nadie},
           IrCon(c, e, q)
    PROVE  /\ HiloOK' /\ hilo'[c].pc = e /\ hilo'[c].pid = q
           /\ \A d \in Cpus \ {c} : hilo'[d] = hilo[d]
<1>1. hilo' = [hilo EXCEPT ![c] = [pc |-> e, pid |-> q]] /\ HiloOK
  BY TiposDeCpu DEF IrCon
<1> QED
  BY <1>1 DEF HiloOK

LEMMA HiloVaSolo ==
    ASSUME TypeOK, NEW c \in Cpus, NEW e \in Lugares, Ir(c, e)
    PROVE  /\ HiloOK' /\ hilo'[c].pc = e /\ hilo'[c].pid = Nadie
           /\ \A d \in Cpus \ {c} : hilo'[d] = hilo[d]
BY HiloVa DEF Ir, IrCon

LEMMA CpuPasa ==
    ASSUME TypeOK, NEW c \in Cpus, NEW e \in Pasos, cpu' = [cpu EXCEPT ![c].paso = e]
    PROVE  /\ CpuOK' /\ cpu'[c].pid = cpu[c].pid /\ cpu'[c].propio = cpu[c].propio
           /\ cpu'[c].paso = e
           /\ \A d \in Cpus \ {c} : cpu'[d] = cpu[d]
<1>1. CpuOK
  BY TiposDeCpu
<1> QED
  BY <1>1 DEF CpuOK

LEMMA CpuSeVacia ==
    ASSUME TypeOK, NEW c \in Cpus, LuegoOciosa(c)
    PROVE  /\ CpuOK' /\ cpu'[c].pid = Nadie /\ cpu'[c].propio /\ cpu'[c].paso = "ejecuta"
           /\ \A d \in Cpus \ {c} : cpu'[d] = cpu[d]
<1>1. CpuOK
  BY TiposDeCpu
<1> QED
  BY <1>1 DEF CpuOK, LuegoOciosa, CpuOciosa, Pasos

LEMMA EligiendoIgual ==
    ASSUME NEW c \in Cpus, \A d \in Cpus \ {c} : hilo'[d] = hilo[d],
           hilo[c].pc \in {"sem_compactacion", "mandar"}
               <=> hilo'[c].pc \in {"sem_compactacion", "mandar"}
    PROVE  Eligiendo' = Eligiendo
BY DEF Eligiendo

LEMMA PasoSinListas ==
    ASSUME IInv, TypeOK', Semaforos', Quieta', NEW c \in Cpus,
           \A d \in Cpus \ {c} : cpu'[d] = cpu[d] /\ hilo'[d] = hilo[d],
           UNCHANGED <<estado_pcb, estado_anterior, espera, rnn, rdy, niveles>>,
           \/ hilo'[c] = hilo[c]
           \/ {hilo[c].pc, hilo'[c].pc} \cap {"eliminar", "despachar"} = {},
           hilo'[c].pc = "fuera" => hilo[c].pc = "fuera",
           sem_hay_ready' + Cardinality(Eligiendo)' = sem_hay_ready + Cardinality(Eligiendo),
           DeCpu(c)',
           \A p \in Pids : Tiene(c, p)' <=> Tiene(c, p),
           \A p \in Pids : Tiene(c, p) => Reserva(p)',
           \A p \in Pids : ~Tiene(c, p) => /\ retorno_cpu'[p] = retorno_cpu[p]
                                           /\ p \in desalojo => p \in desalojo'
    PROVE  IInv'
<1> USE DEF IInv
<1>1. Duenios'
  <2>1. \A p \in Pids : espera'[p] # "no" <=> estado_pcb'[p] = "BCK"
    BY DEF Duenios
  <2>2. \A p \in Pids : estado_pcb'[p] = "RNN" =>
               Tiene(c, p)' \/ (estado_pcb[p] = "RNN" /\ ~Tiene(c, p))
    OBVIOUS
  <2> QED
    BY <2>1, <2>2, DueniosDeUna
<1>2. Listas' /\ EnReady' = EnReady
  BY ListasIguales
<1>3. Fichas'
  BY <1>2 DEF Fichas
<1>4. Reservas'
  BY ReservasDeUna
<1> QED
  BY <1>1, <1>2, <1>3, <1>4

\* A process whose CPU serves it, or is running it, has nothing reserved.
LEMMA NadaReservado ==
    ASSUME IInv, NEW c \in Cpus, cpu[c].pid # Nadie,
           hilo[c].pc \in Sirviendo \/ cpu[c].paso = "ejecuta"
    PROVE  /\ cpu[c].pid \in Pids /\ estado_pcb[cpu[c].pid] = "RNN"
           /\ retorno_cpu[cpu[c].pid] = <<>>
<1> DEFINE p == cpu[c].pid
<1>1. p \in Pids
  BY DEF IInv, TypeOK
<1>2. estado_pcb[p] = "RNN"
  BY DEF IInv, Duenios, DeCpu
<1>3. ASSUME retorno_cpu[p] # <<>> PROVE FALSE
  <2> DEFINE h == Head(retorno_cpu[p])
  <2>1. h \in Cpus
    BY <1>1, <1>3 DEF IInv, TypeOK
  <2>2. cpu[h].pid = p /\ hilo[h].pc \notin Sirviendo /\ cpu[h].paso # "ejecuta"
    BY <1>1, <1>2, <1>3 DEF IInv, Reservas, Reserva
  <2>3. h = c
    BY <1>1, <2>1, <2>2 DEF IInv, Duenios, Tiene
  <2> QED
    BY <2>2, <2>3
<1> QED
  BY <1>1, <1>2, <1>3

LEMMA ReservaUna ==
    ASSUME TypeOK, NEW c \in Cpus, NEW p \in Pids, retorno_cpu[p] = <<>>,
           retorno_cpu' = [retorno_cpu EXCEPT ![p] = Append(@, c)]
    PROVE  /\ retorno_cpu' \in [Pids -> Seq(Cpus)]
           /\ retorno_cpu'[p] # <<>> /\ Len(retorno_cpu'[p]) = 1 /\ Head(retorno_cpu'[p]) = c
           /\ \A q \in Pids \ {p} : retorno_cpu'[q] = retorno_cpu[q]
BY DEF TypeOK

LEMMA ReservaQuitada ==
    ASSUME IInv, NEW p \in Pids, retorno_cpu' = SinReserva(p)
    PROVE  /\ retorno_cpu' \in [Pids -> Seq(Cpus)]
           /\ retorno_cpu'[p] = <<>>
           /\ \A q \in Pids \ {p} : retorno_cpu'[q] = retorno_cpu[q]
<1>1. retorno_cpu \in [Pids -> Seq(Cpus)]
  BY DEF IInv, TypeOK
<1>2. retorno_cpu[p] = <<>> \/ Len(retorno_cpu[p]) = 1
  BY DEF IInv, Reservas, Reserva
<1>3. ASSUME retorno_cpu[p] # <<>> PROVE Tail(retorno_cpu[p]) = <<>>
  <2>1. Tail(retorno_cpu[p]) \in Seq(Cpus) /\ Len(Tail(retorno_cpu[p])) = 0
    BY <1>1, <1>2, <1>3
  <2> QED
    BY <2>1, EmptySeq
<1> QED
  BY <1>1, <1>3 DEF SinReserva

LEMMA PasoTomarFicha ==
    ASSUME IInv, NEW c \in Cpus, TomarFicha(c) PROVE IInv'
<1> USE DEF IInv
<1>1. /\ \A d \in Cpus \ {c} : hilo'[d] = hilo[d]
      /\ hilo[c].pc = "sem_hay_ready"
      /\ hilo'[c] = [pc |-> "sem_compactacion", pid |-> Nadie]
      /\ UNCHANGED <<algoritmo, procesos, rdy, niveles, rnn, suplementarias, compac,
                     mutex_conexion_km, cpu>>
  BY DEF TomarFicha, Ir, TypeOK
<1>2. TypeOK'
  BY DEF TomarFicha, Ir, TypeOK, procesos, suplementarias, compac
<1>3. Semaforos'
  BY <1>1, SemaforosIguales DEF ConSem, ConMutex, Compactando, compac
<1>4. Quieta'
  BY <1>1, <1>3, QuietaDeUna DEF compac
<1>5. sem_hay_ready' + Cardinality(Eligiendo)' = sem_hay_ready + Cardinality(Eligiendo)
  <2>1. c \notin Eligiendo /\ Eligiendo' = Eligiendo \cup {c}
    BY <1>1 DEF Eligiendo
  <2>2. IsFiniteSet(Eligiendo)
    BY PlanAssumption, FS_Subset DEF Eligiendo
  <2>3. Cardinality(Eligiendo') = Cardinality(Eligiendo) + 1 /\ Cardinality(Eligiendo) \in Nat
    BY <2>1, <2>2, FS_AddElement, FS_CardinalityType
  <2> QED
    BY <2>3 DEF TomarFicha, TypeOK
<1>6. DeCpu(c)' /\ \A p \in Pids : Tiene(c, p)' <=> Tiene(c, p)
  BY <1>1 DEF Duenios, DeCpu, Tiene, SinProceso, ConPid, Sirviendo, Compactando, procesos, suplementarias
<1>7. \A p \in Pids : ~Tiene(c, p)
  BY <1>1, PlanAssumption DEF Duenios, DeCpu, Tiene, SinProceso, ConPid
<1> QED
  BY <1>1, <1>2, <1>3, <1>4, <1>5, <1>6, <1>7, PasoSinListas DEF procesos, suplementarias

\* mutex_create, mem_alloc, mem_free and init_proc take the request of the process
\* that is running; only the first reserves its CPU at once.
LEMMA PasoPedido ==
    ASSUME IInv, NEW c \in Cpus,
           SyscallMutex(c) \/ MemAlloc(c) \/ MemFree(c) \/ init_proc(c)
    PROVE  IInv'
<1> USE DEF IInv
<1>0. PICK p : p = cpu[c].pid
  OBVIOUS
<1>1. /\ hilo[c].pc = "recv" /\ p # Nadie /\ cpu[c].paso = "ejecuta"
      /\ UNCHANGED <<algoritmo, procesos, ready, rnn, compac, mutex_conexion_km>>
      /\ desalojo \subseteq desalojo' /\ desalojo' \subseteq desalojo \cup {p}
  BY <1>0 DEF SyscallMutex, MemAlloc, MemFree, init_proc, Pide, DesalojarMismaCpu, suplementarias
<1>2. p \in Pids /\ retorno_cpu[p] = <<>> /\ estado_pcb[p] = "RNN"
  BY <1>0, <1>1, NadaReservado
<1>3. /\ \A d \in Cpus \ {c} : hilo'[d] = hilo[d] /\ cpu'[d] = cpu[d]
      /\ hilo'[c].pc \in {"km", "mem_alloc", "mem_free", "init_proc"} /\ hilo'[c].pid = Nadie
      /\ cpu'[c].pid = p /\ cpu'[c].propio = cpu[c].propio /\ cpu'[c].paso = "chequea"
      /\ hilo[c].pid = Nadie /\ HiloOK' /\ CpuOK'
  <2>1. PICK e \in {"km", "mem_alloc", "mem_free", "init_proc"} : Ir(c, e)
    BY DEF SyscallMutex, MemAlloc, MemFree, init_proc
  <2>2. e \in Lugares /\ "chequea" \in Pasos
    BY DEF Lugares, Pasos
  <2>3. cpu' = [cpu EXCEPT ![c].paso = "chequea"]
    BY DEF SyscallMutex, MemAlloc, MemFree, init_proc, LuegoChequea
  <2>4. hilo[c].pid = Nadie
    BY <1>1 DEF Duenios, DeCpu, ConPid
  <2> QED
    BY <1>0, <2>1, <2>2, <2>3, <2>4, HiloVaSolo, CpuPasa
<1>4. /\ retorno_cpu' \in [Pids -> Seq(Cpus)]
      /\ \A q \in Pids \ {p} : retorno_cpu'[q] = retorno_cpu[q]
      /\ \/ retorno_cpu'[p] = <<>>
         \/ /\ Len(retorno_cpu'[p]) = 1 /\ Head(retorno_cpu'[p]) = c
            /\ hilo'[c].pc = "km" /\ p \in desalojo'
  <2>1. CASE SyscallMutex(c)
    BY <1>0, <1>2, <1>3, <2>1, ReservaUna DEF SyscallMutex, DesalojarMismaCpu, Ir, TypeOK
  <2>2. CASE MemAlloc(c) \/ MemFree(c) \/ init_proc(c)
    BY <1>2, <2>2 DEF MemAlloc, MemFree, init_proc, suplementarias, TypeOK
  <2> QED
    BY <2>1, <2>2
<1>5. TypeOK'
  <2>1. desalojo' \subseteq Pids
    BY <1>1, <1>2 DEF TypeOK
  <2> QED
    BY <1>1, <1>3, <1>4, <2>1
       DEF TypeOK, procesos, ready, compac, HiloOK, CpuOK, Lugares, Pasos
<1>6. Semaforos'
  BY <1>1, <1>3, SemaforosIguales DEF ConSem, ConMutex, Compactando, compac
<1>7. Quieta'
  BY <1>0, <1>1, <1>3, <1>6, QuietaDeUna
<1>8. Eligiendo' = Eligiendo
  BY <1>1, <1>3, EligiendoIgual
<1>9. DeCpu(c)' /\ \A q \in Pids : Tiene(c, q)' <=> Tiene(c, q)
  BY <1>0, <1>1, <1>2, <1>3
     DEF Duenios, DeCpu, Tiene, SinProceso, ConPid, Sirviendo, Compactando, procesos
<1>10. \A q \in Pids : Tiene(c, q) => Reserva(q)'
  <2>1. \A q \in Pids : Tiene(c, q) => q = p
    BY <1>0, <1>3, PlanAssumption DEF Tiene
  <2>2. Reserva(p)'
    BY <1>1, <1>2, <1>3, <1>4 DEF Reserva, Sirviendo, Compactando, procesos
  <2> QED
    BY <2>1, <2>2
<1>11. \A q \in Pids : ~Tiene(c, q) => retorno_cpu'[q] = retorno_cpu[q]
  BY <1>0, <1>4 DEF Tiene
<1> QED
  BY <1>1, <1>3, <1>5, <1>6, <1>7, <1>8, <1>9, <1>10, <1>11, PasoSinListas DEF procesos, ready

\* mem_free, mem_alloc and the end of a compaction: the answer of Kernel Memory, and
\* the process must leave its CPU.
LEMMA PasoRespuestaKM ==
    ASSUME IInv, NEW c \in Cpus, FinMemFree(c) \/ AllocResponde(c) \/ AllocOk(c)
    PROVE  IInv'
<1> USE DEF IInv
<1>0. PICK p : p = cpu[c].pid
  OBVIOUS
<1>1. /\ hilo[c].pc \in {"mem_free", "mem_alloc", "alloc_ok"}
      /\ UNCHANGED <<algoritmo, procesos, ready, rnn, compac, cpu>>
      /\ Ir(c, "km") /\ desalojo' = desalojo \cup {p}
      /\ \/ retorno_cpu' = [retorno_cpu EXCEPT ![p] = Append(@, c)] \/ UNCHANGED retorno_cpu
      /\ IF hilo[c].pc = "alloc_ok" THEN mutex_conexion_km' = Nadie ELSE UNCHANGED mutex_conexion_km
  BY <1>0 DEF FinMemFree, AllocResponde, AllocOk, DesalojarMismaCpu
<1>2. /\ p \in Pids /\ retorno_cpu[p] = <<>> /\ estado_pcb[p] = "RNN"
      /\ cpu[c].paso \in {"chequea", "muerta"} /\ hilo[c].pid = Nadie
  <2>1. hilo[c].pc \in Sirviendo /\ hilo[c].pc \notin ConPid
    BY <1>1 DEF Sirviendo, ConPid
  <2> QED
    BY <1>0, <2>1, NadaReservado DEF Duenios, DeCpu
<1>3. /\ \A d \in Cpus \ {c} : hilo'[d] = hilo[d]
      /\ hilo'[c].pc = "km" /\ hilo'[c].pid = Nadie /\ HiloOK'
  BY <1>1, HiloVaSolo DEF Lugares
<1>4. /\ retorno_cpu' \in [Pids -> Seq(Cpus)]
      /\ \A q \in Pids \ {p} : retorno_cpu'[q] = retorno_cpu[q]
      /\ \/ retorno_cpu'[p] = <<>>
         \/ Len(retorno_cpu'[p]) = 1 /\ Head(retorno_cpu'[p]) = c
  BY <1>1, <1>2, ReservaUna DEF TypeOK
<1>5. TypeOK'
  BY <1>1, <1>2, <1>3, <1>4 DEF TypeOK, procesos, ready, compac, HiloOK, Lugares
<1>6. Semaforos'
  <2>1. CASE hilo[c].pc # "alloc_ok"
    BY <1>1, <1>3, <2>1, SemaforosIguales DEF ConSem, ConMutex, Compactando, compac
  <2>2. CASE hilo[c].pc = "alloc_ok"
    BY <1>1, <1>3, <2>2, PlanAssumption DEF Semaforos, ConSem, ConMutex, Compactando, compac
  <2> QED
    BY <2>1, <2>2
<1>7. Quieta'
  BY <1>1, <1>3, <1>6, QuietaDeUna
<1>8. Eligiendo' = Eligiendo
  BY <1>1, <1>3, EligiendoIgual
<1>9. DeCpu(c)' /\ \A q \in Pids : Tiene(c, q)' <=> Tiene(c, q)
  BY <1>0, <1>1, <1>2, <1>3
     DEF Duenios, DeCpu, Tiene, SinProceso, ConPid, Sirviendo, Compactando, procesos
<1>10. \A q \in Pids : Tiene(c, q) => Reserva(q)'
  <2>1. \A q \in Pids : Tiene(c, q) => q = p
    BY <1>0, <1>2, PlanAssumption DEF Tiene
  <2>2. Reserva(p)'
    BY <1>0, <1>1, <1>2, <1>3, <1>4 DEF Reserva, Sirviendo, Compactando, procesos
  <2> QED
    BY <2>1, <2>2
<1>11. \A q \in Pids : ~Tiene(c, q) => retorno_cpu'[q] = retorno_cpu[q]
  BY <1>0, <1>4 DEF Tiene
<1> QED
  BY <1>1, <1>3, <1>5, <1>6, <1>7, <1>8, <1>9, <1>10, <1>11, PasoSinListas DEF procesos, ready

\* The steps of a compaction before its answer.
LEMMA PasoCompactacion ==
    ASSUME IInv, NEW c \in Cpus,
           PedirCompactacion(c) \/ Compactacion(c) \/ RnnVacio(c) \/ CompactacionFinalizada(c)
    PROVE  IInv'
<1> USE DEF IInv
<1>0. PICK p : p = cpu[c].pid
  OBVIOUS
<1>1. /\ hilo[c].pc \in {"mem_alloc", "compactar", "esperar_rnn", "compactando"}
      /\ UNCHANGED <<algoritmo, procesos, ready, rnn, suplementarias, cpu>>
  BY DEF PedirCompactacion, Compactacion, RnnVacio, CompactacionFinalizada
<1>2. /\ p \in Pids /\ retorno_cpu[p] = <<>> /\ estado_pcb[p] = "RNN"
      /\ cpu[c].paso \in {"chequea", "muerta"} /\ hilo[c].pid = Nadie
  <2>1. hilo[c].pc \in Sirviendo /\ hilo[c].pc \notin ConPid
    BY <1>1 DEF Sirviendo, Compactando, ConPid
  <2> QED
    BY <1>0, <2>1, NadaReservado DEF Duenios, DeCpu
<1>3. PICK e \in Compactando \cup {"alloc_ok"} : Ir(c, e)
  BY DEF PedirCompactacion, Compactacion, RnnVacio, CompactacionFinalizada, Compactando
<1>4. /\ \A d \in Cpus \ {c} : hilo'[d] = hilo[d]
      /\ hilo'[c].pc = e /\ hilo'[c].pid = Nadie /\ HiloOK'
  BY <1>3, HiloVaSolo DEF Lugares, Compactando
<1>5. /\ compactacion_value' \in BOOLEAN /\ sem_compactacion' \in Cpus \cup {Nadie}
      /\ mutex_conexion_km' \in Cpus \cup {Nadie}
  BY DEF PedirCompactacion, Compactacion, RnnVacio, CompactacionFinalizada, TypeOK, compac
<1>6. TypeOK'
  BY <1>1, <1>4, <1>5 DEF TypeOK, procesos, ready, suplementarias, HiloOK, Lugares
<1>7. Semaforos'
  <2> SUFFICES ASSUME NEW d \in Cpus
               PROVE  /\ sem_compactacion' = d <=> hilo'[d].pc \in ConSem
                      /\ mutex_conexion_km' = d <=> hilo'[d].pc \in ConMutex
                      /\ hilo'[d].pc \in Compactando => compactacion_value'
    BY DEF Semaforos
  <2>1. Nadie # d /\ Nadie # c
    BY PlanAssumption
  <2>2. CASE PedirCompactacion(c)
    <3>1. hilo[c].pc = "mem_alloc" /\ hilo'[c].pc = "compactar"
      BY <2>2 DEF PedirCompactacion, Ir, TypeOK
    <3> QED
      BY <1>4, <2>1, <2>2, <3>1 DEF PedirCompactacion, Semaforos, ConSem, ConMutex, Compactando
  <2>3. CASE Compactacion(c)
    <3>1. hilo[c].pc = "compactar" /\ hilo'[c].pc = "esperar_rnn"
      BY <2>3 DEF Compactacion, Ir, TypeOK
    <3> QED
      BY <1>4, <2>1, <2>3, <3>1 DEF Compactacion, Semaforos, ConSem, ConMutex, Compactando
  <2>4. CASE RnnVacio(c)
    <3>1. hilo[c].pc = "esperar_rnn" /\ hilo'[c].pc = "compactando"
      BY <2>4 DEF RnnVacio, Ir, TypeOK
    <3> QED
      BY <1>4, <2>1, <2>4, <3>1 DEF RnnVacio, Semaforos, ConSem, ConMutex, Compactando, compac
  <2>5. CASE CompactacionFinalizada(c)
    <3>1. hilo[c].pc = "compactando" /\ hilo'[c].pc = "alloc_ok"
      BY <2>5 DEF CompactacionFinalizada, Ir, TypeOK
    <3> QED
      BY <1>4, <2>1, <2>5, <3>1
         DEF CompactacionFinalizada, Semaforos, ConSem, ConMutex, Compactando
  <2> QED
    BY <2>2, <2>3, <2>4, <2>5
<1>8. Quieta'
  <2>1. CASE RnnVacio(c)
    <3> SUFFICES ASSUME NEW a \in Cpus, hilo'[a].pc = "compactando", NEW d \in Cpus \ {a},
                        cpu[d].pid # Nadie, cpu[d].paso = "ejecuta"
                 PROVE  FALSE
      BY <1>1 DEF Quieta
    <3>1. a = c
      BY <1>7, <2>1, <1>4, PlanAssumption
         DEF Semaforos, ConMutex, Compactando, RnnVacio, Ir, TypeOK
    <3>2. cpu[d].pid \in Elementos(rnn)
      BY NadaReservado DEF Listas, EnEstado
    <3>3. cpu[d].pid # cpu[c].pid
      BY <1>0, <1>2, <3>1 DEF Duenios, Tiene
    <3> QED
      BY <2>1, <3>2, <3>3 DEF RnnVacio, hay_otro_proceso_ejecutando, Elementos
  <2>2. CASE ~RnnVacio(c)
    <3>1. hilo'[c].pc # "compactando"
      BY <2>2, <1>4 DEF PedirCompactacion, Compactacion, CompactacionFinalizada, Ir, TypeOK
    <3> QED
      BY <1>1, <1>4, <1>7, <3>1, QuietaDeUna
  <2> QED
    BY <2>1, <2>2
<1>9. Eligiendo' = Eligiendo
  BY <1>1, <1>4, EligiendoIgual DEF Compactando
<1>10. DeCpu(c)' /\ \A q \in Pids : Tiene(c, q)' <=> Tiene(c, q)
  BY <1>0, <1>1, <1>2, <1>4
     DEF Duenios, DeCpu, Tiene, SinProceso, ConPid, Sirviendo, Compactando, procesos, suplementarias
<1>11. \A q \in Pids : Tiene(c, q) => Reserva(q)'
  <2>1. \A q \in Pids : Tiene(c, q) => q = p
    BY <1>0, <1>2, PlanAssumption DEF Tiene
  <2>2. Reserva(p)'
    BY <1>1, <1>2 DEF Reserva, suplementarias
  <2> QED
    BY <2>1, <2>2
<1>12. hilo'[c].pc # "fuera" /\ {hilo[c].pc, hilo'[c].pc} \cap {"eliminar", "despachar"} = {}
  BY <1>1, <1>4 DEF Compactando
<1> QED
  BY <1>1, <1>4, <1>6, <1>7, <1>8, <1>9, <1>10, <1>11, <1>12, PasoSinListas
     DEF procesos, ready, suplementarias

LEMMA PasoTomarSemCompactacion ==
    ASSUME IInv, NEW c \in Cpus, TomarSemCompactacion(c) PROVE IInv'
<1> USE DEF IInv
<1>1. /\ hilo[c].pc = "sem_compactacion" /\ sem_compactacion = Nadie /\ sem_compactacion' = c
      /\ UNCHANGED <<algoritmo, procesos, ready, rnn, suplementarias, compactacion_value,
                     mutex_conexion_km, cpu>>
  BY DEF TomarSemCompactacion
<1>2. /\ \A d \in Cpus \ {c} : hilo'[d] = hilo[d]
      /\ hilo'[c].pc = "mandar" /\ hilo'[c].pid = Nadie /\ HiloOK'
  BY HiloVaSolo DEF TomarSemCompactacion, Lugares
<1>3. TypeOK'
  BY <1>1, <1>2 DEF TypeOK, procesos, ready, suplementarias, HiloOK, Lugares
<1>4. Semaforos'
  <2> SUFFICES ASSUME NEW d \in Cpus
               PROVE  /\ sem_compactacion' = d <=> hilo'[d].pc \in ConSem
                      /\ mutex_conexion_km' = d <=> hilo'[d].pc \in ConMutex
                      /\ hilo'[d].pc \in Compactando => compactacion_value'
    BY DEF Semaforos
  <2> QED
    BY <1>1, <1>2, PlanAssumption DEF Semaforos, ConSem, ConMutex, Compactando
<1>5. Quieta'
  BY <1>1, <1>2, <1>4, QuietaDeUna
<1>6. Eligiendo' = Eligiendo
  BY <1>1, <1>2, EligiendoIgual
<1>7. DeCpu(c)' /\ \A p \in Pids : Tiene(c, p)' <=> Tiene(c, p)
  BY <1>1, <1>2
     DEF Duenios, DeCpu, Tiene, SinProceso, ConPid, Sirviendo, Compactando, procesos, suplementarias
<1>8. \A p \in Pids : ~Tiene(c, p)
  BY <1>1, PlanAssumption DEF Duenios, DeCpu, Tiene, SinProceso, ConPid
<1> QED
  BY <1>1, <1>2, <1>3, <1>4, <1>5, <1>6, <1>7, <1>8, PasoSinListas
     DEF procesos, ready, suplementarias

LEMMA PasoNoMandar ==
    ASSUME IInv, NEW c \in Cpus, NoMandar(c) PROVE IInv'
<1> USE DEF IInv
<1>1. /\ hilo[c].pc = "mandar" /\ sem_compactacion' = Nadie
      /\ UNCHANGED <<algoritmo, procesos, rdy, niveles, rnn, suplementarias,
                     compactacion_value, mutex_conexion_km, cpu>>
  BY DEF NoMandar
<1>2. /\ \A d \in Cpus \ {c} : hilo'[d] = hilo[d]
      /\ hilo'[c].pc = "sem_hay_ready" /\ hilo'[c].pid = Nadie /\ HiloOK'
  BY HiloVaSolo DEF NoMandar, Lugares
<1>3. sem_hay_ready' = sem_hay_ready + 1 /\ sem_hay_ready \in Nat
  BY DEF NoMandar, TypeOK
<1>4. TypeOK'
  BY <1>1, <1>2, <1>3 DEF TypeOK, procesos, suplementarias, HiloOK, Lugares
<1>5. Semaforos'
  <2> SUFFICES ASSUME NEW d \in Cpus
               PROVE  /\ sem_compactacion' = d <=> hilo'[d].pc \in ConSem
                      /\ mutex_conexion_km' = d <=> hilo'[d].pc \in ConMutex
                      /\ hilo'[d].pc \in Compactando => compactacion_value'
    BY DEF Semaforos
  <2> QED
    BY <1>1, <1>2, PlanAssumption DEF Semaforos, ConSem, ConMutex, Compactando
<1>6. Quieta'
  BY <1>1, <1>2, <1>5, QuietaDeUna
<1>7. sem_hay_ready' + Cardinality(Eligiendo)' = sem_hay_ready + Cardinality(Eligiendo)
  <2>1. c \in Eligiendo /\ Eligiendo' = Eligiendo \ {c}
    BY <1>1, <1>2 DEF Eligiendo
  <2>2. IsFiniteSet(Eligiendo)
    BY PlanAssumption, FS_Subset DEF Eligiendo
  <2>3. Cardinality(Eligiendo') = Cardinality(Eligiendo) - 1 /\ Cardinality(Eligiendo) \in Nat
    BY <2>1, <2>2, FS_RemoveElement, FS_CardinalityType
  <2> QED
    BY <1>3, <2>3
<1>8. DeCpu(c)' /\ \A p \in Pids : Tiene(c, p)' <=> Tiene(c, p)
  BY <1>1, <1>2
     DEF Duenios, DeCpu, Tiene, SinProceso, ConPid, Sirviendo, Compactando, procesos, suplementarias
<1>9. \A p \in Pids : ~Tiene(c, p)
  BY <1>1, PlanAssumption DEF Duenios, DeCpu, Tiene, SinProceso, ConPid
<1> QED
  BY <1>1, <1>2, <1>4, <1>5, <1>6, <1>7, <1>8, <1>9, PasoSinListas
     DEF procesos, suplementarias

LEMMA PasoConsultarKM ==
    ASSUME IInv, NEW c \in Cpus, ConsultarKM(c) PROVE IInv'
<1> USE DEF IInv
<1>1. /\ hilo[c].pc = "km"
      /\ UNCHANGED <<algoritmo, procesos, ready, rnn, suplementarias, compac,
                     mutex_conexion_km, cpu>>
  BY DEF ConsultarKM
<1>2. PICK e \in {"sem_hay_ready", "recv"} : Ir(c, e) /\ (e = "recv" \/ cpu[c].pid = Nadie)
  BY DEF ConsultarKM
<1>3. /\ \A d \in Cpus \ {c} : hilo'[d] = hilo[d]
      /\ hilo'[c].pc = e /\ hilo'[c].pid = Nadie /\ HiloOK'
  BY <1>2, HiloVaSolo DEF Lugares
<1>4. TypeOK'
  BY <1>1, <1>3 DEF TypeOK, procesos, ready, suplementarias, compac, HiloOK, Lugares
<1>5. Semaforos'
  BY <1>1, <1>3, SemaforosIguales DEF ConSem, ConMutex, Compactando, compac
<1>6. Quieta'
  BY <1>1, <1>3, <1>5, QuietaDeUna
<1>7. Eligiendo' = Eligiendo
  BY <1>1, <1>3, EligiendoIgual
<1>8. DeCpu(c)' /\ \A p \in Pids : Tiene(c, p)' <=> Tiene(c, p)
  BY <1>1, <1>2, <1>3
     DEF Duenios, DeCpu, Tiene, SinProceso, ConPid, Sirviendo, Compactando, procesos, suplementarias
<1>9. ASSUME NEW p \in Pids, Tiene(c, p) PROVE Reserva(p)'
  <2>1. cpu[c].pid = p
    BY <1>1, <1>9, PlanAssumption DEF Duenios, DeCpu, Tiene, ConPid
  <2>2. retorno_cpu[p] # <<>> => Head(retorno_cpu[p]) = c
    <3>1. retorno_cpu[p] # <<>> => Head(retorno_cpu[p]) \in Cpus
      BY DEF TypeOK
    <3>2. estado_pcb[p] # "RDY"
      BY <2>1, PlanAssumption DEF Duenios, DeCpu
    <3> QED
      BY <1>9, <3>1, <3>2 DEF Reservas, Reserva, Duenios, Tiene
  <2> QED
    BY <1>1, <1>3, <2>1, <2>2, PlanAssumption
       DEF Reservas, Reserva, Duenios, DeCpu, Sirviendo, Compactando, procesos, suplementarias
<1> QED
  BY <1>1, <1>3, <1>4, <1>5, <1>6, <1>7, <1>8, <1>9, PasoSinListas
     DEF procesos, ready, suplementarias

LEMMA PasoInstruccion ==
    ASSUME IInv, NEW c \in Cpus, Instruccion(c) PROVE IInv'
<1> USE DEF IInv
<1>1. /\ cpu[c].pid # Nadie /\ cpu[c].paso = "ejecuta"
      /\ UNCHANGED <<algoritmo, procesos, ready, rnn, suplementarias, compac,
                     mutex_conexion_km, hilo>>
  BY DEF Instruccion
<1>2. /\ CpuOK' /\ cpu'[c].pid = cpu[c].pid /\ cpu'[c].propio = cpu[c].propio
      /\ cpu'[c].paso = "chequea"
      /\ \A d \in Cpus \ {c} : cpu'[d] = cpu[d]
  BY CpuPasa DEF Instruccion, Pasos
<1>3. TypeOK'
  BY <1>1, <1>2 DEF TypeOK, procesos, ready, suplementarias, compac, CpuOK, Pasos
<1>4. Semaforos'
  BY <1>1, SemaforosIguales DEF compac
<1>5. Quieta'
  BY <1>1, <1>2, <1>4, QuietaDeUna
<1>6. Eligiendo' = Eligiendo
  BY <1>1, EligiendoIgual
<1>7. DeCpu(c)' /\ \A p \in Pids : Tiene(c, p)' <=> Tiene(c, p)
  BY <1>1, <1>2, NadaReservado DEF Duenios, DeCpu, Tiene, procesos, suplementarias
<1>8. ASSUME NEW p \in Pids, Tiene(c, p) PROVE Reserva(p)'
  <2>1. hilo[c].pid = Nadie
    BY <1>1 DEF Duenios, DeCpu, SinProceso
  <2>2. p = cpu[c].pid
    BY <1>8, <2>1, PlanAssumption DEF Tiene
  <2> QED
    BY <1>1, <2>2, NadaReservado DEF Reserva, suplementarias
<1> QED
  BY <1>1, <1>2, <1>3, <1>4, <1>5, <1>6, <1>7, <1>8, PasoSinListas
     DEF procesos, ready, suplementarias

LEMMA PasoCaida ==
    ASSUME IInv, NEW c \in Cpus, CaidaOrdenada(c) PROVE IInv'
<1> USE DEF IInv
<1>1. /\ hilo[c].pc # "desalojo"
      /\ UNCHANGED <<algoritmo, procesos, ready, rnn, suplementarias, compac,
                     mutex_conexion_km, hilo>>
  BY DEF CaidaOrdenada, Caida
<1>2. /\ CpuOK' /\ cpu'[c].pid = cpu[c].pid /\ cpu'[c].propio = cpu[c].propio
      /\ cpu'[c].paso = "muerta"
      /\ \A d \in Cpus \ {c} : cpu'[d] = cpu[d]
  BY CpuPasa DEF CaidaOrdenada, Caida, Pasos
<1>3. TypeOK'
  BY <1>1, <1>2 DEF TypeOK, procesos, ready, suplementarias, compac, CpuOK, Pasos
<1>4. Semaforos'
  BY <1>1, SemaforosIguales DEF compac
<1>5. Quieta'
  BY <1>1, <1>2, <1>4, QuietaDeUna
<1>6. Eligiendo' = Eligiendo
  BY <1>1, EligiendoIgual
<1>7. DeCpu(c)' /\ \A p \in Pids : Tiene(c, p)' <=> Tiene(c, p)
  BY <1>1, <1>2 DEF Duenios, DeCpu, Tiene, procesos, suplementarias
<1>8. ASSUME NEW p \in Pids PROVE Reserva(p)'
  <2> SUFFICES ASSUME retorno_cpu[p] # <<>>
               PROVE  Reserva(p)'
    BY <1>1 DEF Reserva, suplementarias
  <2> DEFINE h == Head(retorno_cpu[p])
  <2>1. h \in Cpus
    BY DEF TypeOK
  <2>2. Con("despachar")' = Con("despachar")
    BY <1>1 DEF Con
  <2>3. cpu'[h].pid = cpu[h].pid /\ (cpu'[h].paso = cpu[h].paso \/ cpu'[h].paso = "muerta")
    BY <1>2, <2>1
  <2> QED
    BY <1>1, <2>1, <2>2, <2>3 DEF Reservas, Reserva, procesos, suplementarias
<1> QED
  BY <1>1, <1>2, <1>3, <1>4, <1>5, <1>6, <1>7, <1>8, PasoSinListas
     DEF procesos, ready, suplementarias

LEMMA PasoExit ==
    ASSUME IInv, NEW c \in Cpus, Exit(c) PROVE IInv'
<1> USE DEF IInv
<1>0. PICK p : p = cpu[c].pid
  OBVIOUS
<1>1. /\ hilo[c].pc = "recv" /\ p # Nadie /\ cpu[c].paso = "ejecuta"
      /\ retorno_cpu' = SinReserva(p)
      /\ UNCHANGED <<algoritmo, procesos, ready, rnn, desalojo, compac, mutex_conexion_km>>
  BY <1>0 DEF Exit, Pide
<1>2. p \in Pids /\ estado_pcb[p] = "RNN" /\ hilo[c].pid = Nadie
  BY <1>0, <1>1, NadaReservado DEF Duenios, DeCpu, ConPid
<1>3. /\ \A d \in Cpus \ {c} : hilo'[d] = hilo[d] /\ cpu'[d] = cpu[d]
      /\ hilo'[c].pc = "exit" /\ hilo'[c].pid = p /\ HiloOK'
      /\ CpuOK' /\ cpu'[c].pid = Nadie /\ cpu'[c].propio /\ cpu'[c].paso = "ejecuta"
  BY <1>0, <1>2, HiloVa, CpuSeVacia DEF Exit, Lugares
<1>4. /\ retorno_cpu' \in [Pids -> Seq(Cpus)] /\ retorno_cpu'[p] = <<>>
      /\ \A q \in Pids \ {p} : retorno_cpu'[q] = retorno_cpu[q]
  BY <1>1, <1>2, ReservaQuitada
<1>5. TypeOK'
  BY <1>1, <1>3, <1>4 DEF TypeOK, procesos, ready, compac, HiloOK, CpuOK, Lugares, Pasos
<1>6. Semaforos'
  BY <1>1, <1>3, SemaforosIguales DEF ConSem, ConMutex, Compactando, compac
<1>7. Quieta'
  BY <1>1, <1>3, <1>6, QuietaDeUna
<1>8. Eligiendo' = Eligiendo
  BY <1>1, <1>3, EligiendoIgual
<1>9. DeCpu(c)' /\ \A q \in Pids : Tiene(c, q)' <=> Tiene(c, q)
  BY <1>0, <1>1, <1>2, <1>3, PlanAssumption
     DEF Duenios, DeCpu, Tiene, SinProceso, ConPid, Sirviendo, Compactando, procesos
<1>10. \A q \in Pids : Tiene(c, q) => Reserva(q)'
  BY <1>0, <1>2, <1>4, PlanAssumption DEF Tiene, Reserva
<1>11. \A q \in Pids : ~Tiene(c, q) => retorno_cpu'[q] = retorno_cpu[q]
  BY <1>0, <1>4 DEF Tiene
<1> QED
  BY <1>1, <1>3, <1>5, <1>6, <1>7, <1>8, <1>9, <1>10, <1>11, PasoSinListas DEF procesos, ready

LEMMA PasoDesalojo ==
    ASSUME IInv, NEW c \in Cpus, Desalojo(c) PROVE IInv'
<1> USE DEF IInv
<1>0. PICK p : p = cpu[c].pid
  OBVIOUS
<1>1. /\ hilo[c].pc = "recv" /\ p # Nadie /\ cpu[c].paso = "chequea"
      /\ UNCHANGED <<algoritmo, procesos, ready, rnn, compac, mutex_conexion_km>>
      /\ desalojo \ {p} \subseteq desalojo' /\ desalojo' \subseteq desalojo
  BY <1>0 DEF Desalojo
<1>2. p \in Pids /\ estado_pcb[p] \in {"RNN", "BCK"} /\ hilo[c].pid = Nadie
  BY <1>0, <1>1 DEF Duenios, DeCpu, ConPid, TypeOK
<1>3. retorno_cpu[p] # <<>> => Head(retorno_cpu[p]) = c /\ p \in desalojo /\ estado_pcb[p] = "RNN"
  <2>1. retorno_cpu[p] # <<>> => Head(retorno_cpu[p]) \in Cpus
    BY <1>2 DEF TypeOK
  <2> QED
    BY <1>0, <1>1, <1>2, <2>1 DEF Reservas, Reserva, Duenios, Tiene
<1>4. \/ LeResponde(c, "OK") /\ p \notin desalojo /\ ~compactacion_value /\ UNCHANGED retorno_cpu
      \/ /\ LeResponde(c, "DESALOJO")
         /\ retorno_cpu' = SinReserva(p) \/ UNCHANGED retorno_cpu
  BY <1>0, <1>2 DEF Desalojo, LeResponde
<1>5. /\ \A d \in Cpus \ {c} : hilo'[d] = hilo[d] /\ cpu'[d] = cpu[d]
      /\ HiloOK' /\ CpuOK' /\ hilo'[c].pid = Nadie
      /\ cpu'[c].pid = p /\ cpu'[c].propio = cpu[c].propio
      /\ \/ /\ hilo'[c].pc = "km" /\ cpu'[c].paso = "ejecuta"
            /\ p \notin desalojo /\ ~compactacion_value
         \/ hilo'[c].pc = "desalojo" /\ cpu'[c].paso = "guarda"
  BY <1>0, <1>4, HiloVaSolo, CpuPasa DEF LeResponde, Lugares, Pasos
<1>6. /\ retorno_cpu' \in [Pids -> Seq(Cpus)] /\ retorno_cpu'[p] \in {<<>>, retorno_cpu[p]}
      /\ \A q \in Pids \ {p} : retorno_cpu'[q] = retorno_cpu[q]
  BY <1>2, <1>4, ReservaQuitada DEF TypeOK
<1>7. TypeOK'
  BY <1>1, <1>5, <1>6 DEF TypeOK, procesos, ready, compac, HiloOK, CpuOK, Lugares, Pasos
<1>8. Semaforos'
  BY <1>1, <1>5, SemaforosIguales DEF ConSem, ConMutex, Compactando, compac
<1>9. Quieta'
  BY <1>1, <1>5, <1>8, QuietaDeUna DEF compac
<1>10. Eligiendo' = Eligiendo
  BY <1>1, <1>5, EligiendoIgual
<1>11. DeCpu(c)' /\ \A q \in Pids : Tiene(c, q)' <=> Tiene(c, q)
  BY <1>0, <1>1, <1>2, <1>5, PlanAssumption
     DEF Duenios, DeCpu, Tiene, SinProceso, ConPid, Sirviendo, Compactando, procesos
<1>12. \A q \in Pids : Tiene(c, q) => Reserva(q)'
  <2>1. \A q \in Pids : Tiene(c, q) => q = p
    BY <1>0, <1>2, PlanAssumption DEF Tiene
  <2>2. Reserva(p)'
    BY <1>1, <1>2, <1>3, <1>5, <1>6
       DEF Reservas, Reserva, Sirviendo, Compactando, procesos
  <2> QED
    BY <2>1, <2>2
<1>13. \A q \in Pids : ~Tiene(c, q) => /\ retorno_cpu'[q] = retorno_cpu[q]
                                       /\ q \in desalojo => q \in desalojo'
  BY <1>0, <1>1, <1>6 DEF Tiene
<1> QED
  BY <1>1, <1>5, <1>7, <1>8, <1>9, <1>10, <1>11, <1>12, <1>13, PasoSinListas DEF procesos, ready

-----------------------------------------------------------------------------
(* Steps that change the lists *)

LEMMA ReadyFinita == Listas => EnReady \subseteq Pids /\ IsFiniteSet(EnReady)
BY PlanAssumption, FS_Subset DEF Listas, EnEstado

LEMMA FichaMas ==
    ASSUME IInv, NEW p, p \notin EnReady, EnReady' = EnReady \cup {p},
           sem_hay_ready' = sem_hay_ready + 1, Eligiendo' = Eligiendo
    PROVE  Fichas'
<1>1. IsFiniteSet(EnReady) /\ IsFiniteSet(Eligiendo)
  BY ReadyFinita, PlanAssumption, FS_Subset DEF IInv, Eligiendo
<1>2. Cardinality(EnReady') = Cardinality(EnReady) + 1
  BY <1>1, FS_AddElement
<1>3. Cardinality(Eligiendo) \in Nat /\ Cardinality(EnReady) \in Nat /\ sem_hay_ready \in Nat
  BY <1>1, FS_CardinalityType DEF IInv, TypeOK
<1> QED
  BY <1>2, <1>3 DEF IInv, Fichas

\* A process in RUNNING leaves it: it has ended, or it waits for a device.
LEMMA SaleDeRunning ==
    ASSUME IInv, NEW c \in Cpus, NEW p \in Pids, Tiene(c, p), estado_pcb[p] = "RNN",
           \A d \in Cpus \ {c} : hilo'[d] = hilo[d],
           {hilo[c].pc, hilo'[c].pc} \cap {"eliminar", "despachar"} = {},
           NEW e \in {"BCK", "EXT"}, CambiarEstado(p, e), EliminarDe("RNN", p)
    PROVE  /\ UNCHANGED ready /\ rnn' \in Seq(Pids)
           /\ Listas' /\ EnReady' = EnReady
<1> USE DEF IInv
<1>1. UNCHANGED ready /\ rnn' = Quitar(rnn, p)
  BY DEF EliminarDe
<1>2. rnn' \in Seq(Pids) /\ SinRepetir(rnn') /\ Elementos(rnn') = Elementos(rnn) \ {p}
  BY <1>1, QuitarSaca DEF TypeOK, Listas
<1>3. Con("eliminar")' = Con("eliminar") /\ Con("despachar")' = Con("despachar")
  BY ConIgual
<1>4. \A q \in Pids : estado_pcb'[q] = IF q = p THEN e ELSE estado_pcb[q]
  BY DEF CambiarEstado, TypeOK
<1>5. EnEstado("RNN")' = EnEstado("RNN") \ {p} /\ EnEstado("RDY")' = EnEstado("RDY")
  BY <1>4 DEF EnEstado
<1>6. p \notin Con("eliminar")
  <2> SUFFICES ASSUME NEW d \in Cpus, hilo[d].pc = "eliminar", hilo[d].pid = p PROVE FALSE
    BY DEF Con
  <2>1. d = c
    BY DEF Duenios, Tiene
  <2> QED
    BY <2>1
<1>7. EnReady' = EnReady /\ ReadySinRepetir'
  BY <1>1 DEF EnReady, ReadySinRepetir, ready, Listas
<1> QED
  BY <1>1, <1>2, <1>3, <1>5, <1>6, <1>7 DEF Listas

LEMMA PasoFinalizar ==
    ASSUME IInv, NEW c \in Cpus, Finalizar(c) PROVE IInv'
<1> USE DEF IInv
<1>0. PICK p : p = hilo[c].pid
  OBVIOUS
<1>1. /\ hilo[c].pc = "exit" /\ CambiarEstado(p, "EXT") /\ EliminarDe(estado_pcb[p], p)
      /\ UNCHANGED <<algoritmo, prioridad, espera, quantum, suplementarias, compac,
                     mutex_conexion_km, cpu>>
  BY <1>0 DEF Finalizar
<1>2. /\ p \in Pids /\ estado_pcb[p] = "RNN" /\ cpu[c].pid = Nadie /\ Tiene(c, p)
  BY <1>0, <1>1 DEF Duenios, DeCpu, ConPid, SinProceso, TypeOK, Tiene
<1>3. /\ \A d \in Cpus \ {c} : hilo'[d] = hilo[d]
      /\ hilo'[c].pc = "km" /\ hilo'[c].pid = Nadie /\ HiloOK'
  BY HiloVaSolo DEF Finalizar, Lugares
<1>4. UNCHANGED ready /\ rnn' \in Seq(Pids) /\ Listas' /\ EnReady' = EnReady
  BY <1>1, <1>2, <1>3, SaleDeRunning
<1>5. /\ estado_pcb' \in [Pids -> {"NEW", "RDY", "RNN", "BCK", "EXT"}]
      /\ estado_anterior' \in [Pids -> {"NO_ESTADO", "NEW", "RDY", "RNN", "BCK"}]
      /\ estado_pcb'[p] = "EXT"
      /\ \A q \in Pids \ {p} : /\ estado_pcb'[q] = estado_pcb[q]
                               /\ estado_anterior'[q] = estado_anterior[q]
  BY <1>1, <1>2 DEF CambiarEstado, TypeOK
<1>6. TypeOK'
  BY <1>1, <1>3, <1>4, <1>5 DEF TypeOK, ready, suplementarias, compac, HiloOK, Lugares
<1>7. Semaforos'
  BY <1>1, <1>3, SemaforosIguales DEF ConSem, ConMutex, Compactando, compac
<1>8. Quieta'
  BY <1>1, <1>3, <1>7, QuietaDeUna
<1>9. \A q \in Pids : (Tiene(c, q) <=> q = p) /\ ~Tiene(c, q)'
  BY <1>0, <1>1, <1>2, <1>3, PlanAssumption DEF Tiene
<1>10. Duenios'
  <2>1. DeCpu(c)'
    BY <1>1, <1>2, <1>3 DEF DeCpu, Duenios, ConPid, SinProceso, Sirviendo, Compactando
  <2>2. \A q \in Pids : espera'[q] # "no" <=> estado_pcb'[q] = "BCK"
    BY <1>1, <1>2, <1>5 DEF Duenios
  <2> QED
    BY <1>1, <1>3, <1>5, <1>9, <2>1, <2>2, DueniosDeUna DEF suplementarias
<1>11. Fichas'
  BY <1>1, <1>3, <1>4, FichasIguales DEF ready
<1>12. Reservas'
  <2>1. retorno_cpu[p] = <<>>
    <3>1. retorno_cpu[p] # <<>> => Head(retorno_cpu[p]) \in Cpus
      BY <1>2 DEF TypeOK
    <3> QED
      BY <1>2, <3>1, PlanAssumption DEF Reservas, Reserva, Duenios, Tiene
  <2>2. Reserva(p)'
    BY <1>1, <2>1 DEF Reserva, suplementarias
  <2> QED
    BY <1>1, <1>2, <1>3, <1>5, <1>9, <2>2, ReservasDeUna DEF suplementarias
<1> QED
  BY <1>4, <1>6, <1>7, <1>8, <1>10, <1>11, <1>12

LEMMA PasoSegmentationFault ==
    ASSUME IInv, NEW c \in Cpus, segmentation_fault(c) PROVE IInv'
<1> USE DEF IInv
<1>0. PICK p : p = cpu[c].pid
  OBVIOUS
<1>1. /\ hilo[c].pc = "recv" /\ p # Nadie /\ cpu[c].paso = "ejecuta"
      /\ CambiarEstado(p, "EXT") /\ EliminarDe(estado_pcb[p], p)
      /\ retorno_cpu' = SinReserva(p)
      /\ UNCHANGED <<algoritmo, prioridad, espera, quantum, desalojo, compac, mutex_conexion_km>>
  BY <1>0 DEF segmentation_fault, Pide
<1>2. /\ p \in Pids /\ estado_pcb[p] = "RNN" /\ hilo[c].pid = Nadie /\ Tiene(c, p)
  BY <1>0, <1>1, NadaReservado DEF Duenios, DeCpu, ConPid, Tiene
<1>3. /\ \A d \in Cpus \ {c} : hilo'[d] = hilo[d] /\ cpu'[d] = cpu[d]
      /\ hilo'[c].pc = "km" /\ hilo'[c].pid = Nadie /\ HiloOK'
      /\ CpuOK' /\ cpu'[c].pid = Nadie /\ cpu'[c].propio /\ cpu'[c].paso = "ejecuta"
  BY HiloVaSolo, CpuSeVacia DEF segmentation_fault, Lugares
<1>4. UNCHANGED ready /\ rnn' \in Seq(Pids) /\ Listas' /\ EnReady' = EnReady
  BY <1>1, <1>2, <1>3, SaleDeRunning
<1>5. /\ estado_pcb' \in [Pids -> {"NEW", "RDY", "RNN", "BCK", "EXT"}]
      /\ estado_anterior' \in [Pids -> {"NO_ESTADO", "NEW", "RDY", "RNN", "BCK"}]
      /\ estado_pcb'[p] = "EXT"
      /\ \A q \in Pids \ {p} : /\ estado_pcb'[q] = estado_pcb[q]
                               /\ estado_anterior'[q] = estado_anterior[q]
  BY <1>1, <1>2 DEF CambiarEstado, TypeOK
<1>6. /\ retorno_cpu' \in [Pids -> Seq(Cpus)] /\ retorno_cpu'[p] = <<>>
      /\ \A q \in Pids \ {p} : retorno_cpu'[q] = retorno_cpu[q]
  BY <1>1, <1>2, ReservaQuitada
<1>7. TypeOK'
  BY <1>1, <1>3, <1>4, <1>5, <1>6 DEF TypeOK, ready, compac, HiloOK, CpuOK, Lugares, Pasos
<1>8. Semaforos'
  BY <1>1, <1>3, SemaforosIguales DEF ConSem, ConMutex, Compactando, compac
<1>9. Quieta'
  BY <1>1, <1>3, <1>8, QuietaDeUna
<1>10. \A q \in Pids : (Tiene(c, q) <=> q = p) /\ ~Tiene(c, q)'
  BY <1>0, <1>1, <1>2, <1>3, PlanAssumption DEF Tiene
<1>11. Duenios'
  <2>1. DeCpu(c)'
    BY <1>1, <1>3 DEF DeCpu, ConPid, SinProceso, Sirviendo, Compactando
  <2>2. \A q \in Pids : espera'[q] # "no" <=> estado_pcb'[q] = "BCK"
    BY <1>1, <1>2, <1>5 DEF Duenios
  <2> QED
    BY <1>1, <1>3, <1>5, <1>10, <2>1, <2>2, DueniosDeUna
<1>12. Fichas'
  BY <1>1, <1>3, <1>4, FichasIguales DEF ready
<1>13. Reservas'
  <2>1. Reserva(p)'
    BY <1>6 DEF Reserva
  <2> QED
    BY <1>1, <1>2, <1>3, <1>5, <1>6, <1>10, <2>1, ReservasDeUna
<1> QED
  BY <1>4, <1>7, <1>8, <1>9, <1>11, <1>12, <1>13

LEMMA PasoBloquear ==
    ASSUME IInv, NEW c \in Cpus, Bloquear(c) PROVE IInv'
<1> USE DEF IInv
<1>0. PICK p : p = cpu[c].pid
  OBVIOUS
<1>1. /\ hilo[c].pc = "recv" /\ p # Nadie /\ cpu[c].paso = "ejecuta"
      /\ CambiarEstado(p, "BCK") /\ EliminarDe(estado_pcb[p], p)
      /\ espera' = [espera EXCEPT ![p] = "io"] /\ desalojo' = desalojo \cup {p}
      /\ UNCHANGED <<algoritmo, prioridad, quantum, retorno_cpu, compac, mutex_conexion_km>>
  BY <1>0 DEF Bloquear, Pide
<1>2. /\ p \in Pids /\ estado_pcb[p] = "RNN" /\ hilo[c].pid = Nadie /\ Tiene(c, p)
      /\ retorno_cpu[p] = <<>>
  BY <1>0, <1>1, NadaReservado DEF Duenios, DeCpu, ConPid, Tiene
<1>3. /\ \A d \in Cpus \ {c} : hilo'[d] = hilo[d] /\ cpu'[d] = cpu[d]
      /\ hilo'[c].pc = "km" /\ hilo'[c].pid = Nadie /\ HiloOK'
      /\ CpuOK' /\ cpu'[c].pid = p /\ cpu'[c].propio = cpu[c].propio /\ cpu'[c].paso = "chequea"
  BY <1>0, HiloVaSolo, CpuPasa, ZenonT(60) DEF Bloquear, LuegoChequea, Lugares, Pasos
<1>4. UNCHANGED ready /\ rnn' \in Seq(Pids) /\ Listas' /\ EnReady' = EnReady
  BY <1>1, <1>2, <1>3, SaleDeRunning
<1>5. /\ estado_pcb' \in [Pids -> {"NEW", "RDY", "RNN", "BCK", "EXT"}]
      /\ estado_anterior' \in [Pids -> {"NO_ESTADO", "NEW", "RDY", "RNN", "BCK"}]
      /\ espera' \in [Pids -> {"no", "io", "despierta"}]
      /\ estado_pcb'[p] = "BCK" /\ espera'[p] = "io"
      /\ \A q \in Pids \ {p} : /\ estado_pcb'[q] = estado_pcb[q] /\ espera'[q] = espera[q]
                               /\ estado_anterior'[q] = estado_anterior[q]
  BY <1>1, <1>2 DEF CambiarEstado, TypeOK
<1>6. desalojo' \subseteq Pids
  BY <1>1, <1>2 DEF TypeOK
<1>7. TypeOK'
  BY <1>1, <1>3, <1>4, <1>5, <1>6 DEF TypeOK, ready, compac, HiloOK, CpuOK, Lugares, Pasos
<1>8. Semaforos'
  BY <1>1, <1>3, SemaforosIguales DEF ConSem, ConMutex, Compactando, compac
<1>9. Quieta'
  BY <1>1, <1>3, <1>8, QuietaDeUna
<1>10. \A q \in Pids : (Tiene(c, q) <=> q = p) /\ (Tiene(c, q)' <=> q = p)
  BY <1>0, <1>1, <1>2, <1>3, PlanAssumption DEF Tiene
<1>11. Duenios'
  <2>1. DeCpu(c)'
    BY <1>1, <1>2, <1>3, <1>5
       DEF Duenios, DeCpu, ConPid, SinProceso, Sirviendo, Compactando
  <2>2. \A q \in Pids : espera'[q] # "no" <=> estado_pcb'[q] = "BCK"
    BY <1>5 DEF Duenios
  <2> QED
    BY <1>1, <1>3, <1>5, <1>10, <2>1, <2>2, DueniosDeUna
<1>12. Fichas'
  BY <1>1, <1>3, <1>4, FichasIguales DEF ready
<1>13. Reservas'
  <2>1. Reserva(p)'
    BY <1>1, <1>2 DEF Reserva
  <2> QED
    BY <1>1, <1>2, <1>3, <1>5, <1>10, <2>1, ReservasDeUna
<1> QED
  BY <1>4, <1>7, <1>8, <1>9, <1>11, <1>12, <1>13

\* A process that is not in READY becomes READY and is added to it, by a thread that
\* is not dispatching it.
LEMMA EntraListas ==
    ASSUME IInv, NEW p \in Pids, estado_pcb[p] \notin {"RDY", "RNN"},
           CambiarEstado(p, "RDY"), AgregarAReady(p, {}), UNCHANGED <<rnn, algoritmo>>,
           Con("eliminar")' = Con("eliminar"), Con("despachar")' = Con("despachar")
    PROVE  /\ rdy' \in Seq(Pids) /\ niveles' \in [0 .. Niveles - 1 -> Seq(Pids)]
           /\ Listas' /\ p \notin EnReady /\ EnReady' = EnReady \cup {p}
           /\ sem_hay_ready' = sem_hay_ready + 1 /\ sem_hay_ready' \in Nat
           /\ desalojo \subseteq desalojo' /\ desalojo' \subseteq Pids
<1> USE DEF IInv
<1>1. \A q \in Pids : estado_pcb'[q] = IF q = p THEN "RDY" ELSE estado_pcb[q]
  BY DEF CambiarEstado, TypeOK
<1>2. EnEstado("RNN")' = EnEstado("RNN") /\ EnEstado("RDY")' = EnEstado("RDY") \cup {p}
  BY <1>1 DEF EnEstado
<1>3. p \notin EnReady
  BY DEF Listas, EnEstado
<1>4. p \notin Con("despachar")
  <2> SUFFICES ASSUME NEW c \in Cpus, hilo[c].pc = "despachar", hilo[c].pid = p PROVE FALSE
    BY DEF Con
  <2> QED
    BY DEF Duenios, DeCpu
<1>5. /\ rdy' \in Seq(Pids) /\ niveles' \in [0 .. Niveles - 1 -> Seq(Pids)]
      /\ ReadySinRepetir' /\ EnReady' = EnReady \cup {p}
      /\ sem_hay_ready' = sem_hay_ready + 1
      /\ desalojo \ {} \subseteq desalojo' /\ desalojo' \subseteq Pids
  BY <1>3, EntraEnReady DEF Listas
<1>6. Listas'
  BY <1>2, <1>4, <1>5 DEF Listas
<1> QED
  BY <1>3, <1>5, <1>6 DEF TypeOK

LEMMA PasoCrearNuevoProceso ==
    ASSUME IInv, NEW c \in Cpus, CrearNuevoProceso(c) PROVE IInv'
<1> USE DEF IInv
<1>1. /\ hilo[c].pc = "init_proc"
      /\ UNCHANGED <<algoritmo, prioridad, espera, quantum, rnn, retorno_cpu, compac,
                     mutex_conexion_km, cpu>>
  BY DEF CrearNuevoProceso
<1>2. /\ \A d \in Cpus \ {c} : hilo'[d] = hilo[d]
      /\ hilo'[c].pc = "km" /\ hilo'[c].pid = Nadie /\ HiloOK'
  BY HiloVaSolo DEF CrearNuevoProceso, Lugares
<1>3. /\ cpu[c].pid \in Pids /\ estado_pcb[cpu[c].pid] = "RNN" /\ hilo[c].pid = Nadie
      /\ retorno_cpu[cpu[c].pid] = <<>> /\ cpu[c].paso \in {"chequea", "muerta"}
  <2>1. hilo[c].pc \in Sirviendo /\ hilo[c].pc \notin ConPid
    BY <1>1 DEF Sirviendo, ConPid
  <2> QED
    BY <2>1, NadaReservado DEF Duenios, DeCpu
<1>4. Semaforos'
  BY <1>1, <1>2, SemaforosIguales DEF ConSem, ConMutex, Compactando, compac
<1>5. Quieta'
  BY <1>1, <1>2, <1>4, QuietaDeUna
<1>6. Eligiendo' = Eligiendo
  BY <1>1, <1>2, EligiendoIgual
<1>7. \A p \in Pids : Tiene(c, p)' <=> Tiene(c, p)
  BY <1>1, <1>2, <1>3 DEF Tiene
<1>8. \A p \in Pids : Tiene(c, p) => p = cpu[c].pid
  BY <1>3, PlanAssumption DEF Tiene
<1>9. CASE UNCHANGED <<estado_pcb, estado_anterior, ready, desalojo>>
  <2>1. TypeOK'
    BY <1>1, <1>2, <1>9 DEF TypeOK, ready, compac, HiloOK, Lugares
  <2>2. DeCpu(c)'
    BY <1>1, <1>2, <1>3, <1>9 DEF Duenios, DeCpu, SinProceso, ConPid, Sirviendo, Compactando
  <2>3. \A p \in Pids : Tiene(c, p) => Reserva(p)'
    BY <1>1, <1>3, <1>8 DEF Reserva
  <2> QED
    BY <1>1, <1>2, <1>4, <1>5, <1>6, <1>7, <1>9, <2>1, <2>2, <2>3, PasoSinListas DEF ready
<1>10. CASE \E q \in Pids : /\ estado_pcb[q] = "NEW"
                            /\ CambiarEstado(q, "RDY") /\ AgregarAReady(q, {})
  <2>1. PICK q \in Pids : /\ estado_pcb[q] = "NEW"
                          /\ CambiarEstado(q, "RDY") /\ AgregarAReady(q, {})
    BY <1>10
  <2>2. Con("eliminar")' = Con("eliminar") /\ Con("despachar")' = Con("despachar")
    BY <1>1, <1>2, ConIgual
  <2>3. /\ rdy' \in Seq(Pids) /\ niveles' \in [0 .. Niveles - 1 -> Seq(Pids)]
        /\ Listas' /\ q \notin EnReady /\ EnReady' = EnReady \cup {q}
        /\ sem_hay_ready' = sem_hay_ready + 1 /\ sem_hay_ready' \in Nat
        /\ desalojo \subseteq desalojo' /\ desalojo' \subseteq Pids
    BY <1>1, <2>1, <2>2, EntraListas
  <2>4. Suelto(q)
    <3> SUFFICES ASSUME NEW d \in Cpus, q \in {cpu[d].pid, hilo[d].pid} PROVE FALSE
      BY DEF Suelto, Tiene
    <3>1. DeCpu(d) /\ q # Nadie
      BY PlanAssumption DEF Duenios
    <3> QED
      BY <2>1, <3>1 DEF DeCpu, ConPid
  <2>5. /\ estado_pcb' \in [Pids -> {"NEW", "RDY", "RNN", "BCK", "EXT"}]
        /\ estado_anterior' \in [Pids -> {"NO_ESTADO", "NEW", "RDY", "RNN", "BCK"}]
        /\ estado_pcb'[q] = "RDY"
        /\ \A p \in Pids \ {q} : /\ estado_pcb'[p] = estado_pcb[p]
                                 /\ estado_anterior'[p] = estado_anterior[p]
    BY <2>1 DEF CambiarEstado, TypeOK
  <2>6. TypeOK'
    BY <1>1, <1>2, <2>3, <2>5 DEF TypeOK, compac, HiloOK, Lugares
  <2>7. ~Tiene(c, q) /\ q # cpu[c].pid
    BY <1>3, <2>1, <2>4 DEF Suelto
  <2>8. Duenios'
    <3>1. DeCpu(c)'
      BY <1>1, <1>2, <1>3, <2>5, <2>7
         DEF Duenios, DeCpu, SinProceso, ConPid, Sirviendo, Compactando
    <3>2. \A p \in Pids : espera'[p] # "no" <=> estado_pcb'[p] = "BCK"
      BY <1>1, <2>1, <2>5 DEF Duenios
    <3> QED
      BY <1>1, <1>2, <1>7, <2>3, <2>4, <2>5, <3>1, <3>2, DueniosDeUna
  <2>9. Fichas'
    BY <1>6, <2>3, FichaMas
  <2>10. Reservas'
    <3>1. \A p \in Pids : Tiene(c, p) => Reserva(p)'
      BY <1>1, <1>3, <1>8 DEF Reserva
    <3> QED
      BY <1>1, <1>2, <1>7, <2>3, <2>4, <2>5, <3>1, ReservasDeUna
  <2> QED
    BY <1>4, <1>5, <2>3, <2>6, <2>8, <2>9, <2>10
<1> QED
  BY <1>9, <1>10 DEF CrearNuevoProceso

LEMMA PasoMandar ==
    ASSUME IInv, NEW c \in Cpus, NEW p \in Pids, MandarOrdenado(c, p) PROVE IInv'
<1> USE DEF IInv
<1>0. MandarProceso(c, p)
  BY DEF MandarOrdenado
<1>1. /\ hilo[c].pc = "mandar" /\ retorno_cpu' = SinReserva(p)
      /\ UNCHANGED <<algoritmo, procesos, sem_hay_ready, rnn, desalojo, compac,
                     mutex_conexion_km, cpu>>
  BY <1>0 DEF MandarProceso
<1>2. /\ \A d \in Cpus \ {c} : hilo'[d] = hilo[d]
      /\ hilo'[c].pc = "despachar" /\ hilo'[c].pid = p /\ HiloOK'
  BY <1>0, HiloVa DEF MandarProceso, Lugares
<1>3. /\ rdy' \in Seq(Pids) /\ niveles' \in [0 .. Niveles - 1 -> Seq(Pids)]
      /\ ReadySinRepetir' /\ p \in EnReady /\ EnReady' = EnReady \ {p}
  BY <1>0, SaleDeReady DEF Listas
<1>4. estado_pcb[p] = "RDY" /\ p \notin Con("despachar")
  BY <1>3 DEF Listas, EnEstado
<1>5. Suelto(p)
  <2> SUFFICES ASSUME NEW d \in Cpus, p \in {cpu[d].pid, hilo[d].pid} PROVE FALSE
    BY DEF Suelto, Tiene
  <2>1. DeCpu(d) /\ p # Nadie
    BY PlanAssumption DEF Duenios
  <2>2. p = hilo[d].pid /\ hilo[d].pc \in {"despachar", "eliminar"}
    BY <1>4, <2>1 DEF DeCpu, ConPid
  <2>3. hilo[d].pc # "eliminar"
    BY <2>2 DEF MandarOrdenado
  <2> QED
    BY <1>4, <2>2, <2>3 DEF Con
<1>6. /\ retorno_cpu' \in [Pids -> Seq(Cpus)] /\ retorno_cpu'[p] = <<>>
      /\ \A q \in Pids \ {p} : retorno_cpu'[q] = retorno_cpu[q]
  BY <1>1, ReservaQuitada
<1>7. TypeOK'
  BY <1>1, <1>2, <1>3, <1>6 DEF TypeOK, procesos, compac, HiloOK, Lugares
<1>8. Semaforos'
  BY <1>1, <1>2, SemaforosIguales DEF ConSem, ConMutex, Compactando, compac
<1>9. Quieta'
  BY <1>1, <1>2, <1>8, QuietaDeUna
<1>10. cpu[c].pid = Nadie /\ hilo[c].pid = Nadie
  BY <1>1 DEF Duenios, DeCpu, ConPid, SinProceso
<1>11. \A q \in Pids : ~Tiene(c, q) /\ (Tiene(c, q)' <=> q = p)
  BY <1>1, <1>2, <1>10, PlanAssumption DEF Tiene
<1>12. Duenios'
  <2>1. DeCpu(c)'
    BY <1>1, <1>2, <1>4, <1>10, PlanAssumption
       DEF Duenios, DeCpu, ConPid, SinProceso, Sirviendo, Compactando, procesos
  <2>2. \A q \in Pids : espera'[q] # "no" <=> estado_pcb'[q] = "BCK"
    BY <1>1 DEF Duenios, procesos
  <2> QED
    BY <1>1, <1>2, <1>5, <1>11, <2>1, <2>2, DueniosDeUna DEF procesos
<1>13. Listas'
  <2>1. Con("eliminar")' = Con("eliminar")
    BY <1>1, <1>2, ConIgual
  <2>2. Con("despachar")' = Con("despachar") \cup {p}
    <3>1. ASSUME NEW q \in Con("despachar")' PROVE q \in Con("despachar") \cup {p}
      BY <1>2 DEF Con
    <3>2. ASSUME NEW q \in Con("despachar") PROVE q \in Con("despachar")'
      BY <1>1, <1>2 DEF Con
    <3>3. p \in Con("despachar")'
      BY <1>2 DEF Con
    <3> QED
      BY <3>1, <3>2, <3>3
  <2> QED
    BY <1>1, <1>3, <2>1, <2>2 DEF Listas, EnEstado, procesos
<1>14. Fichas'
  <2>1. c \in Eligiendo /\ Eligiendo' = Eligiendo \ {c}
    BY <1>1, <1>2 DEF Eligiendo
  <2>2. IsFiniteSet(EnReady) /\ IsFiniteSet(Eligiendo)
    BY ReadyFinita, PlanAssumption, FS_Subset DEF Eligiendo
  <2>3. /\ Cardinality(EnReady') = Cardinality(EnReady) - 1
        /\ Cardinality(Eligiendo') = Cardinality(Eligiendo) - 1
    BY <1>3, <2>1, <2>2, FS_RemoveElement
  <2>4. Cardinality(Eligiendo) \in Nat /\ Cardinality(EnReady) \in Nat /\ sem_hay_ready \in Nat
    BY <2>2, FS_CardinalityType DEF TypeOK
  <2> QED
    BY <1>1, <2>3, <2>4 DEF Fichas
<1>15. Reservas'
  <2>1. Reserva(p)'
    BY <1>6 DEF Reserva
  <2> QED
    BY <1>1, <1>2, <1>6, <1>11, <2>1, ReservasDeUna DEF procesos
<1> QED
  BY <1>7, <1>8, <1>9, <1>12, <1>13, <1>14, <1>15

LEMMA PasoDespachar ==
    ASSUME IInv, NEW c \in Cpus, Despachar(c) PROVE IInv'
<1> USE DEF IInv
<1>0. PICK p : p = hilo[c].pid
  OBVIOUS
<1>1. /\ hilo[c].pc = "despachar" /\ desalojo' = desalojo \ {p}
      /\ CambiarEstado(p, "RNN") /\ rnn' = Append(rnn, p) /\ sem_compactacion' = Nadie
      /\ UNCHANGED <<algoritmo, prioridad, espera, ready, retorno_cpu,
                     compactacion_value, mutex_conexion_km>>
  BY <1>0 DEF Despachar
<1>2. /\ p \in Pids /\ estado_pcb[p] = "RDY" /\ cpu[c].pid = Nadie /\ Tiene(c, p)
  BY <1>0, <1>1 DEF Duenios, DeCpu, ConPid, SinProceso, TypeOK, Tiene
<1>3. /\ \A d \in Cpus \ {c} : hilo'[d] = hilo[d]
      /\ hilo'[c].pc = "km" /\ hilo'[c].pid = Nadie /\ HiloOK'
  BY HiloVaSolo DEF Despachar, Lugares
<1>4. /\ CpuOK' /\ cpu'[c].pid = p /\ cpu'[c].propio /\ cpu'[c].paso \in {"ejecuta", "muerta"}
      /\ \A d \in Cpus \ {c} : cpu'[d] = cpu[d]
  <2>1. CpuOK
    BY TiposDeCpu
  <2>2. cpu' = [d \in Cpus |->
               IF d = c
               THEN [pid |-> p, paso |-> IF Muerta(c) THEN "muerta" ELSE "ejecuta",
                     propio |-> TRUE]
               ELSE [cpu[d] EXCEPT !.propio = @ /\ cpu[d].pid # p]]
    BY <1>0 DEF Despachar
  <2>3. ASSUME NEW d \in Cpus \ {c} PROVE cpu'[d] = cpu[d]
    <3>1. cpu[d].propio /\ cpu[d].pid # p
      BY <1>2 DEF Duenios, DeCpu, Tiene
    <3>2. cpu'[d] = [cpu[d] EXCEPT !.propio = @ /\ cpu[d].pid # p]
      BY <2>2
    <3>3. (cpu[d].propio /\ cpu[d].pid # p) = cpu[d].propio
      BY <2>1, <3>1 DEF CpuOK
    <3>4. cpu'[d] = [cpu[d] EXCEPT !.propio = cpu[d].propio]
      BY <3>2, <3>3
    <3> QED
      BY <2>1, <3>4 DEF CpuOK
  <2>4. /\ cpu'[c] \in [pid : Pids \cup {Nadie}, propio : BOOLEAN, paso : Pasos]
        /\ cpu'[c].pid = p /\ cpu'[c].propio /\ cpu'[c].paso \in {"ejecuta", "muerta"}
    BY <1>2, <2>2 DEF Pasos
  <2>5. CpuOK'
    <3>1. cpu' = [d \in Cpus |-> cpu'[d]]
      BY <2>2
    <3>2. \A d \in Cpus : cpu'[d] \in [pid : Pids \cup {Nadie}, propio : BOOLEAN, paso : Pasos]
      BY <2>1, <2>3, <2>4 DEF CpuOK
    <3> QED
      BY <3>1, <3>2 DEF CpuOK
  <2> QED
    BY <2>3, <2>4, <2>5
<1>5. /\ estado_pcb' \in [Pids -> {"NEW", "RDY", "RNN", "BCK", "EXT"}]
      /\ estado_anterior' \in [Pids -> {"NO_ESTADO", "NEW", "RDY", "RNN", "BCK"}]
      /\ estado_pcb'[p] = "RNN"
      /\ \A q \in Pids \ {p} : /\ estado_pcb'[q] = estado_pcb[q]
                               /\ estado_anterior'[q] = estado_anterior[q]
  BY <1>1, <1>2 DEF CambiarEstado, TypeOK
<1>6. quantum' \in [Pids -> SUBSET {"corre", "vence"}]
  <2>1. /\ quantum' = IF usa_quantum(p)
                      THEN [quantum EXCEPT ![p] = @ \cup {"corre"}] ELSE quantum
        /\ quantum \in [Pids -> SUBSET {"corre", "vence"}]
    BY <1>0 DEF Despachar, TypeOK
  <2> QED
    BY <2>1
<1>7. p \notin Elementos(rnn)
  <2>1. p \notin Con("eliminar")
    <3> SUFFICES ASSUME NEW d \in Cpus, hilo[d].pc = "eliminar", hilo[d].pid = p PROVE FALSE
      BY DEF Con
    <3>1. d = c
      BY <1>2 DEF Duenios, Tiene
    <3> QED
      BY <1>1, <3>1
  <2> QED
    BY <1>2, <2>1 DEF Listas, EnEstado
<1>8. /\ rnn' \in Seq(Pids) /\ SinRepetir(rnn') /\ Elementos(rnn') = Elementos(rnn) \cup {p}
  BY <1>1, <1>2, <1>7, AgregarAlFinal DEF TypeOK, Listas
<1>9. TypeOK'
  BY <1>1, <1>3, <1>4, <1>5, <1>6, <1>8 DEF TypeOK, ready, HiloOK, CpuOK, Lugares, Pasos
<1>10. Semaforos'
  <2> SUFFICES ASSUME NEW d \in Cpus
               PROVE  /\ sem_compactacion' = d <=> hilo'[d].pc \in ConSem
                      /\ mutex_conexion_km' = d <=> hilo'[d].pc \in ConMutex
                      /\ hilo'[d].pc \in Compactando => compactacion_value'
    BY DEF Semaforos
  <2> QED
    BY <1>1, <1>3, PlanAssumption DEF Semaforos, ConSem, ConMutex, Compactando
<1>11. Quieta'
  <2>1. sem_compactacion = c
    BY <1>1 DEF Semaforos, ConSem
  <2> QED
    BY <1>3, <1>4, <1>10, <2>1, QuietaDeUna
<1>12. \A q \in Pids : (Tiene(c, q) <=> q = p) /\ (Tiene(c, q)' <=> q = p)
  BY <1>0, <1>2, <1>3, <1>4, PlanAssumption DEF Tiene
<1>13. Duenios'
  <2>1. DeCpu(c)'
    BY <1>2, <1>3, <1>4, <1>5
       DEF Duenios, DeCpu, ConPid, SinProceso, Sirviendo, Compactando
  <2>2. \A q \in Pids : espera'[q] # "no" <=> estado_pcb'[q] = "BCK"
    BY <1>1, <1>2, <1>5 DEF Duenios
  <2> QED
    BY <1>1, <1>3, <1>4, <1>5, <1>12, <2>1, <2>2, DueniosDeUna
<1>14. Listas' /\ EnReady' = EnReady
  <2>1. Con("eliminar")' = Con("eliminar")
    BY <1>1, <1>3, ConIgual
  <2>2. p \in Con("despachar") /\ Con("despachar")' = Con("despachar") \ {p}
    <3>1. ASSUME NEW q \in Con("despachar")' PROVE q \in Con("despachar") /\ q # p
      <4>1. PICK d \in Cpus : hilo'[d].pc = "despachar" /\ hilo'[d].pid = q
        BY <3>1 DEF Con
      <4>2. d # c
        BY <1>3, <4>1
      <4>3. hilo[d].pc = "despachar" /\ hilo[d].pid = q
        BY <1>3, <4>1, <4>2
      <4>4. q # p
        BY <1>2, <4>2, <4>3 DEF Duenios, Tiene
      <4> QED
        BY <4>3, <4>4 DEF Con
    <3>2. ASSUME NEW q \in Con("despachar") \ {p} PROVE q \in Con("despachar")'
      BY <1>0, <1>3 DEF Con
    <3>3. p \in Con("despachar")
      BY <1>0, <1>1 DEF Con
    <3> QED
      BY <3>1, <3>2, <3>3
  <2>3. EnEstado("RNN")' = EnEstado("RNN") \cup {p} /\ EnEstado("RDY")' = EnEstado("RDY") \ {p}
    BY <1>2, <1>5 DEF EnEstado
  <2>4. EnReady' = EnReady /\ ReadySinRepetir'
    BY <1>1 DEF EnReady, ReadySinRepetir, ready, Listas
  <2> QED
    BY <1>8, <2>1, <2>2, <2>3, <2>4 DEF Listas
<1>15. Fichas'
  BY <1>1, <1>3, <1>14, FichasIguales DEF ready
<1>16. Reservas'
  <2>1. p \in Con("despachar")
    BY <1>0, <1>1 DEF Con
  <2>2. retorno_cpu[p] = <<>>
    BY <1>2, <2>1 DEF Reservas, Reserva
  <2>3. Reserva(p)'
    BY <1>1, <2>2 DEF Reserva
  <2> QED
    BY <1>1, <1>2, <1>3, <1>4, <1>5, <1>12, <2>3, ReservasDeUna
<1> QED
  BY <1>9, <1>10, <1>11, <1>13, <1>14, <1>15, <1>16

LEMMA PasoEliminar ==
    ASSUME IInv, NEW c \in Cpus, Eliminar(c) PROVE IInv'
<1> USE DEF IInv
<1>0. PICK p : p = hilo[c].pid
  OBVIOUS
<1>1. /\ hilo[c].pc = "eliminar" /\ EliminarDe(estado_anterior[p], p)
      /\ UNCHANGED <<algoritmo, procesos, suplementarias, compac, mutex_conexion_km, cpu>>
  BY <1>0 DEF Eliminar
<1>2. /\ p \in Pids /\ estado_pcb[p] = "RDY" /\ estado_anterior[p] = "RNN"
      /\ cpu[c].pid = Nadie /\ Tiene(c, p)
  BY <1>0, <1>1 DEF Duenios, DeCpu, ConPid, SinProceso, TypeOK, Tiene
<1>3. /\ \A d \in Cpus \ {c} : hilo'[d] = hilo[d]
      /\ hilo'[c].pc = "km" /\ hilo'[c].pid = Nadie /\ HiloOK'
  BY HiloVaSolo DEF Eliminar, Lugares
<1>4. UNCHANGED ready /\ rnn' = Quitar(rnn, p)
  BY <1>1, <1>2 DEF EliminarDe
<1>5. rnn' \in Seq(Pids) /\ SinRepetir(rnn') /\ Elementos(rnn') = Elementos(rnn) \ {p}
  BY <1>4, QuitarSaca DEF TypeOK, Listas
<1>6. TypeOK'
  BY <1>1, <1>3, <1>4, <1>5 DEF TypeOK, procesos, ready, suplementarias, compac, HiloOK, Lugares
<1>7. Semaforos'
  BY <1>1, <1>3, SemaforosIguales DEF ConSem, ConMutex, Compactando, compac
<1>8. Quieta'
  BY <1>1, <1>3, <1>7, QuietaDeUna
<1>9. \A q \in Pids : (Tiene(c, q) <=> q = p) /\ ~Tiene(c, q)'
  BY <1>0, <1>1, <1>2, <1>3, PlanAssumption DEF Tiene
<1>10. Duenios'
  <2>1. DeCpu(c)'
    BY <1>1, <1>2, <1>3 DEF DeCpu, Duenios, ConPid, SinProceso, Sirviendo, Compactando
  <2>2. \A q \in Pids : espera'[q] # "no" <=> estado_pcb'[q] = "BCK"
    BY <1>1 DEF Duenios, procesos
  <2> QED
    BY <1>1, <1>2, <1>3, <1>9, <2>1, <2>2, DueniosDeUna DEF procesos, suplementarias
<1>11. Con("despachar")' = Con("despachar") /\ p \notin Con("despachar")
  <2>1. ASSUME NEW d \in Cpus, hilo[d].pc = "despachar", hilo[d].pid = p PROVE FALSE
    <3>1. d = c
      BY <1>2, <2>1 DEF Duenios, Tiene
    <3> QED
      BY <1>1, <2>1, <3>1
  <2>2. p \notin Con("despachar")
    BY <2>1 DEF Con
  <2> QED
    BY <1>1, <1>3, <2>2, ConIgual
<1>12. Listas' /\ EnReady' = EnReady
  <2>1. Con("eliminar")' = Con("eliminar") \ {p}
    <3>1. ASSUME NEW q \in Con("eliminar")' PROVE q \in Con("eliminar") /\ q # p
      <4>1. PICK d \in Cpus : hilo'[d].pc = "eliminar" /\ hilo'[d].pid = q
        BY <3>1 DEF Con
      <4>2. d # c
        BY <1>3, <4>1
      <4>3. hilo[d].pc = "eliminar" /\ hilo[d].pid = q
        BY <1>3, <4>1, <4>2
      <4>4. q # p
        BY <1>2, <4>2, <4>3 DEF Duenios, Tiene
      <4> QED
        BY <4>3, <4>4 DEF Con
    <3>2. ASSUME NEW q \in Con("eliminar") \ {p} PROVE q \in Con("eliminar")'
      BY <1>0, <1>3 DEF Con
    <3> QED
      BY <3>1, <3>2
  <2>2. EnEstado("RNN")' = EnEstado("RNN") /\ EnEstado("RDY")' = EnEstado("RDY")
        /\ p \notin EnEstado("RNN")
    BY <1>1, <1>2 DEF EnEstado, procesos
  <2>3. EnReady' = EnReady /\ ReadySinRepetir'
    BY <1>4 DEF EnReady, ReadySinRepetir, ready, Listas
  <2> QED
    BY <1>5, <1>11, <2>1, <2>2, <2>3 DEF Listas
<1>13. Fichas'
  BY <1>1, <1>3, <1>4, <1>12, FichasIguales DEF ready
<1>14. Reservas'
  <2>1. Reserva(p)'
    <3>1. retorno_cpu[p] # <<>> => Head(retorno_cpu[p]) \in Cpus
      BY <1>2 DEF TypeOK
    <3> QED
      BY <1>1, <1>2, <1>3, <1>11, <3>1 DEF Reservas, Reserva, procesos, suplementarias
  <2> QED
    BY <1>1, <1>3, <1>9, <2>1, ReservasDeUna DEF procesos, suplementarias
<1> QED
  BY <1>6, <1>7, <1>8, <1>10, <1>12, <1>13, <1>14

LEMMA PasoVolverAReady ==
    ASSUME IInv, NEW c \in Cpus, VolverAReady(c) PROVE IInv'
<1> USE DEF IInv
<1>0. PICK p : p = cpu[c].pid
  OBVIOUS
<1>1. /\ hilo[c].pc = "desalojo"
      /\ UNCHANGED <<algoritmo, espera, quantum, rnn, retorno_cpu, compac, mutex_conexion_km>>
  BY DEF VolverAReady
<1>2. /\ p \in Pids /\ estado_pcb[p] \in {"RNN", "BCK"} /\ hilo[c].pid = Nadie /\ Tiene(c, p)
      /\ estado_pcb[p] = "BCK" => espera[p] = "io"
  BY <1>0, <1>1 DEF Duenios, DeCpu, ConPid, TypeOK, Tiene
<1>3. /\ CpuOK' /\ cpu'[c].pid = Nadie /\ cpu'[c].propio /\ cpu'[c].paso = "ejecuta"
      /\ \A d \in Cpus \ {c} : cpu'[d] = cpu[d]
  BY CpuSeVacia DEF VolverAReady
<1>4. retorno_cpu[p] # <<>> =>
          Head(retorno_cpu[p]) = c /\ estado_pcb[p] = "RNN" /\ Len(retorno_cpu[p]) = 1
  <2>1. retorno_cpu[p] # <<>> => Head(retorno_cpu[p]) \in Cpus
    BY <1>2 DEF TypeOK
  <2> QED
    BY <1>0, <1>2, <2>1 DEF Reservas, Reserva, Duenios, Tiene
<1>5. \A q \in Pids : Tiene(c, q) <=> q = p
  BY <1>0, <1>2, PlanAssumption DEF Tiene
<1>6. CASE estado_pcb[p] = "BCK"
  <2>1. /\ Ir(c, "km") /\ UNCHANGED <<estado_pcb, estado_anterior, ready, desalojo, prioridad>>
    BY <1>0, <1>2, <1>6 DEF VolverAReady
  <2>2. /\ \A d \in Cpus \ {c} : hilo'[d] = hilo[d]
        /\ hilo'[c].pc = "km" /\ hilo'[c].pid = Nadie /\ HiloOK'
    BY <2>1, HiloVaSolo DEF Lugares
  <2>3. TypeOK'
    BY <1>1, <1>3, <2>1, <2>2 DEF TypeOK, ready, compac, HiloOK, CpuOK, Lugares, Pasos
  <2>4. Semaforos'
    BY <1>1, <2>2, SemaforosIguales DEF ConSem, ConMutex, Compactando, compac
  <2>5. Quieta'
    BY <1>1, <1>3, <2>2, <2>4, QuietaDeUna
  <2>6. \A q \in Pids : ~Tiene(c, q)'
    BY <1>3, <2>2, PlanAssumption DEF Tiene
  <2>7. Duenios'
    <3>1. DeCpu(c)'
      BY <1>3, <2>2 DEF DeCpu, ConPid, SinProceso, Sirviendo, Compactando
    <3>2. \A q \in Pids : espera'[q] # "no" <=> estado_pcb'[q] = "BCK"
      BY <1>1, <2>1 DEF Duenios
    <3> QED
      BY <1>1, <1>3, <1>5, <1>6, <2>1, <2>2, <2>6, <3>1, <3>2, DueniosDeUna
  <2>8. Listas' /\ EnReady' = EnReady
    BY <1>1, <2>1, <2>2, ListasIguales DEF ready
  <2>9. Fichas'
    BY <1>1, <2>1, <2>2, <2>8, FichasIguales DEF ready
  <2>10. Reservas'
    <3>1. Reserva(p)'
      BY <1>1, <1>4, <1>6 DEF Reserva
    <3> QED
      BY <1>1, <1>3, <1>5, <2>1, <2>2, <2>6, <3>1, ReservasDeUna
  <2> QED
    BY <2>3, <2>4, <2>5, <2>7, <2>8, <2>9, <2>10
<1>7. CASE estado_pcb[p] = "RNN"
  <2>1. /\ CambiarEstado(p, "RDY") /\ IrCon(c, "eliminar", p)
        /\ IF compactacion_value
           THEN /\ rdy' = <<p>> \o rdy
                /\ sem_hay_ready' = sem_hay_ready + 1
                /\ prioridad' = IF algoritmo = "CMN" THEN [prioridad EXCEPT ![p] = 0] ELSE prioridad
                /\ UNCHANGED <<niveles, desalojo>>
           ELSE AgregarAReady(p, {}) /\ UNCHANGED prioridad
    BY <1>0, <1>7 DEF VolverAReady
  <2>2. /\ \A d \in Cpus \ {c} : hilo'[d] = hilo[d]
        /\ hilo'[c].pc = "eliminar" /\ hilo'[c].pid = p /\ HiloOK'
    BY <1>2, <2>1, HiloVa DEF Lugares
  <2>3. /\ estado_pcb' \in [Pids -> {"NEW", "RDY", "RNN", "BCK", "EXT"}]
        /\ estado_anterior' \in [Pids -> {"NO_ESTADO", "NEW", "RDY", "RNN", "BCK"}]
        /\ estado_pcb'[p] = "RDY" /\ estado_anterior'[p] = "RNN"
        /\ \A q \in Pids \ {p} : /\ estado_pcb'[q] = estado_pcb[q]
                                 /\ estado_anterior'[q] = estado_anterior[q]
    BY <1>2, <1>7, <2>1 DEF CambiarEstado, TypeOK
  <2>4. p \notin EnReady /\ p \notin Con("despachar")
    <3>1. p \notin EnReady
      BY <1>7 DEF Listas, EnEstado
    <3>2. p \notin Con("despachar")
      <4> SUFFICES ASSUME NEW d \in Cpus, hilo[d].pc = "despachar", hilo[d].pid = p PROVE FALSE
        BY DEF Con
      <4> QED
        BY <1>7 DEF Duenios, DeCpu
    <3> QED
      BY <3>1, <3>2
  <2>5. /\ rdy' \in Seq(Pids) /\ niveles' \in [0 .. Niveles - 1 -> Seq(Pids)]
        /\ ReadySinRepetir' /\ EnReady' = EnReady \cup {p}
        /\ sem_hay_ready' = sem_hay_ready + 1 /\ sem_hay_ready' \in Nat
        /\ desalojo \subseteq desalojo' /\ desalojo' \subseteq Pids
        /\ prioridad' \in [Pids -> 0 .. Niveles - 1]
    <3>1. CASE compactacion_value
      <4>1. rdy' \in Seq(Pids) /\ ReadySinRepetir' /\ EnReady' = EnReady \cup {p}
        BY <1>2, <2>1, <2>4, <3>1, EntraAdelante DEF Listas
      <4>2. prioridad' \in [Pids -> 0 .. Niveles - 1]
        <5>1. 0 \in 0 .. Niveles - 1
          BY PlanAssumption
        <5> QED
          BY <2>1, <3>1, <5>1 DEF TypeOK
      <4> QED
        BY <2>1, <3>1, <4>1, <4>2 DEF TypeOK
    <3>2. CASE ~compactacion_value
      <4>1. AgregarAReady(p, {}) /\ UNCHANGED prioridad
        BY <2>1, <3>2
      <4>2. /\ rdy' \in Seq(Pids) /\ niveles' \in [0 .. Niveles - 1 -> Seq(Pids)]
            /\ ReadySinRepetir' /\ EnReady' = EnReady \cup {p}
            /\ sem_hay_ready' = sem_hay_ready + 1
            /\ desalojo \ {} \subseteq desalojo' /\ desalojo' \subseteq Pids
        BY <1>2, <2>4, <4>1, EntraEnReady DEF Listas
      <4> QED
        BY <4>1, <4>2 DEF TypeOK
    <3> QED
      BY <3>1, <3>2
  <2>6. TypeOK'
    BY <1>1, <1>3, <2>2, <2>3, <2>5 DEF TypeOK, compac, HiloOK, CpuOK, Lugares, Pasos
  <2>7. Semaforos'
    BY <1>1, <2>2, SemaforosIguales DEF ConSem, ConMutex, Compactando, compac
  <2>8. Quieta'
    BY <1>1, <1>3, <2>2, <2>7, QuietaDeUna
  <2>9. \A q \in Pids : Tiene(c, q)' <=> q = p
    BY <1>3, <2>2, PlanAssumption DEF Tiene
  <2>10. Duenios'
    <3>1. DeCpu(c)'
      BY <1>2, <1>3, <2>2, <2>3, PlanAssumption
         DEF DeCpu, ConPid, SinProceso, Sirviendo, Compactando
    <3>2. \A q \in Pids : espera'[q] # "no" <=> estado_pcb'[q] = "BCK"
      BY <1>1, <1>7, <2>3 DEF Duenios
    <3>3. \A d \in Cpus \ {c} : cpu'[d] = cpu[d] /\ hilo'[d] = hilo[d]
      BY <1>3, <2>2
    <3>4. \A q \in Pids : ~Tiene(c, q) /\ ~Suelto(q) =>
               /\ estado_pcb'[q] = estado_pcb[q] /\ estado_anterior'[q] = estado_anterior[q]
               /\ espera'[q] = espera[q]
               /\ q \in desalojo => q \in desalojo'
      BY <1>1, <1>5, <2>3, <2>5
    <3>5. \A q \in Pids : Tiene(c, q)' => Tiene(c, q) \/ Suelto(q)
      BY <1>5, <2>9
    <3>6. \A q \in Pids : estado_pcb'[q] = "RNN" =>
               Tiene(c, q)' \/ (estado_pcb[q] = "RNN" /\ ~Tiene(c, q))
      BY <1>5, <2>3
    <3>7. TypeOK /\ Duenios
      OBVIOUS
    <3> QED
      BY <3>1, <3>2, <3>3, <3>4, <3>5, <3>6, <3>7, DueniosDeUna
  <2>11. Con("despachar")' = Con("despachar")
    BY <1>1, <2>2, ConIgual
  <2>12. Listas'
    <3>1. Con("eliminar")' = Con("eliminar") \cup {p}
      <4>1. ASSUME NEW q \in Con("eliminar")' PROVE q \in Con("eliminar") \cup {p}
        BY <2>2 DEF Con
      <4>2. ASSUME NEW q \in Con("eliminar") PROVE q \in Con("eliminar")'
        BY <1>1, <2>2 DEF Con
      <4>3. p \in Con("eliminar")'
        BY <2>2 DEF Con
      <4> QED
        BY <4>1, <4>2, <4>3
    <3>2. /\ EnEstado("RNN")' = EnEstado("RNN") \ {p} /\ p \in EnEstado("RNN")
          /\ EnEstado("RDY")' = EnEstado("RDY") \cup {p}
      BY <1>2, <1>7, <2>3 DEF EnEstado
    <3> QED
      BY <1>1, <2>4, <2>5, <2>11, <3>1, <3>2 DEF Listas
  <2>13. Fichas'
    <3>1. Eligiendo' = Eligiendo
      BY <1>1, <2>2, EligiendoIgual
    <3> QED
      BY <2>4, <2>5, <3>1, FichaMas
  <2>14. Reservas'
    <3>1. Reserva(p)'
      BY <1>1, <1>4, <2>2, <2>3, <2>4, <2>11 DEF Reserva
    <3>2. \A q \in Pids : Tiene(c, q) \/ Tiene(c, q)' => Reserva(q)'
      BY <1>5, <2>9, <3>1
    <3>3. \A q \in Pids : ~Tiene(c, q) /\ ~Tiene(c, q)' =>
               /\ retorno_cpu'[q] = retorno_cpu[q]
               /\ estado_pcb'[q] = estado_pcb[q]
               /\ q \in desalojo => q \in desalojo'
      BY <1>1, <1>5, <2>3, <2>5
    <3> QED
      BY <1>3, <2>2, <3>2, <3>3, ReservasDeUna
  <2> QED
    BY <2>6, <2>7, <2>8, <2>10, <2>12, <2>13, <2>14
<1> QED
  BY <1>2, <1>6, <1>7

LEMMA PasoDesconectar ==
    ASSUME IInv, NEW c \in Cpus, Desconectar(c) PROVE IInv'
<1> USE DEF IInv
<1>0. PICK p : p = cpu[c].pid
  OBVIOUS
<1>1. /\ hilo[c].pc = "recv" /\ cpu[c].paso = "muerta" /\ cpu[c].propio
      /\ retorno_cpu' = [q \in Pids |-> SinLasDe(retorno_cpu[q], c)]
      /\ quantum' = IF p # Nadie THEN [quantum EXCEPT ![p] = @ \ {"corre"}] ELSE quantum
      /\ UNCHANGED <<algoritmo, prioridad, espera, compac, mutex_conexion_km>>
  BY <1>0 DEF Desconectar, Muerta, Duenios, DeCpu
<1>2. /\ hilo[c].pid = Nadie /\ p \in Pids \cup {Nadie}
      /\ p # Nadie => /\ estado_pcb[p] \in {"RNN", "BCK"}
                      /\ estado_pcb[p] = "BCK" => espera[p] = "io"
  BY <1>0, <1>1 DEF Duenios, DeCpu, ConPid, TypeOK
<1>3. /\ \A d \in Cpus \ {c} : hilo'[d] = hilo[d] /\ cpu'[d] = cpu[d]
      /\ hilo'[c].pc = "fuera" /\ hilo'[c].pid = Nadie /\ HiloOK'
      /\ cpu'[c].pid = Nadie /\ cpu'[c].propio /\ cpu'[c].paso = "muerta" /\ CpuOK'
  <2>1. CpuOK /\ cpu' = [cpu EXCEPT ![c].pid = Nadie]
    BY TiposDeCpu DEF Desconectar
  <2>2. /\ \A d \in Cpus \ {c} : cpu'[d] = cpu[d]
        /\ cpu'[c].pid = Nadie /\ cpu'[c].propio /\ cpu'[c].paso = "muerta" /\ CpuOK'
    BY <1>1, <2>1 DEF CpuOK
  <2> QED
    BY <2>2, HiloVaSolo DEF Desconectar, Lugares
<1>4. \A q \in Pids : /\ Tiene(c, q) <=> q = p
                      /\ ~Tiene(c, q)'
  BY <1>0, <1>2, <1>3, PlanAssumption DEF Tiene
<1>5. /\ retorno_cpu' \in [Pids -> Seq(Cpus)]
      /\ \A q \in Pids : retorno_cpu'[q] # <<>> =>
             retorno_cpu'[q] = retorno_cpu[q] /\ Head(retorno_cpu[q]) # c
  <2>1. ASSUME NEW q \in Pids
        PROVE  /\ retorno_cpu'[q] \in Seq(Cpus)
               /\ retorno_cpu'[q] # <<>> => retorno_cpu'[q] = retorno_cpu[q] /\ Head(retorno_cpu[q]) # c
    <3>1. retorno_cpu[q] \in Seq(Cpus) /\ (retorno_cpu[q] = <<>> \/ Len(retorno_cpu[q]) = 1)
      BY DEF TypeOK, Reservas, Reserva
    <3>2. SinLasDe(retorno_cpu[q], c) =
              IF retorno_cpu[q] # <<>> /\ Head(retorno_cpu[q]) = c THEN <<>> ELSE retorno_cpu[q]
      BY <3>1, SinLasDeCorta
    <3>3. retorno_cpu'[q] = SinLasDe(retorno_cpu[q], c)
      BY <1>1
    <3> QED
      BY <3>1, <3>2, <3>3
  <2> QED
    BY <1>1, <2>1
<1>6. quantum' \in [Pids -> SUBSET {"corre", "vence"}]
  BY <1>1, <1>2 DEF TypeOK
<1>7. Semaforos'
  BY <1>1, <1>3, SemaforosIguales DEF ConSem, ConMutex, Compactando, compac
<1>8. Quieta'
  BY <1>1, <1>3, <1>7, QuietaDeUna
<1>9. DeCpu(c)'
  BY <1>3 DEF DeCpu, ConPid, SinProceso, Sirviendo, Compactando
<1>10. Con("eliminar")' = Con("eliminar") /\ Con("despachar")' = Con("despachar")
  BY <1>1, <1>3, ConIgual
<1>11. ASSUME \A q \in Pids \ {p} : estado_pcb'[q] = estado_pcb[q] /\ (q \in desalojo => q \in desalojo')
       PROVE  Reservas'
  <2> SUFFICES ASSUME NEW q \in Pids, retorno_cpu'[q] # <<>>
               PROVE  Reserva(q)'
    BY DEF Reservas, Reserva
  <2>1. PICK h \in Cpus : h = Head(retorno_cpu[q])
    BY <1>5 DEF TypeOK
  <2>2. retorno_cpu'[q] = retorno_cpu[q] /\ h # c
    BY <1>5, <2>1
  <2>3. Reserva(q) /\ hilo'[h] = hilo[h] /\ cpu'[h] = cpu[h]
    BY <1>3, <2>2 DEF Reservas
  <2>4. q # p
    <3>1. q = p => cpu[h].pid # p /\ estado_pcb[p] # "RDY"
      BY <1>0, <1>2, <2>2, PlanAssumption DEF Duenios, Tiene
    <3> QED
      BY <2>1, <2>2, <2>3, <3>1 DEF Reserva
  <2> QED
    BY <1>10, <1>11, <2>1, <2>2, <2>3, <2>4 DEF Reserva
<1>12. CASE p = Nadie \/ estado_pcb[p] = "BCK"
  <2>1. /\ desalojo \ {p} \subseteq desalojo' /\ desalojo' \subseteq Pids
        /\ UNCHANGED <<estado_pcb, estado_anterior, ready, rnn>>
    BY <1>0, <1>2, <1>12 DEF Desconectar, TypeOK
  <2>2. TypeOK'
    BY <1>1, <1>3, <1>5, <1>6, <2>1 DEF TypeOK, ready, compac, HiloOK, CpuOK, Lugares, Pasos
  <2>3. Duenios'
    <3>1. \A q \in Pids : espera'[q] # "no" <=> estado_pcb'[q] = "BCK"
      BY <1>1, <2>1 DEF Duenios
    <3>2. \A q \in Pids : estado_pcb'[q] = "RNN" => estado_pcb[q] = "RNN" /\ ~Tiene(c, q)
      BY <1>4, <1>12, <2>1, PlanAssumption
    <3> QED
      BY <1>1, <1>3, <1>4, <1>9, <2>1, <3>1, <3>2, DueniosDeUna
  <2>4. Listas' /\ EnReady' = EnReady
    BY <1>1, <1>3, <2>1, ListasIguales DEF ready
  <2>5. Fichas'
    BY <1>1, <1>3, <2>1, <2>4, FichasIguales DEF ready
  <2>6. Reservas'
    BY <1>11, <2>1
  <2> QED
    BY <1>7, <1>8, <2>2, <2>3, <2>4, <2>5, <2>6
<1>13. CASE p # Nadie /\ estado_pcb[p] = "RNN"
  <2>0. p \in Pids
    BY <1>2, <1>13
  <2>1. /\ CambiarEstado(p, "RDY") /\ rnn' = Quitar(rnn, p) /\ AgregarAReady(p, {p})
    BY <1>0, <1>1, <1>13 DEF Desconectar
  <2>2. /\ estado_pcb' \in [Pids -> {"NEW", "RDY", "RNN", "BCK", "EXT"}]
        /\ estado_anterior' \in [Pids -> {"NO_ESTADO", "NEW", "RDY", "RNN", "BCK"}]
        /\ estado_pcb'[p] = "RDY"
        /\ \A q \in Pids \ {p} : /\ estado_pcb'[q] = estado_pcb[q]
                                 /\ estado_anterior'[q] = estado_anterior[q]
    BY <2>0, <1>13, <2>1 DEF CambiarEstado, TypeOK
  <2>3. p \notin EnReady /\ p \notin Con("despachar") /\ p \notin Con("eliminar")
    <3>1. p \notin EnReady
      BY <1>13 DEF Listas, EnEstado
    <3>2. ASSUME NEW d \in Cpus, hilo[d].pc \in {"despachar", "eliminar"}, hilo[d].pid = p PROVE FALSE
      BY <1>13, <3>2 DEF Duenios, DeCpu
    <3> QED
      BY <3>1, <3>2 DEF Con
  <2>4. /\ rdy' \in Seq(Pids) /\ niveles' \in [0 .. Niveles - 1 -> Seq(Pids)]
        /\ ReadySinRepetir' /\ EnReady' = EnReady \cup {p}
        /\ sem_hay_ready' = sem_hay_ready + 1 /\ sem_hay_ready' \in Nat
        /\ desalojo \ {p} \subseteq desalojo' /\ desalojo' \subseteq Pids
    <3>1. /\ rdy' \in Seq(Pids) /\ niveles' \in [0 .. Niveles - 1 -> Seq(Pids)]
          /\ ReadySinRepetir' /\ EnReady' = EnReady \cup {p}
          /\ sem_hay_ready' = sem_hay_ready + 1
          /\ desalojo \ {p} \subseteq desalojo' /\ desalojo' \subseteq Pids
      BY <2>0, <2>1, <2>3, EntraEnReady DEF Listas
    <3> QED
      BY <3>1 DEF TypeOK
  <2>5. rnn' \in Seq(Pids) /\ SinRepetir(rnn') /\ Elementos(rnn') = Elementos(rnn) \ {p}
    BY <2>1, QuitarSaca DEF TypeOK, Listas
  <2>6. TypeOK'
    BY <1>1, <1>3, <1>5, <1>6, <2>2, <2>4, <2>5 DEF TypeOK, compac, HiloOK, CpuOK, Lugares, Pasos
  <2>7. Duenios'
    <3>1. \A q \in Pids : espera'[q] # "no" <=> estado_pcb'[q] = "BCK"
      BY <1>1, <1>13, <2>0, <2>2 DEF Duenios
    <3> QED
      BY <1>1, <1>3, <1>4, <1>9, <2>2, <2>4, <3>1, DueniosDeUna
  <2>8. Listas'
    <3>1. /\ EnEstado("RNN")' = EnEstado("RNN") \ {p}
          /\ EnEstado("RDY")' = EnEstado("RDY") \cup {p}
      BY <2>0, <1>13, <2>2 DEF EnEstado
    <3> QED
      BY <1>10, <2>3, <2>4, <2>5, <3>1 DEF Listas
  <2>9. Fichas'
    <3>1. Eligiendo' = Eligiendo
      BY <1>1, <1>3, EligiendoIgual
    <3> QED
      BY <2>3, <2>4, <3>1, FichaMas
  <2>10. Reservas'
    BY <1>11, <2>2, <2>4
  <2> QED
    BY <1>7, <1>8, <2>6, <2>7, <2>8, <2>9, <2>10
<1> QED
  BY <1>2, <1>12, <1>13

-----------------------------------------------------------------------------
(* Steps of a timer or of a device: no CPU and no thread changes *)

LEMMA PasoVencerQuantum ==
    ASSUME IInv, NEW p \in Pids, VencerQuantum(p) \/ MarcarVencido(p) PROVE IInv'
<1> USE DEF IInv
<1>1. /\ quantum' \in [Pids -> SUBSET {"corre", "vence"}]
      /\ desalojo \subseteq desalojo' /\ desalojo' \subseteq desalojo \cup {p}
      /\ UNCHANGED <<algoritmo, estado_pcb, estado_anterior, prioridad, espera, ready, rnn,
                     retorno_cpu, compac, mutex_conexion_km, cpu, hilo>>
  <2>1. quantum \in [Pids -> SUBSET {"corre", "vence"}]
    BY DEF TypeOK
  <2>2. CASE VencerQuantum(p)
    <3>1. quantum' = [quantum EXCEPT ![p] = IF estado_pcb[p] = "RNN" THEN {"vence"} ELSE {}]
      BY <2>2 DEF VencerQuantum
    <3>2. quantum' \in [Pids -> SUBSET {"corre", "vence"}]
      BY <2>1, <3>1
    <3> QED
      BY <2>2, <3>2 DEF VencerQuantum, suplementarias
  <2>3. CASE MarcarVencido(p)
    <3>1. quantum' = [quantum EXCEPT ![p] = @ \ {"vence"}]
      BY <2>3 DEF MarcarVencido
    <3>2. quantum' \in [Pids -> SUBSET {"corre", "vence"}]
      BY <2>1, <3>1
    <3> QED
      BY <2>3, <3>2 DEF MarcarVencido
  <2> QED
    BY <2>2, <2>3
<1>2. TypeOK'
  BY <1>1 DEF TypeOK, ready, compac
<1>3. Semaforos' /\ Quieta'
  BY <1>1 DEF Semaforos, Quieta, compac
<1>4. Duenios'
  <2>1. \A c \in Cpus : DeCpu(c)'
    BY <1>1 DEF Duenios, DeCpu
  <2>2. \A c \in Cpus : \A q : Tiene(c, q)' <=> Tiene(c, q)
    BY <1>1 DEF Tiene
  <2> QED
    BY <1>1, <2>1, <2>2 DEF Duenios, Suelto
<1>5. EnReady' = EnReady /\ Con("eliminar")' = Con("eliminar") /\ Con("despachar")' = Con("despachar")
  BY <1>1 DEF EnReady, Con, ready
<1>6. Listas'
  BY <1>1, <1>5 DEF Listas, EnEstado, ReadySinRepetir, ready
<1>7. Fichas'
  BY <1>1, <1>5 DEF Fichas, Eligiendo, ready
<1>8. Reservas'
  BY <1>1, <1>5 DEF Reservas, Reserva
<1> QED
  BY <1>2, <1>3, <1>4, <1>6, <1>7, <1>8

LEMMA PasoFinalizarIO ==
    ASSUME IInv, NEW p \in Pids, FinalizarIOOrdenado(p) PROVE IInv'
<1> USE DEF IInv
<1>1. /\ espera[p] = "io" /\ espera' = [espera EXCEPT ![p] = "despierta"]
      /\ \A c \in Cpus : cpu[c].pid # p
      /\ UNCHANGED <<algoritmo, estado_pcb, estado_anterior, prioridad, quantum, ready, rnn,
                     suplementarias, compac, mutex_conexion_km, cpu, hilo>>
  BY DEF FinalizarIOOrdenado, FinalizarIO
<1>2. TypeOK'
  BY <1>1 DEF TypeOK, ready, suplementarias, compac
<1>3. Semaforos' /\ Quieta'
  BY <1>1 DEF Semaforos, Quieta, compac
<1>4. /\ espera'[p] = "despierta"
      /\ \A q \in Pids \ {p} : espera'[q] = espera[q]
  BY <1>1 DEF TypeOK
<1>5. Duenios'
  <2>1. ASSUME NEW c \in Cpus PROVE DeCpu(c)'
    <3>1. cpu[c].pid # Nadie => cpu[c].pid \in Pids \ {p}
      BY <1>1 DEF TypeOK
    <3>2. DeCpu(c)
      BY DEF Duenios
    <3> QED
      BY <1>1, <1>4, <3>1, <3>2 DEF DeCpu, suplementarias
  <2>2. \A c \in Cpus : \A q : Tiene(c, q)' <=> Tiene(c, q)
    BY <1>1 DEF Tiene
  <2>3. \A q \in Pids : espera'[q] # "no" <=> estado_pcb'[q] = "BCK"
    BY <1>1, <1>4 DEF Duenios
  <2> QED
    BY <1>1, <2>1, <2>2, <2>3 DEF Duenios, Suelto
<1>6. EnReady' = EnReady /\ Con("eliminar")' = Con("eliminar") /\ Con("despachar")' = Con("despachar")
  BY <1>1 DEF EnReady, Con, ready
<1>7. Listas'
  BY <1>1, <1>6 DEF Listas, EnEstado, ReadySinRepetir, ready
<1>8. Fichas'
  BY <1>1, <1>6 DEF Fichas, Eligiendo, ready
<1>9. Reservas'
  BY <1>1, <1>6 DEF Reservas, Reserva, suplementarias
<1> QED
  BY <1>2, <1>3, <1>5, <1>7, <1>8, <1>9

LEMMA PasoMedianoPlazoRdy ==
    ASSUME IInv, NEW p \in Pids, MedianoPlazoRdy(p) PROVE IInv'
<1> USE DEF IInv
<1>1. /\ espera[p] = "despierta" /\ espera' = [espera EXCEPT ![p] = "no"]
      /\ UNCHANGED <<algoritmo, prioridad, quantum, rnn, retorno_cpu, compac,
                     mutex_conexion_km, cpu, hilo>>
  BY DEF MedianoPlazoRdy
<1>2. estado_pcb[p] = "BCK"
  BY <1>1 DEF Duenios
<1>3. CambiarEstado(p, "RDY") /\ AgregarAReady(p, {})
  BY <1>2 DEF MedianoPlazoRdy
<1>4. \A c \in Cpus : cpu[c].pid # p /\ hilo[c].pid # p
  <2> SUFFICES ASSUME NEW c \in Cpus, cpu[c].pid = p \/ hilo[c].pid = p PROVE FALSE
    OBVIOUS
  <2>1. DeCpu(c) /\ p # Nadie
    BY PlanAssumption DEF Duenios
  <2> QED
    BY <1>1, <1>2, <2>1 DEF DeCpu, ConPid
<1>5. Con("eliminar")' = Con("eliminar") /\ Con("despachar")' = Con("despachar")
  BY <1>1 DEF Con
<1>6. /\ rdy' \in Seq(Pids) /\ niveles' \in [0 .. Niveles - 1 -> Seq(Pids)]
      /\ Listas' /\ p \notin EnReady /\ EnReady' = EnReady \cup {p}
      /\ sem_hay_ready' = sem_hay_ready + 1 /\ sem_hay_ready' \in Nat
      /\ desalojo \subseteq desalojo' /\ desalojo' \subseteq Pids
  BY <1>1, <1>2, <1>3, <1>5, EntraListas
<1>7. /\ estado_pcb' \in [Pids -> {"NEW", "RDY", "RNN", "BCK", "EXT"}]
      /\ estado_anterior' \in [Pids -> {"NO_ESTADO", "NEW", "RDY", "RNN", "BCK"}]
      /\ espera' \in [Pids -> {"no", "io", "despierta"}]
      /\ estado_pcb'[p] = "RDY" /\ espera'[p] = "no"
      /\ \A q \in Pids \ {p} : /\ estado_pcb'[q] = estado_pcb[q] /\ espera'[q] = espera[q]
                               /\ estado_anterior'[q] = estado_anterior[q]
  BY <1>1, <1>2, <1>3 DEF CambiarEstado, TypeOK
<1>8. TypeOK'
  BY <1>1, <1>6, <1>7 DEF TypeOK, compac
<1>9. Semaforos' /\ Quieta'
  BY <1>1 DEF Semaforos, Quieta, compac
<1>10. Duenios'
  <2>1. ASSUME NEW c \in Cpus PROVE DeCpu(c)'
    <3>1. /\ cpu[c].pid # Nadie => cpu[c].pid \in Pids \ {p}
          /\ hilo[c].pid # Nadie => hilo[c].pid \in Pids \ {p}
      BY <1>4 DEF TypeOK
    <3>2. DeCpu(c)
      BY DEF Duenios
    <3>3. hilo[c].pc \in {"despachar", "exit", "eliminar"} => hilo[c].pid \in Pids \ {p}
      BY <3>1, <3>2 DEF DeCpu, ConPid
    <3>4. cpu[c].pid # Nadie => /\ estado_pcb'[cpu[c].pid] = estado_pcb[cpu[c].pid]
                                /\ espera'[cpu[c].pid] = espera[cpu[c].pid]
                                /\ cpu[c].pid \in desalojo => cpu[c].pid \in desalojo'
      BY <1>6, <1>7, <3>1
    <3>5. hilo[c].pc \in {"despachar", "exit", "eliminar"} =>
              /\ estado_pcb'[hilo[c].pid] = estado_pcb[hilo[c].pid]
              /\ estado_anterior'[hilo[c].pid] = estado_anterior[hilo[c].pid]
      BY <1>7, <3>3
    <3> QED
      BY <1>1, <3>2, <3>4, <3>5 DEF DeCpu
  <2>2. \A c \in Cpus : \A q : Tiene(c, q)' <=> Tiene(c, q)
    BY <1>1 DEF Tiene
  <2>3. \A q \in Pids : espera'[q] # "no" <=> estado_pcb'[q] = "BCK"
    BY <1>7 DEF Duenios
  <2>4. \A q \in Pids : estado_pcb'[q] = "RNN" => estado_pcb[q] = "RNN"
    BY <1>7
  <2> QED
    BY <1>1, <2>1, <2>2, <2>3, <2>4 DEF Duenios, Suelto
<1>11. Fichas'
  <2>1. Eligiendo' = Eligiendo
    BY <1>1 DEF Eligiendo
  <2> QED
    BY <1>6, <2>1, FichaMas
<1>12. Reservas'
  <2> SUFFICES ASSUME NEW q \in Pids, retorno_cpu[q] # <<>> PROVE Reserva(q)'
    BY <1>1 DEF Reservas, Reserva
  <2>1. PICK h \in Cpus : h = Head(retorno_cpu[q])
    BY DEF TypeOK
  <2>2. Reserva(q)
    BY DEF Reservas
  <2>3. q # p
    BY <1>2, <2>2 DEF Reserva
  <2> QED
    BY <1>1, <1>5, <1>6, <1>7, <2>1, <2>2, <2>3 DEF Reserva
<1> QED
  BY <1>6, <1>8, <1>9, <1>10, <1>11, <1>12

-----------------------------------------------------------------------------
(* The invariant *)

LEMMA InicioIInv == Init => IInv
<1> SUFFICES ASSUME Init PROVE IInv
  OBVIOUS
<1> USE PlanAssumption DEF Init
<1>1. TypeOK
  <2>1. cpu \in [Cpus -> [pid : Pids \cup {Nadie}, propio : BOOLEAN,
                          paso : {"ejecuta", "chequea", "guarda", "muerta"}]]
    BY DEF CpuOciosa
  <2>2. niveles \in [0 .. Niveles - 1 -> Seq(Pids)]
    <3>1. <<Primero>> \in Seq(Pids) /\ <<>> \in Seq(Pids)
      OBVIOUS
    <3> QED
      BY <3>1
  <2>3. retorno_cpu \in [Pids -> Seq(Cpus)] /\ rnn \in Seq(Pids)
    <3>1. \A S : <<>> \in Seq(S)
      OBVIOUS
    <3> QED
      BY <3>1
  <2>4. rdy \in Seq(Pids)
    <3>1. <<Primero>> \in Seq(Pids) /\ <<>> \in Seq(Pids)
      OBVIOUS
    <3> QED
      BY <3>1
  <2>5. hilo \in [Cpus -> [pc : {"km"}, pid : {Nadie}]]
    OBVIOUS
  <2>6. /\ estado_pcb \in [Pids -> {"NEW", "RDY"}]
        /\ estado_anterior \in [Pids -> {"NO_ESTADO", "NEW"}]
        /\ espera \in [Pids -> {"no"}] /\ quantum \in [Pids -> SUBSET {"corre", "vence"}]
    OBVIOUS
  <2> QED
    BY <2>1, <2>2, <2>3, <2>4, <2>5, <2>6 DEF TypeOK
<1>2. \A c \in Cpus : /\ hilo[c].pc = "km" /\ hilo[c].pid = Nadie
                      /\ cpu[c].pid = Nadie /\ cpu[c].propio /\ cpu[c].paso = "ejecuta"
  BY DEF CpuOciosa
<1>3. Semaforos
  BY <1>2 DEF Semaforos, ConSem, ConMutex, Compactando
<1>4. Duenios
  <2>1. \A c \in Cpus : \A p \in Pids : ~Tiene(c, p)
    BY <1>2 DEF Tiene
  <2>2. \A c \in Cpus : DeCpu(c)
    BY <1>2 DEF DeCpu, ConPid, SinProceso, Sirviendo, Compactando
  <2> QED
    BY <2>1, <2>2 DEF Duenios
<1>5. Con("eliminar") = {} /\ Con("despachar") = {} /\ Eligiendo = {}
  BY <1>2 DEF Con, Eligiendo
<1>6. /\ Elementos(<<>>) = {} /\ SinRepetir(<<>>)
      /\ Elementos(<<Primero>>) = {Primero} /\ SinRepetir(<<Primero>>)
  BY DEF Elementos, SinRepetir
<1>7. EnReady = {Primero} /\ ReadySinRepetir
  <2>1. CASE algoritmo = "CMN"
    <3>1. PICK k \in 0 .. Niveles - 1 : k = PrioridadDe[Primero]
      OBVIOUS
    <3>2. /\ rdy = <<>> /\ niveles[k] = <<Primero>>
          /\ \A n \in (0 .. Niveles - 1) \ {k} : niveles[n] = <<>>
      BY <2>1, <3>1
    <3> QED
      BY <1>6, <3>2 DEF EnReady, ReadySinRepetir
  <2>2. CASE algoritmo # "CMN"
    <3>1. rdy = <<Primero>> /\ \A n \in 0 .. Niveles - 1 : niveles[n] = <<>>
      BY <2>2
    <3> QED
      BY <1>6, <3>1, SMTT(30) DEF EnReady, ReadySinRepetir
  <2> QED
    BY <2>1, <2>2
<1>8. Listas
  <2>1. EnEstado("RNN") = {} /\ EnEstado("RDY") = {Primero}
    BY DEF EnEstado
  <2> QED
    BY <1>5, <1>6, <1>7, <2>1 DEF Listas
<1>9. Fichas
  <2>1. Cardinality(Eligiendo) = 0 /\ Cardinality(EnReady) = 1
    BY <1>5, <1>7, FS_EmptySet, FS_Singleton
  <2> QED
    BY <2>1 DEF Fichas
<1>10. Reservas
  BY DEF Reservas, Reserva
<1>11. Quieta
  BY <1>2 DEF Quieta
<1> QED
  BY <1>1, <1>3, <1>4, <1>8, <1>9, <1>10, <1>11 DEF IInv

LEMMA PasoIInv == IInv /\ [NextOrdenado]_vars => IInv'
<1> SUFFICES ASSUME IInv, [NextOrdenado]_vars PROVE IInv'
  OBVIOUS
<1>1. CASE UNCHANGED vars
  <2> USE DEF IInv
  <2>1. /\ UNCHANGED <<algoritmo, estado_pcb, estado_anterior, prioridad, espera, quantum>>
        /\ UNCHANGED <<rdy, niveles, sem_hay_ready, rnn, desalojo, retorno_cpu>>
        /\ UNCHANGED <<compactacion_value, sem_compactacion, mutex_conexion_km, cpu, hilo>>
    BY <1>1 DEF vars, procesos, ready, suplementarias, compac
  <2>2. TypeOK' /\ Semaforos' /\ Quieta'
    BY <2>1 DEF TypeOK, Semaforos, Quieta
  <2>3. Duenios'
    BY <2>1 DEF Duenios, DeCpu, Tiene, Suelto
  <2>4. EnReady' = EnReady /\ \A e : Con(e)' = Con(e)
    BY <2>1 DEF EnReady, Con
  <2>5. Listas' /\ Fichas'
    BY <2>1, <2>4 DEF Listas, ReadySinRepetir, EnEstado, Fichas, Eligiendo
  <2>6. Reservas'
    BY <2>1, <2>4 DEF Reservas, Reserva
  <2> QED
    BY <2>2, <2>3, <2>5, <2>6
<1>2. ASSUME NEW c \in Cpus, Espera(c) PROVE IInv'
  BY <1>2, PasoTomarFicha, PasoTomarSemCompactacion, PasoConsultarKM, PasoRespuestaKM,
     PasoCompactacion, PasoFinalizar, PasoCrearNuevoProceso DEF Espera
<1>3. ASSUME NEW c \in Cpus, Sigue(c) PROVE IInv'
  BY <1>3, PasoNoMandar, PasoDespachar, PasoCompactacion, PasoRespuestaKM, PasoDesalojo,
     PasoVolverAReady, PasoEliminar, PasoDesconectar DEF Sigue
<1>4. ASSUME NEW c \in Cpus, Syscall(c) PROVE IInv'
  BY <1>4, PasoPedido, PasoExit, PasoSegmentationFault, PasoBloquear DEF Syscall
<1>5. ASSUME NEW c \in Cpus, Instruccion(c) \/ CaidaOrdenada(c) \/ PedirCompactacion(c)
      PROVE  IInv'
  BY <1>5, PasoInstruccion, PasoCaida, PasoCompactacion
<1>6. ASSUME NEW c \in Cpus, NEW p \in Pids, MandarOrdenado(c, p) PROVE IInv'
  BY <1>6, PasoMandar
<1>7. ASSUME NEW p \in Pids, \/ VencerQuantum(p) \/ MarcarVencido(p)
                          \/ MedianoPlazoRdy(p) \/ FinalizarIOOrdenado(p)
      PROVE  IInv'
  BY <1>7, PasoVencerQuantum, PasoMedianoPlazoRdy, PasoFinalizarIO
<1>8. CASE PasoOrdenado
  <2>1. \/ \E c \in Cpus : \/ Espera(c) \/ Sigue(c) \/ Syscall(c)
                           \/ Instruccion(c) \/ CaidaOrdenada(c)
        \/ \E c \in Cpus, p \in Pids : MandarOrdenado(c, p)
        \/ \E p \in Pids : \/ VencerQuantum(p) \/ MarcarVencido(p)
                           \/ MedianoPlazoRdy(p) \/ FinalizarIOOrdenado(p)
    BY <1>8 DEF PasoOrdenado, Reloj
  <2> QED
    BY <1>2, <1>3, <1>4, <1>5, <1>6, <1>7, <2>1
<1> QED
  BY <1>1, <1>5, <1>8 DEF NextOrdenado

-----------------------------------------------------------------------------
(* Theorems *)

\* The inductive invariant holds in every state of the scheduler without its windows.
THEOREM Invariante == SpecOrdenada => []IInv
BY InicioIInv, PasoIInv, PTL DEF SpecOrdenada

\* The types of the lists, the states and the semaphores.
THEOREM TiposCorrectos == SpecOrdenada => []TypeOK
<1>1. IInv => TypeOK
  BY DEF IInv
<1> QED
  BY <1>1, Invariante, PTL

\* How many times a process is in a list where nothing is twice.
LEMMA VecesDeUna ==
    ASSUME NEW s, NEW p, SinRepetir(s)
    PROVE  Veces(s, p) = IF p \in Elementos(s) THEN 1 ELSE 0
<1> DEFINE en == {i \in DOMAIN s : s[i] = p}
<1>1. CASE p \in Elementos(s)
  <2>1. PICK i \in DOMAIN s : s[i] = p
    BY <1>1 DEF Elementos
  <2>2. en = {i}
    BY <2>1 DEF SinRepetir
  <2>3. Cardinality(en) = 1
    BY <2>2, FS_Singleton
  <2> QED
    BY <1>1, <2>3 DEF Veces
<1>2. CASE p \notin Elementos(s)
  <2>1. en = {}
    BY <1>2 DEF Elementos
  <2>2. Cardinality(en) = 0
    BY <2>1, FS_EmptySet
  <2> QED
    BY <1>2, <2>2 DEF Veces
<1> QED
  BY <1>1, <1>2

LEMMA VecesDeReady ==
    ASSUME TypeOK, ReadySinRepetir, NEW p
    PROVE  VecesEnReady(p) = IF p \in EnReady THEN 1 ELSE 0
<1> DEFINE lugares == UNION {{n} \X DOMAIN niveles[n] : n \in DOMAIN niveles}
           en == {x \in lugares : niveles[x[1]][x[2]] = p}
<1>1. VecesEnReady(p) = Veces(rdy, p) + Cardinality(en)
  BY DEF VecesEnReady
<1>2. Veces(rdy, p) = IF p \in Elementos(rdy) THEN 1 ELSE 0
  BY VecesDeUna DEF ReadySinRepetir
<1>3. DOMAIN niveles = 0 .. Niveles - 1
  BY DEF TypeOK
<1>4. ASSUME NEW x \in lugares
      PROVE  x[1] \in 0 .. Niveles - 1 /\ x[2] \in DOMAIN niveles[x[1]] /\ x = <<x[1], x[2]>>
  <2>1. PICK n \in DOMAIN niveles : x \in {n} \X DOMAIN niveles[n]
    OBVIOUS
  <2> QED
    BY <1>3, <2>1
<1>5. CASE \E n \in 0 .. Niveles - 1 : p \in Elementos(niveles[n])
  <2>1. PICK n \in 0 .. Niveles - 1 : p \in Elementos(niveles[n])
    BY <1>5
  <2>2. PICK i \in DOMAIN niveles[n] : niveles[n][i] = p
    BY <2>1 DEF Elementos
  <2>3. en = {<<n, i>>}
    <3>1. <<n, i>> \in en
      BY <1>3, <2>2
    <3>2. ASSUME NEW x \in en PROVE x = <<n, i>>
      <4>1. x[1] \in 0 .. Niveles - 1 /\ x[2] \in DOMAIN niveles[x[1]] /\ x = <<x[1], x[2]>>
        BY <1>4
      <4>2. p \in Elementos(niveles[x[1]])
        BY <4>1 DEF Elementos
      <4>3. x[1] = n
        BY <2>1, <4>1, <4>2 DEF ReadySinRepetir
      <4>4. x[2] = i
        BY <2>2, <4>1, <4>3 DEF ReadySinRepetir, SinRepetir
      <4> QED
        BY <4>1, <4>3, <4>4
    <3> QED
      BY <3>1, <3>2
  <2>4. Cardinality(en) = 1
    BY <2>3, FS_Singleton
  <2>5. p \in EnReady /\ p \notin Elementos(rdy)
    BY <2>1 DEF EnReady, ReadySinRepetir
  <2> QED
    BY <1>1, <1>2, <2>4, <2>5
<1>6. CASE \A n \in 0 .. Niveles - 1 : p \notin Elementos(niveles[n])
  <2>1. en = {}
    BY <1>4, <1>6 DEF Elementos
  <2>2. Cardinality(en) = 0
    BY <2>1, FS_EmptySet
  <2>3. p \in EnReady <=> p \in Elementos(rdy)
    BY <1>6 DEF EnReady
  <2> QED
    BY <1>1, <1>2, <2>2, <2>3
<1> QED
  BY <1>5, <1>6

\* No process is on two CPUs, dispatched or waiting in READY while a CPU has it, nor
\* in RUNNING without anybody to take it out of there (mandar_proceso_cpu, desalojo,
\* gestionar_desconexion_cpu).
THEOREM UnaCpuSiempre == SpecOrdenada => []UnaSolaCpu
<1>1. ASSUME IInv PROVE UnaSolaCpu
  <2> USE <1>1 DEF IInv
  <2>1. EjecucionUnica
    BY DEF EjecucionUnica, Duenios, Tiene, TypeOK
  <2>2. ASSUME NEW c \in Cpus, NEW d \in Cpus, cpu[c].pid # Nadie
        PROVE  hilo[d].pid # cpu[c].pid /\ VecesEnReady(cpu[c].pid) = 0
    <3>1. cpu[c].pid \in Pids /\ estado_pcb[cpu[c].pid] # "RDY"
      BY <2>2 DEF TypeOK, Duenios, DeCpu
    <3>2. VecesEnReady(cpu[c].pid) = 0
      <4>1. cpu[c].pid \notin EnReady
        BY <3>1 DEF Listas, EnEstado
      <4> QED
        BY <4>1, VecesDeReady DEF Listas
    <3>3. hilo[d].pid # cpu[c].pid
      <4> SUFFICES ASSUME hilo[d].pid = cpu[c].pid PROVE FALSE
        OBVIOUS
      <4>1. d = c
        BY <3>1 DEF Duenios, Tiene
      <4> QED
        BY <2>2, <4>1 DEF Duenios, DeCpu, SinProceso
    <3> QED
      BY <3>2, <3>3
  <2>3. \A p \in Pids : estado_pcb[p] = "RNN" => \E c \in Cpus : p \in {cpu[c].pid, hilo[c].pid}
    BY DEF Duenios, Suelto, Tiene
  <2> QED
    BY <2>1, <2>2, <2>3 DEF UnaSolaCpu
<1> QED
  BY <1>1, Invariante, PTL

\* A process is once in the list of its state and in no other, but for one that is
\* being dispatched or leaving its CPU (agregar_proceso_lista, eliminar_proceso_Lista).
THEOREM ListasSiempreExactas == SpecOrdenada => []ListasExactas
<1>1. ASSUME IInv PROVE ListasExactas
  <2> USE <1>1 DEF IInv
  <2> SUFFICES ASSUME NEW p \in Pids
               PROVE  /\ Veces(rnn, p) =
                             IF \/ estado_pcb[p] = "RNN"
                                \/ /\ \E c \in Cpus : hilo[c].pc = "eliminar" /\ hilo[c].pid = p
                                   /\ estado_anterior[p] = "RNN" THEN 1 ELSE 0
                      /\ VecesEnReady(p) =
                             IF /\ estado_pcb[p] = "RDY"
                                /\ ~\E c \in Cpus : hilo[c].pc = "despachar" /\ hilo[c].pid = p
                             THEN 1 ELSE 0
    BY DEF ListasExactas
  <2>1. \A e : p \in Con(e) <=> \E c \in Cpus : hilo[c].pc = e /\ hilo[c].pid = p
    BY DEF Con
  <2>2. p \in Con("eliminar") => estado_anterior[p] = "RNN"
    BY <2>1 DEF Duenios, DeCpu
  <2>3. p \in Elementos(rnn) <=> estado_pcb[p] = "RNN" \/ p \in Con("eliminar")
    BY DEF Listas, EnEstado
  <2>4. p \in EnReady <=> estado_pcb[p] = "RDY" /\ p \notin Con("despachar")
    BY DEF Listas, EnEstado
  <2>5. Veces(rnn, p) = IF p \in Elementos(rnn) THEN 1 ELSE 0
    BY VecesDeUna DEF Listas
  <2>6. VecesEnReady(p) = IF p \in EnReady THEN 1 ELSE 0
    BY VecesDeReady DEF Listas
  <2> QED
    BY <2>1, <2>2, <2>3, <2>4, <2>5, <2>6
<1> QED
  BY <1>1, Invariante, PTL

\* The tokens of sem_hay_ready, and those of the threads that are choosing, are as
\* many as the processes in READY (agregar_proceso_lista, mandar_proceso_cpu).
THEOREM FichasSiempreReady == SpecOrdenada => []FichasReady
<1>1. ASSUME IInv PROVE FichasReady
  <2> USE <1>1 DEF IInv
  <2> DEFINE enReady == {x \in Pids \X (1 .. Cardinality(Pids)) : x[2] <= VecesEnReady(x[1])}
             f == [p \in EnReady |-> <<p, 1>>]
  <2>1. IsFiniteSet(EnReady) /\ EnReady \subseteq Pids
    BY ReadyFinita
  <2>2. Cardinality(Pids) \in Nat /\ Cardinality(Pids) >= 1
    <3>1. Cardinality(Pids) \in Nat /\ Cardinality(Pids) # 0
      BY PlanAssumption, FS_CardinalityType, FS_EmptySet
    <3> QED
      BY <3>1
  <2>3. enReady = {<<p, 1>> : p \in EnReady}
    <3>1. ASSUME NEW x \in enReady PROVE x \in {<<p, 1>> : p \in EnReady}
      <4>1. x = <<x[1], x[2]>> /\ x[2] \in 1 .. Cardinality(Pids) /\ x[2] <= VecesEnReady(x[1])
        OBVIOUS
      <4>2. VecesEnReady(x[1]) = IF x[1] \in EnReady THEN 1 ELSE 0
        BY VecesDeReady DEF Listas
      <4>3. x[1] \in EnReady /\ x[2] = 1
        BY <2>2, <4>1, <4>2
      <4> QED
        BY <4>1, <4>3
    <3>2. ASSUME NEW p \in EnReady PROVE <<p, 1>> \in enReady
      <4>1. VecesEnReady(p) = 1
        BY VecesDeReady DEF Listas
      <4>2. 1 \in 1 .. Cardinality(Pids)
        BY <2>2
      <4> QED
        BY <2>1, <4>1, <4>2
    <3> QED
      BY <3>1, <3>2
  <2>4. Cardinality(enReady) = Cardinality(EnReady)
    <3>1. f \in Bijection(EnReady, enReady)
      <4>1. f \in [EnReady -> enReady]
        BY <2>3
      <4>2. \A a, b \in EnReady : f[a] = f[b] => a = b
        OBVIOUS
      <4>3. \A t \in enReady : \E a \in EnReady : f[a] = t
        BY <2>3
      <4> HIDE DEF f, enReady
      <4> QED
        BY <4>1, <4>2, <4>3, Fun_IsBij
    <3> HIDE DEF f, enReady
    <3>2. ExistsBijection(EnReady, enReady)
      BY <3>1, Fun_ExistsBij
    <3> QED
      BY <2>1, <3>2, FS_Bijection
  <2> HIDE DEF enReady
  <2>5. sem_hay_ready + Cardinality(Eligiendo) = Cardinality(enReady)
    BY <2>4 DEF Fichas
  <2> QED
    BY <2>5 DEF FichasReady, Eligiendo, enReady
<1> QED
  BY <1>1, Invariante, PTL

\* A reservation is of one CPU that is still there, and of a process that waits in READY
\* or is about to leave that CPU (pinear_retorno_cpu, quitar_retorno_cpu,
\* quitar_retorno_por_fd).
THEOREM ReservaSiempreVigente == SpecOrdenada => []ReservaVigente
<1>1. ASSUME IInv PROVE ReservaVigente
  BY <1>1 DEF IInv, Reservas, Reserva, ReservaVigente
<1> QED
  BY <1>1, Invariante, PTL

\* While Kernel Memory moves the segments no other CPU is in the middle of an
\* instruction and nobody is dispatched (compactacion, mandar_proceso_cpu).
THEOREM CompactacionSiempreQuieta == SpecOrdenada => []CompactacionQuieta
<1>1. ASSUME IInv PROVE CompactacionQuieta
  <2> SUFFICES ASSUME NEW c \in Cpus, hilo[c].pc = "compactando", NEW d \in Cpus \ {c}
               PROVE  /\ cpu[d].pid = Nadie \/ cpu[d].paso # "ejecuta"
                      /\ hilo[d].pc # "despachar"
    BY DEF CompactacionQuieta
  <2> QED
    BY <1>1 DEF IInv, Quieta, Semaforos, ConSem
<1> QED
  BY <1>1, Invariante, PTL

=============================================================================

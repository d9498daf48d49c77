--------------------------- MODULE MutexKS_proofs ---------------------------
(***************************************************************************)
(* Proofs about the mutexes of the Kernel Scheduler and its medium-term     *)
(* planning (module MutexKS), for any scripts, processes, mutexes, levels   *)
(* and rounds of nuevo_espacio.  They are about SpecJusta, the scheduler    *)
(* under the hypotheses on time of its module, as the run MutexKS is.       *)
(***************************************************************************)
EXTENDS MutexKS, TLAPS, FiniteSetTheorems, SequenceTheorems,
        WellFoundedInduction

-----------------------------------------------------------------------------
(* The inductive invariant *)

EnCola(p, m) == p \in ToSet(mutex[m].cola)
SinRepetir(s) == \A i, j \in DOMAIN s : s[i] = s[j] => i = j

\* A pid whose INIT_PROC is still ahead is new, and a new one is nowhere.
Nacen ==
    \A p \in Pids : \A k \in DOMAIN programa[p] :
        k > pc[p] /\ programa[p][k].op = "INIT_PROC" => Estado(programa[p][k].hijo) = "NEW"

\* Who is in a CPU, and in which state while its thread moves it.
EnSuCpu(p) ==
    LET paso == hilo[p].paso IN
    /\ Estado(p) = "RNN" => EnCpu(p)
    /\ EnCpu(p) => Estado(p) \in {"RNN", "BCK", "RDY"}
    /\ paso \in {"fetch", "encolado", "despierta"} => Estado(p) = "RNN"
    /\ paso \in {"bloqueado", "agregado"} => Estado(p) = "BCK" /\ pcb[p].anterior = "RNN"
    /\ paso = "interrupt" /\ Estado(p) # "RNN" => p \in desalojo
    /\ paso = "vuelve" => Estado(p) = "RNN" \/ (Estado(p) = "BCK" /\ ~pcb[p].esperando_io)
    /\ paso \in {"listo", "sale"} => Estado(p) = "RDY" /\ pcb[p].anterior \in {"RNN", "BCK"}

Cpus == \A p \in Pids : EnSuCpu(p)

\* A mutex is taken or nobody waits for it; nobody waits twice.
Colas ==
    /\ \A m \in Mutexes :
         /\ mutex[m].valor = 1 <=> mutex[m].duenio = Nadie
         /\ mutex[m].duenio = Nadie => mutex[m].cola = <<>>
         /\ SinRepetir(mutex[m].cola)
    /\ \A m, n \in Mutexes : \A p \in Pids : EnCola(p, m) /\ EnCola(p, n) => m = n

\* What a process waits for, and who is about to wake it.
EsperaBien(p) ==
    /\ pcb[p].esperando_io <=> p \in en_io \/ \E m \in Mutexes : EnCola(p, m)
    /\ p \in en_io => Estado(p) \in {"BCK", "S_BCK"} /\ \A m \in Mutexes : ~EnCola(p, m)
    /\ pcb[p].esperando_io => Estado(p) \in {"BCK", "S_BCK"} \/ hilo[p].paso = "encolado"
    /\ hilo[p].paso = "despierta" => hilo[p].otro \in Pids
    /\ PorDespertar(p) => /\ ~pcb[p].esperando_io
                          /\ \/ Estado(p) \in {"BCK", "S_BCK", "RDY", "S_RDY"}
                             \/ hilo[p].paso = "encolado"
    /\ Estado(p) \in {"BCK", "S_BCK"} /\ ~pcb[p].esperando_io /\ ~EnCpu(p) => PorDespertar(p)

Esperas == \A p \in Pids : EsperaBien(p)

Quitado(r, p) == rondas[r].fase = "quitado" /\ rondas[r].pid = p

\* A process is once in its list.
ListaNiveles ==
    /\ \A n \in 0 .. Niveles - 1 : SinRepetir(niveles[n])
    /\ \A p \in Pids : \A n \in 0 .. Niveles - 1 :
         p \in ToSet(niveles[n]) <=> EnReady(p) /\ pcb[p].prioridad = n

ListaRnn == SinRepetir(rnn) /\ \A p \in Pids : p \in ToSet(rnn) <=> EnRunning(p)

ListaSRdy ==
    /\ SinRepetir(s_rdy)
    /\ \A p \in Pids :
         /\ Estado(p) = "S_RDY" <=> p \in ToSet(s_rdy) \/ \E r \in Rondas : Quitado(r, p)
         /\ p \in ToSet(s_rdy) => \A r \in Rondas : ~Quitado(r, p)
         /\ \A r, t \in Rondas : Quitado(r, p) /\ Quitado(t, p) => r = t

Listas == ListaNiveles /\ ListaRnn /\ ListaSRdy

\* A thread that suspends a process is the only one, and its segments are still in RAM.
Suspension(h) == h.fase \in {"avisa", "deshace"}
HilosBien ==
    /\ \A h \in hilos : Suspension(h) => Estado(h.pid) \in {"S_BCK", "S_RDY"} /\ residente[h.pid]
    /\ \A h, g \in hilos : Suspension(h) /\ Suspension(g) /\ h.pid = g.pid => h = g

\* A round and a thread that suspends never hold the same process.
RondaBien(r) ==
    LET p == rondas[r].pid IN
    /\ p = Nadie <=> rondas[r].fase = "busca"
    /\ p # Nadie =>
         /\ ~SuspensionEnCurso(p) /\ Estado(p) # "S_BCK"
         /\ rondas[r].fase \in {"respondido", "quitado"} /\ Estado(p) = "S_RDY" => residente[p]

EnRam == \A p \in Pids : Estado(p) \in {"NEW", "RDY", "RNN", "BCK"} => residente[p]

Plazos == HilosBien /\ (\A r \in Rondas : RondaBien(r)) /\ EnRam

IInv == TypeOK /\ Nacen /\ Cpus /\ Colas /\ Esperas /\ Listas /\ Plazos /\ HerenciaJusta

-----------------------------------------------------------------------------
(* Lemmas about the operators on lists *)

LEMMA AgregarAlFinal ==
    ASSUME NEW S, NEW s \in Seq(S), NEW p \in S
    PROVE  /\ Append(s, p) \in Seq(S)
           /\ ToSet(Append(s, p)) = ToSet(s) \cup {p}
           /\ SinRepetir(s) /\ p \notin ToSet(s) => SinRepetir(Append(s, p))
<1> DEFINE r == Append(s, p)
<1>1. /\ r \in Seq(S) /\ Len(r) = Len(s) + 1 /\ r[Len(s) + 1] = p
      /\ \A i \in 1 .. Len(s) : r[i] = s[i]
  OBVIOUS
<1>2. DOMAIN s = 1 .. Len(s) /\ DOMAIN r = 1 .. Len(s) + 1 /\ Len(s) \in Nat
  BY <1>1
<1> HIDE DEF r
<1>3. ToSet(r) = ToSet(s) \cup {p}
  <2>1. ASSUME NEW i \in DOMAIN r PROVE r[i] \in ToSet(s) \cup {p}
    BY <1>1, <1>2 DEF ToSet
  <2>2. ASSUME NEW i \in DOMAIN s PROVE s[i] \in ToSet(r)
    BY <1>1, <1>2 DEF ToSet
  <2>3. p \in ToSet(r)
    BY <1>1, <1>2 DEF ToSet
  <2> QED
    BY <2>1, <2>2, <2>3 DEF ToSet
<1>4. SinRepetir(s) /\ p \notin ToSet(s) => SinRepetir(r)
  BY <1>1, <1>2 DEF SinRepetir, ToSet
<1> QED
  BY <1>1, <1>3, <1>4 DEF r

LEMMA SacarPrimero ==
    ASSUME NEW S, NEW s \in Seq(S), s # <<>>
    PROVE  /\ Head(s) \in S /\ Head(s) \in ToSet(s)
           /\ Tail(s) \in Seq(S)
           /\ SinRepetir(s) => /\ SinRepetir(Tail(s))
                               /\ ToSet(Tail(s)) = ToSet(s) \ {Head(s)}
<1> DEFINE r == Tail(s)
<1>1. /\ r \in Seq(S) /\ Len(s) \in Nat /\ Len(s) > 0 /\ Len(r) = Len(s) - 1
      /\ Head(s) = s[1] /\ s[1] \in S
      /\ \A i \in 1 .. Len(s) - 1 : r[i] = s[i + 1]
  OBVIOUS
<1>2. DOMAIN s = 1 .. Len(s) /\ DOMAIN r = 1 .. Len(s) - 1
  BY <1>1
<1> HIDE DEF r
<1>3. Head(s) \in ToSet(s)
  BY <1>1, <1>2 DEF ToSet
<1>4. ASSUME SinRepetir(s) PROVE SinRepetir(r) /\ ToSet(r) = ToSet(s) \ {Head(s)}
  <2>1. ASSUME NEW i \in DOMAIN r
        PROVE  i + 1 \in DOMAIN s /\ i + 1 # 1 /\ r[i] = s[i + 1] /\ i \in Int
    BY <1>1, <1>2
  <2>2. SinRepetir(r)
    <3> SUFFICES ASSUME NEW i \in DOMAIN r, NEW j \in DOMAIN r, r[i] = r[j] PROVE i = j
      BY DEF SinRepetir
    <3>1. i + 1 = j + 1
      BY <1>4, <2>1 DEF SinRepetir
    <3> QED
      BY <2>1, <3>1
  <2>3. ASSUME NEW i \in DOMAIN r PROVE r[i] \in ToSet(s) \ {Head(s)}
    <3>1. 1 \in DOMAIN s
      BY <1>1, <1>2
    <3> QED
      BY <1>1, <1>4, <2>1, <3>1 DEF ToSet, SinRepetir
  <2>4. ASSUME NEW i \in DOMAIN s, s[i] # Head(s) PROVE s[i] \in ToSet(r)
    <3>1. i - 1 \in DOMAIN r /\ (i - 1) + 1 = i
      BY <1>1, <1>2, <2>4
    <3>2. r[i - 1] = s[i]
      BY <2>1, <3>1
    <3> QED
      BY <3>1, <3>2 DEF ToSet
  <2> QED
    BY <2>2, <2>3, <2>4 DEF ToSet
<1> QED
  BY <1>1, <1>3, <1>4 DEF r

\* Sin takes out the element of a list where nothing is twice, and nothing else.
LEMMA SinSaca ==
    ASSUME NEW S, NEW s \in Seq(S), NEW p, SinRepetir(s)
    PROVE  /\ Sin(s, p) \in Seq(S) /\ SinRepetir(Sin(s, p))
           /\ ToSet(Sin(s, p)) = ToSet(s) \ {p}
<1>0. DOMAIN s = 1 .. Len(s) /\ Len(s) \in Nat
  OBVIOUS
<1>1. CASE p \notin ToSet(s)
  <2>1. \A i \in 1 .. Len(s) : s[i] # p
    BY <1>0, <1>1 DEF ToSet
  <2>2. Sin(s, p) = s
    BY <2>1 DEF Sin, RemoveFirst
  <2> QED
    BY <1>1, <2>2
<1>2. CASE p \in ToSet(s)
  <2> PICK i \in 1 .. Len(s) : s[i] = p
    BY <1>0, <1>2 DEF ToSet
  <2> DEFINE r == SubSeq(s, 1, i - 1) \o SubSeq(s, i + 1, Len(s))
  <2>1. \A j \in 1 .. Len(s) : s[j] = p => j = i
    BY <1>0 DEF SinRepetir
  <2>2. i \in 1 .. Len(s) /\ s[i] = p
    OBVIOUS
  <2>3. Sin(s, p) = r
    <3>1. {j \in 1 .. Len(s) : s[j] = p} = {i}
      BY <2>1
    <3>2. Min({i}) = i
      BY DEF Min
    <3>3. SelectInSeq(s, LAMBDA v : v = p) = i
      BY <3>1, <3>2 DEF SelectInSeq
    <3> QED
      BY <2>1, <3>3 DEF Sin, RemoveFirst, RemoveAt
  <2>4. /\ r \in Seq(S) /\ Len(r) = Len(s) - 1
        /\ \A k \in 1 .. i - 1 : r[k] = s[k]
        /\ \A k \in i .. Len(s) - 1 : r[k] = s[k + 1]
    <3> DEFINE a == SubSeq(s, 1, i - 1)
               b == SubSeq(s, i + 1, Len(s))
    <3>1. /\ a \in Seq(S) /\ Len(a) = i - 1
          /\ \A k \in 1 .. i - 1 : a[k] = s[k]
      BY <1>0, <2>2
    <3>2. /\ b \in Seq(S) /\ Len(b) = Len(s) - i
          /\ \A k \in 1 .. Len(s) - i : b[k] = s[i + k]
      <4>1. \A k \in i + 1 .. Len(s) : s[k] \in S
        BY <1>0, <2>2
      <4>2. /\ b \in Seq(S)
            /\ Len(b) = IF i + 1 <= Len(s) THEN Len(s) - (i + 1) + 1 ELSE 0
            /\ \A k \in 1 .. Len(s) - (i + 1) + 1 : b[k] = s[i + 1 + k - 1]
        <5> i + 1 \in Int /\ Len(s) \in Int
          BY <1>0, <2>2
        <5> QED
          BY <4>1, SubSeqProperties
      <4> HIDE DEF b
      <4>3. ASSUME NEW k \in 1 .. Len(s) - i PROVE b[k] = s[i + k]
        <5>1. k \in 1 .. Len(s) - (i + 1) + 1 /\ i + 1 + k - 1 = i + k
          BY <1>0, <2>2
        <5> QED
          BY <4>2, <5>1
      <4>4. Len(b) = Len(s) - i
        <5>1. i \in Int /\ Len(s) \in Int /\ i <= Len(s)
          BY <1>0, <2>2
        <5>2. Len(b) = IF i + 1 <= Len(s) THEN Len(s) - (i + 1) + 1 ELSE 0
          BY <4>2
        <5> QED
          BY <5>1, <5>2
      <4> QED
        BY <4>2, <4>3, <4>4
    <3> HIDE DEF a, b
    <3>3. /\ a \o b \in Seq(S) /\ Len(a \o b) = Len(a) + Len(b)
          /\ \A k \in 1 .. Len(a) : (a \o b)[k] = a[k]
          /\ \A k \in Len(a) + 1 .. Len(a) + Len(b) : (a \o b)[k] = b[k - Len(a)]
      <4>1. /\ a \o b \in Seq(S) /\ Len(a \o b) = Len(a) + Len(b)
            /\ \A k \in 1 .. Len(a) + Len(b) :
                 (a \o b)[k] = IF k <= Len(a) THEN a[k] ELSE b[k - Len(a)]
        BY <3>1, <3>2, ConcatProperties
      <4>2. Len(a) \in Nat /\ Len(b) \in Nat
        BY <3>1, <3>2
      <4> QED
        BY <4>1, <4>2
    <3>4. ASSUME NEW k \in i .. Len(s) - 1 PROVE (a \o b)[k] = s[k + 1]
      <4>1. k \in Len(a) + 1 .. Len(a) + Len(b) /\ k - Len(a) \in 1 .. Len(s) - i
        BY <1>0, <2>2, <3>1, <3>2
      <4>2. i + (k - Len(a)) = k + 1
        BY <1>0, <2>2, <3>1
      <4> QED
        BY <3>2, <3>3, <4>1, <4>2
    <3>5. Len(a) + Len(b) = Len(s) - 1
      BY <1>0, <2>2, <3>1, <3>2
    <3> QED
      BY <3>1, <3>3, <3>4, <3>5 DEF a, b
  <2>5. DOMAIN r = 1 .. Len(s) - 1
    BY <2>4, LenProperties
  <2> HIDE DEF r
  <2>6. SinRepetir(r) /\ ToSet(r) = ToSet(s) \ {p}
    <3>1. ASSUME NEW k \in DOMAIN r
          PROVE  /\ k \in Int
                 /\ k < i => k \in DOMAIN s /\ k # i /\ r[k] = s[k]
                 /\ k >= i => k + 1 \in DOMAIN s /\ k + 1 # i /\ r[k] = s[k + 1]
      BY <1>0, <2>2, <2>4, <2>5
    <3>2. SinRepetir(r)
      <4> SUFFICES ASSUME NEW k \in DOMAIN r, NEW m \in DOMAIN r, r[k] = r[m] PROVE k = m
        BY DEF SinRepetir
      <4>0. i \in Int
        BY <2>2
      <4>1. CASE k < i /\ m < i
        BY <3>1, <4>1 DEF SinRepetir
      <4>2. CASE k >= i /\ m >= i
        <5>1. k + 1 = m + 1
          BY <3>1, <4>2 DEF SinRepetir
        <5> QED
          BY <3>1, <5>1
      <4>3. CASE k < i /\ m >= i
        <5>1. k = m + 1
          BY <3>1, <4>3 DEF SinRepetir
        <5> QED
          BY <3>1, <4>0, <4>3, <5>1
      <4>4. CASE k >= i /\ m < i
        <5>1. k + 1 = m
          BY <3>1, <4>4 DEF SinRepetir
        <5> QED
          BY <3>1, <4>0, <4>4, <5>1
      <4> QED
        BY <3>1, <4>0, <4>1, <4>2, <4>3, <4>4
    <3>3. ASSUME NEW k \in DOMAIN r PROVE r[k] \in ToSet(s) \ {p}
      <4>0. i \in DOMAIN s /\ i \in Int
        BY <1>0, <2>2
      <4>1. CASE k < i
        BY <2>2, <3>1, <4>0, <4>1 DEF ToSet, SinRepetir
      <4>2. CASE k >= i
        BY <2>2, <3>1, <4>0, <4>2 DEF ToSet, SinRepetir
      <4> QED
        BY <3>1, <4>0, <4>1, <4>2
    <3>4. ASSUME NEW k \in DOMAIN s, s[k] # p PROVE s[k] \in ToSet(r)
      <4>0. k \in Int /\ i \in Int /\ k # i
        BY <1>0, <2>2, <3>4
      <4>1. CASE k < i
        <5>1. k \in DOMAIN r /\ r[k] = s[k]
          BY <1>0, <2>2, <2>4, <2>5, <4>1
        <5> QED
          BY <5>1 DEF ToSet
      <4>2. CASE k > i
        <5>1. k - 1 \in i .. Len(s) - 1 /\ (k - 1) + 1 = k
          BY <1>0, <2>2, <4>2
        <5>2. k - 1 \in DOMAIN r /\ r[k - 1] = s[k]
          BY <1>0, <2>2, <2>4, <2>5, <5>1
        <5> QED
          BY <5>2 DEF ToSet
      <4> QED
        BY <4>0, <4>1, <4>2
    <3> QED
      BY <3>2, <3>3, <3>4 DEF ToSet
  <2> QED
    BY <2>3, <2>4, <2>6
<1> QED
  BY <1>1, <1>2

\* The least of some naturals.
Menor == {par \in Nat \X Nat : par[1] < par[2]}

LEMMA MinimoExiste ==
    ASSUME NEW S \in SUBSET Nat, S # {}
    PROVE  Min(S) \in S /\ \A x \in S : Min(S) <= x
<1>1. IsWellFoundedOn(Menor, Nat)
  <2>1. OpToRel(<, Nat) = Menor
    BY DEF OpToRel, Menor
  <2> QED
    BY <2>1, NatLessThanWellFounded
<1>2. PICK x \in S : \A y \in S : ~(<<y, x>> \in Menor)
  BY <1>1, WFMin
<1>3. ASSUME NEW y \in S PROVE x <= y
  <2>1. x \in Nat /\ y \in Nat
    OBVIOUS
  <2>2. ~(y < x)
    BY <1>2, <2>1 DEF Menor
  <2> QED
    BY <2>1, <2>2
<1> QED
  BY <1>3 DEF Min

-----------------------------------------------------------------------------
(* What the types say *)

LEMMA InstruccionBien ==
    ASSUME TypeOK, NEW p \in Pids
    PROVE  /\ programa[p] \in Seq(Instruccion) /\ pc[p] \in Nat
           /\ Actual(p).op \in {"MUTEX_CREATE", "MUTEX_LOCK", "MUTEX_UNLOCK"} =>
                  Actual(p).mutex \in Mutexes
           /\ Actual(p).op = "INIT_PROC" =>
                  /\ pc[p] + 1 \in DOMAIN programa[p]
                  /\ Actual(p) = programa[p][pc[p] + 1]
                  /\ Actual(p).hijo \in Pids \ {Primero}
<1>1. programa[p] \in Seq(Instruccion) /\ pc[p] \in Nat
  BY MutexAssumption DEF TypeOK
<1>2. CASE pc[p] < Len(programa[p])
  <2>1. pc[p] + 1 \in DOMAIN programa[p] /\ programa[p][pc[p] + 1] \in Instruccion
    BY <1>1, <1>2
  <2>2. Actual(p) = programa[p][pc[p] + 1]
    BY <1>2 DEF Actual
  <2> QED
    BY <1>1, <2>1, <2>2 DEF Instruccion
<1>3. CASE ~(pc[p] < Len(programa[p]))
  BY <1>1, <1>3 DEF Actual
<1> QED
  BY <1>2, <1>3

LEMMA VictimaBien ==
    ASSUME rnn \in Seq(Pids), NEW r, NEW p
    PROVE  Victima(r, p) \subseteq Pids
<1> DEFINE peores == {i \in DOMAIN rnn : rnn[i] # p /\ r[p].prioridad < r[rnn[i]].prioridad}
<1>1. CASE peores = {}
  BY <1>1 DEF Victima
<1>2. CASE peores # {}
  <2>1. peores \in SUBSET Nat /\ DOMAIN rnn = 1 .. Len(rnn)
    OBVIOUS
  <2>2. Min(peores) \in peores
    BY <1>2, <2>1, MinimoExiste
  <2>3. Min(peores) \in DOMAIN rnn
    BY <2>2
  <2>4. rnn[Min(peores)] \in Pids
    BY <2>1, <2>3
  <2>5. Victima(r, p) = {rnn[Min(peores)]}
    BY <1>2 DEF Victima
  <2> QED
    BY <2>4, <2>5
<1> QED
  BY <1>1, <1>2

LEMMA MejorBien ==
    ASSUME TypeOK, NEW p \in Pids, NEW C \in SUBSET Seq(Pids)
    PROVE  Mejor(p, C) \in 0 .. Niveles - 1
<1> DEFINE S == {PrioridadDe[p]} \cup {pcb[q].prioridad : q \in UNION {ToSet(c) : c \in C}}
<1>1. PrioridadDe[p] \in 0 .. Niveles - 1 /\ Niveles \in Nat
  BY MedianoPlazoAssumption
<1>2. ASSUME NEW c \in C, NEW q \in ToSet(c) PROVE pcb[q].prioridad \in 0 .. Niveles - 1
  <2>1. q \in Pids
    BY <1>2 DEF ToSet
  <2> QED
    BY <2>1 DEF TypeOK, PlanTypeOK
<1>3. S \subseteq 0 .. Niveles - 1
  BY <1>1, <1>2
<1>4. S # {} /\ S \in SUBSET Nat
  BY <1>1, <1>3
<1>5. Min(S) \in S
  <2> HIDE DEF S
  <2> QED
    BY <1>4, MinimoExiste
<1> QED
  BY <1>3, <1>5 DEF Mejor

-----------------------------------------------------------------------------
(* What a step leaves of each part of the invariant, from what it changes *)

LEMMA NacenSigue ==
    ASSUME TypeOK, Nacen, UNCHANGED programa, pc' \in [Pids -> Nat],
           \A q \in Pids : pc[q] <= pc'[q],
           \A q \in Pids : Estado(q) = "NEW" => Estado(q)' = "NEW"
    PROVE  Nacen'
<1> SUFFICES ASSUME NEW p \in Pids, NEW k \in DOMAIN programa[p], k > pc'[p],
                    programa[p][k].op = "INIT_PROC"
             PROVE  Estado(programa[p][k].hijo)' = "NEW"
  BY DEF Nacen
<1>1. programa[p] \in Seq(Instruccion) /\ pc[p] \in Nat /\ pc'[p] \in Nat
  BY MutexAssumption DEF TypeOK
<1>2. programa[p][k] \in Instruccion /\ k \in Nat
  BY <1>1
<1>3. k > pc[p]
  BY <1>1, <1>2
<1>4. programa[p][k].hijo \in Pids
  BY <1>2 DEF Instruccion
<1> QED
  BY <1>3, <1>4 DEF Nacen

\* A process that a step does not touch is where it was.
Queda(p) ==
    /\ hilo'[p] = hilo[p]
    /\ pcb'[p].estado = pcb[p].estado /\ pcb'[p].anterior = pcb[p].anterior

LEMMA QuedaEnListas ==
    ASSUME NEW p \in Pids, Queda(p)
    PROVE  (EnReady(p)' <=> EnReady(p)) /\ (EnRunning(p)' <=> EnRunning(p))
BY DEF Queda, EnReady, EnRunning, Estado

LEMMA EnSuCpuSigue ==
    ASSUME NEW p \in Pids, EnSuCpu(p), Queda(p),
           pcb'[p].esperando_io => pcb[p].esperando_io,
           p \in desalojo => p \in desalojo'
    PROVE  EnSuCpu(p)'
BY DEF EnSuCpu, EnCpu, Estado, Queda

LEMMA EsperaSigue ==
    ASSUME NEW p \in Pids, EsperaBien(p), hilo'[p] = hilo[p],
           pcb'[p].estado = pcb[p].estado, pcb'[p].esperando_io = pcb[p].esperando_io,
           p \in en_io' <=> p \in en_io,
           \A m \in Mutexes : EnCola(p, m)' <=> EnCola(p, m),
           PorDespertar(p)' <=> PorDespertar(p)
    PROVE  EsperaBien(p)'
BY DEF EsperaBien, EnCpu, Estado

\* No wake-up begins or ends.
LEMMA PorDespertarDeHilos ==
    ASSUME NEW p \in Pids,
           \A q \in Pids : \/ hilo'[q] = hilo[q]
                           \/ hilo[q].paso # "despierta" /\ hilo'[q].paso # "despierta",
           \A h \in hilos : h.fase = "despierta" => h \in hilos',
           \A h \in hilos' : h.fase = "despierta" => h \in hilos
    PROVE  PorDespertar(p)' <=> PorDespertar(p)
<1>1. (\E q \in Pids : hilo'[q] = [paso |-> "despierta", otro |-> p])
      <=> (\E q \in Pids : hilo[q] = [paso |-> "despierta", otro |-> p])
  OBVIOUS
<1>2. (\E h \in hilos' : h.pid = p /\ h.fase = "despierta")
      <=> (\E h \in hilos : h.pid = p /\ h.fase = "despierta")
  OBVIOUS
<1> QED
  BY <1>1, <1>2 DEF PorDespertar

LEMMA PorDespertarIgual ==
    ASSUME NEW p \in Pids,
           \A q \in Pids : \/ hilo'[q] = hilo[q]
                           \/ hilo[q].paso # "despierta" /\ hilo'[q].paso # "despierta",
           hilos' = hilos
    PROVE  PorDespertar(p)' <=> PorDespertar(p)
<1>1. /\ \A h \in hilos : h.fase = "despierta" => h \in hilos'
      /\ \A h \in hilos' : h.fase = "despierta" => h \in hilos
  OBVIOUS
<1> QED
  BY <1>1, PorDespertarDeHilos

LEMMA ColasSiguen ==
    ASSUME Colas, \A m \in Mutexes : /\ mutex'[m].valor = mutex[m].valor
                                     /\ mutex'[m].duenio = mutex[m].duenio
                                     /\ mutex'[m].cola = mutex[m].cola
    PROVE  /\ Colas'
           /\ \A p \in Pids : \A m \in Mutexes : EnCola(p, m)' <=> EnCola(p, m)
<1>1. \A p \in Pids : \A m \in Mutexes : EnCola(p, m)' <=> EnCola(p, m)
  BY DEF EnCola
<1> QED
  BY <1>1 DEF Colas

LEMMA HerenciaSigue ==
    ASSUME HerenciaJusta,
           \A m \in Mutexes : mutex'[m].duenio = mutex[m].duenio /\ mutex'[m].cola = mutex[m].cola,
           \A q \in Pids : pcb'[q].prioridad = pcb[q].prioridad
    PROVE  HerenciaJusta'
<1>1. \A q : Tomados(q)' = Tomados(q)
  BY DEF Tomados
<1>2. ASSUME NEW p PROVE UNION {ToSet(mutex[m].cola) : m \in Tomados(p)}'
                          = UNION {ToSet(mutex[m].cola) : m \in Tomados(p)}
  BY <1>1 DEF Tomados
<1> QED
  BY <1>1, <1>2 DEF HerenciaJusta

-----------------------------------------------------------------------------
(* What a step leaves of the lists *)

LEMMA NivelesIguales ==
    ASSUME ListaNiveles, UNCHANGED niveles,
           \A q \in Pids : /\ EnReady(q)' <=> EnReady(q)
                           /\ EnReady(q) => pcb'[q].prioridad = pcb[q].prioridad
    PROVE  ListaNiveles'
BY DEF ListaNiveles

\* A process enters READY, at the end of the queue of its priority.
LEMMA NivelesEntra ==
    ASSUME TypeOK, ListaNiveles, NEW p \in Pids, ~EnReady(p), EnReady(p)',
           niveles' = [niveles EXCEPT ![pcb[p].prioridad] = Append(@, p)],
           pcb'[p].prioridad = pcb[p].prioridad,
           \A q \in Pids \ {p} :
               (EnReady(q)' <=> EnReady(q)) /\ pcb'[q].prioridad = pcb[q].prioridad
    PROVE  ListaNiveles' /\ niveles' \in [0 .. Niveles - 1 -> Seq(Pids)]
<1>1. /\ niveles \in [0 .. Niveles - 1 -> Seq(Pids)]
      /\ pcb[p].prioridad \in 0 .. Niveles - 1
  BY DEF TypeOK, PlanTypeOK
<1> DEFINE v == pcb[p].prioridad
<1>2. /\ p \notin ToSet(niveles[v]) /\ SinRepetir(niveles[v])
  BY <1>1 DEF ListaNiveles
<1>3. /\ Append(niveles[v], p) \in Seq(Pids)
      /\ ToSet(Append(niveles[v], p)) = ToSet(niveles[v]) \cup {p}
      /\ SinRepetir(Append(niveles[v], p))
  BY <1>1, <1>2, AgregarAlFinal
<1>4. ASSUME NEW n \in 0 .. Niveles - 1
      PROVE  niveles'[n] = IF n = v THEN Append(niveles[v], p) ELSE niveles[n]
  BY <1>1
<1>5. \A n \in 0 .. Niveles - 1 : SinRepetir(niveles'[n])
  BY <1>3, <1>4 DEF ListaNiveles
<1>6. ASSUME NEW q \in Pids, NEW n \in 0 .. Niveles - 1
      PROVE  q \in ToSet(niveles'[n]) <=> EnReady(q)' /\ pcb'[q].prioridad = n
  <2>1. q \in ToSet(niveles[n]) <=> EnReady(q) /\ pcb[q].prioridad = n
    BY DEF ListaNiveles
  <2>2. CASE n = v
    BY <1>3, <1>4, <2>1, <2>2
  <2>3. CASE n # v
    BY <1>3, <1>4, <2>1, <2>3
  <2> QED
    BY <2>2, <2>3
<1>7. niveles' \in [0 .. Niveles - 1 -> Seq(Pids)]
  BY <1>1, <1>3
<1> QED
  BY <1>5, <1>6, <1>7 DEF ListaNiveles

\* The head of a queue leaves READY.
LEMMA NivelesSale ==
    ASSUME TypeOK, ListaNiveles, NEW p \in Pids, NEW v \in DOMAIN niveles, niveles[v] # <<>>,
           Head(niveles[v]) = p, ~EnReady(p)',
           niveles' = [niveles EXCEPT ![v] = Tail(@)],
           \A q \in Pids \ {p} :
               (EnReady(q)' <=> EnReady(q)) /\ pcb'[q].prioridad = pcb[q].prioridad
    PROVE  ListaNiveles' /\ niveles' \in [0 .. Niveles - 1 -> Seq(Pids)] /\ EnReady(p)
<1>1. /\ niveles \in [0 .. Niveles - 1 -> Seq(Pids)] /\ v \in 0 .. Niveles - 1
  BY DEF TypeOK, PlanTypeOK
<1>2. /\ p \in ToSet(niveles[v])
      /\ Tail(niveles[v]) \in Seq(Pids)
      /\ SinRepetir(Tail(niveles[v])) /\ ToSet(Tail(niveles[v])) = ToSet(niveles[v]) \ {p}
  BY <1>1, SacarPrimero DEF ListaNiveles
<1>3. EnReady(p) /\ pcb[p].prioridad = v
  BY <1>1, <1>2 DEF ListaNiveles
<1>4. ASSUME NEW n \in 0 .. Niveles - 1
      PROVE  niveles'[n] = IF n = v THEN Tail(niveles[v]) ELSE niveles[n]
  BY <1>1
<1>5. \A n \in 0 .. Niveles - 1 : SinRepetir(niveles'[n])
  BY <1>2, <1>4 DEF ListaNiveles
<1>6. ASSUME NEW q \in Pids, NEW n \in 0 .. Niveles - 1
      PROVE  q \in ToSet(niveles'[n]) <=> EnReady(q)' /\ pcb'[q].prioridad = n
  <2>1. q \in ToSet(niveles[n]) <=> EnReady(q) /\ pcb[q].prioridad = n
    BY DEF ListaNiveles
  <2>2. CASE n = v
    BY <1>2, <1>4, <2>1, <2>2
  <2>3. CASE n # v
    BY <1>2, <1>3, <1>4, <2>1, <2>3
  <2> QED
    BY <2>2, <2>3
<1>7. niveles' \in [0 .. Niveles - 1 -> Seq(Pids)]
  BY <1>1, <1>2
<1> QED
  BY <1>3, <1>5, <1>6, <1>7 DEF ListaNiveles

\* A process whose priority changes moves to its new queue if it is in READY.
LEMMA NivelesReencola ==
    ASSUME TypeOK, ListaNiveles, NEW d \in Pids, NEW w \in 0 .. Niveles - 1,
           niveles' = Reencolado(d, w), pcb'[d].prioridad = w,
           \A q \in Pids : EnReady(q)' <=> EnReady(q),
           \A q \in Pids \ {d} : EnReady(q) => pcb'[q].prioridad = pcb[q].prioridad
    PROVE  ListaNiveles' /\ niveles' \in [0 .. Niveles - 1 -> Seq(Pids)]
<1> DEFINE v == pcb[d].prioridad
<1>1. /\ niveles \in [0 .. Niveles - 1 -> Seq(Pids)] /\ v \in 0 .. Niveles - 1
  BY DEF TypeOK, PlanTypeOK
<1>2. d \in ToSet(niveles[v]) <=> EnReady(d)
  BY <1>1 DEF ListaNiveles
<1>3. CASE EnReady(d) /\ w # v
  <2>1. niveles' = [niveles EXCEPT ![v] = Sin(@, d), ![w] = Append(@, d)]
    BY <1>2, <1>3 DEF Reencolado, EnReady
  <2>2. /\ SinRepetir(niveles[v]) /\ SinRepetir(niveles[w]) /\ d \notin ToSet(niveles[w])
        /\ niveles[v] \in Seq(Pids) /\ niveles[w] \in Seq(Pids)
    BY <1>1, <1>3 DEF ListaNiveles
  <2>3. /\ Sin(niveles[v], d) \in Seq(Pids) /\ SinRepetir(Sin(niveles[v], d))
        /\ ToSet(Sin(niveles[v], d)) = ToSet(niveles[v]) \ {d}
    BY <2>2, SinSaca
  <2>4. /\ Append(niveles[w], d) \in Seq(Pids) /\ SinRepetir(Append(niveles[w], d))
        /\ ToSet(Append(niveles[w], d)) = ToSet(niveles[w]) \cup {d}
    BY <2>2, AgregarAlFinal
  <2>5. ASSUME NEW n \in 0 .. Niveles - 1
        PROVE  niveles'[n] = IF n = w THEN Append(niveles[w], d)
                             ELSE IF n = v THEN Sin(niveles[v], d) ELSE niveles[n]
    BY <1>1, <1>3, <2>1
  <2>6. \A n \in 0 .. Niveles - 1 : SinRepetir(niveles'[n])
    BY <2>3, <2>4, <2>5 DEF ListaNiveles
  <2>7. ASSUME NEW q \in Pids, NEW n \in 0 .. Niveles - 1
        PROVE  q \in ToSet(niveles'[n]) <=> EnReady(q)' /\ pcb'[q].prioridad = n
    <3>1. q \in ToSet(niveles[n]) <=> EnReady(q) /\ pcb[q].prioridad = n
      BY DEF ListaNiveles
    <3>2. CASE n = w
      BY <1>3, <2>4, <2>5, <3>1, <3>2
    <3>3. CASE n = v
      BY <1>3, <2>3, <2>5, <3>1, <3>3
    <3>4. CASE n # w /\ n # v
      BY <1>3, <2>5, <3>1, <3>4
    <3> QED
      BY <3>2, <3>3, <3>4
  <2>8. niveles' \in [0 .. Niveles - 1 -> Seq(Pids)]
    BY <1>1, <2>1, <2>3, <2>4
  <2> QED
    BY <2>6, <2>7, <2>8 DEF ListaNiveles
<1>4. CASE ~(EnReady(d) /\ w # v)
  <2>1. UNCHANGED niveles
    BY <1>2, <1>4 DEF Reencolado
  <2>2. ASSUME NEW q \in Pids
        PROVE  /\ EnReady(q)' <=> EnReady(q)
               /\ EnReady(q) => pcb'[q].prioridad = pcb[q].prioridad
    BY <1>4
  <2> QED
    BY <1>1, <2>1, <2>2, NivelesIguales
<1> QED
  BY <1>3, <1>4

LEMMA RnnIgual ==
    ASSUME ListaRnn, UNCHANGED rnn, \A q \in Pids : EnRunning(q)' <=> EnRunning(q)
    PROVE  ListaRnn'
BY DEF ListaRnn

LEMMA RnnSale ==
    ASSUME TypeOK, ListaRnn, NEW p \in Pids, rnn' = Sin(rnn, p), ~EnRunning(p)',
           \A q \in Pids \ {p} : EnRunning(q)' <=> EnRunning(q)
    PROVE  ListaRnn' /\ rnn' \in Seq(Pids)
<1>1. rnn \in Seq(Pids) /\ SinRepetir(rnn)
  BY DEF TypeOK, PlanTypeOK, ListaRnn
<1>2. rnn' \in Seq(Pids) /\ SinRepetir(rnn') /\ ToSet(rnn') = ToSet(rnn) \ {p}
  BY <1>1, SinSaca
<1> QED
  BY <1>2 DEF ListaRnn

LEMMA RnnEntra ==
    ASSUME TypeOK, ListaRnn, NEW p \in Pids, rnn' = Append(rnn, p), ~EnRunning(p),
           EnRunning(p)', \A q \in Pids \ {p} : EnRunning(q)' <=> EnRunning(q)
    PROVE  ListaRnn' /\ rnn' \in Seq(Pids)
<1>1. rnn \in Seq(Pids) /\ SinRepetir(rnn) /\ p \notin ToSet(rnn)
  BY DEF TypeOK, PlanTypeOK, ListaRnn
<1>2. rnn' \in Seq(Pids) /\ SinRepetir(rnn') /\ ToSet(rnn') = ToSet(rnn) \cup {p}
  BY <1>1, AgregarAlFinal
<1> QED
  BY <1>2 DEF ListaRnn

LEMMA SRdyIgual ==
    ASSUME ListaSRdy, UNCHANGED s_rdy,
           \A q \in Pids : Estado(q)' = "S_RDY" <=> Estado(q) = "S_RDY",
           \A r \in Rondas : \A q \in Pids : Quitado(r, q)' <=> Quitado(r, q)
    PROVE  ListaSRdy'
BY DEF ListaSRdy

LEMMA SRdyEntra ==
    ASSUME TypeOK, ListaSRdy, NEW p \in Pids, s_rdy' = Append(s_rdy, p), Estado(p) # "S_RDY",
           Estado(p)' = "S_RDY", UNCHANGED rondas,
           \A q \in Pids \ {p} : Estado(q)' = "S_RDY" <=> Estado(q) = "S_RDY"
    PROVE  ListaSRdy' /\ s_rdy' \in Seq(Pids)
<1>1. s_rdy \in Seq(Pids) /\ SinRepetir(s_rdy) /\ p \notin ToSet(s_rdy)
  BY DEF TypeOK, PlanTypeOK, ListaSRdy
<1>2. s_rdy' \in Seq(Pids) /\ SinRepetir(s_rdy') /\ ToSet(s_rdy') = ToSet(s_rdy) \cup {p}
  BY <1>1, AgregarAlFinal
<1>3. \A r \in Rondas : \A q \in Pids : Quitado(r, q)' <=> Quitado(r, q)
  BY DEF Quitado
<1>4. \A r \in Rondas : ~Quitado(r, p)
  BY DEF ListaSRdy
<1> QED
  BY <1>2, <1>3, <1>4 DEF ListaSRdy

LEMMA SRdySale ==
    ASSUME TypeOK, ListaSRdy, NEW p \in Pids, s_rdy' = Sin(s_rdy, p),
           Estado(p)' # "S_RDY", UNCHANGED rondas, \A r \in Rondas : ~Quitado(r, p),
           \A q \in Pids \ {p} : Estado(q)' = "S_RDY" <=> Estado(q) = "S_RDY"
    PROVE  ListaSRdy' /\ s_rdy' \in Seq(Pids)
<1>1. s_rdy \in Seq(Pids) /\ SinRepetir(s_rdy)
  BY DEF TypeOK, PlanTypeOK, ListaSRdy
<1>2. s_rdy' \in Seq(Pids) /\ SinRepetir(s_rdy') /\ ToSet(s_rdy') = ToSet(s_rdy) \ {p}
  BY <1>1, SinSaca
<1>3. \A r \in Rondas : \A q \in Pids : Quitado(r, q)' <=> Quitado(r, q)
  BY DEF Quitado
<1> QED
  BY <1>2, <1>3 DEF ListaSRdy

-----------------------------------------------------------------------------
(* What a step leaves of the medium term *)

EnRamEstados == {"NEW", "RDY", "RNN", "BCK"}

\* A step that suspends nobody: a process goes on in RAM, ends, or is woken while it is
\* suspended.
LEMMA PlazosSiguen ==
    ASSUME TypeOK, Plazos, UNCHANGED rondas,
           \A h \in hilos' : Suspension(h) => h \in hilos,
           \A q \in Pids :
             \/ Estado(q)' = Estado(q) /\ residente'[q] = residente[q]
             \/ /\ Estado(q) \in EnRamEstados /\ Estado(q)' \in EnRamEstados
                /\ residente'[q] = residente[q]
             \/ Estado(q) \in EnRamEstados /\ Estado(q)' = "EXT"
             \/ Estado(q) = "S_BCK" /\ Estado(q)' = "S_RDY" /\ residente'[q] = residente[q]
    PROVE  Plazos'
<1>1. HilosBien'
  <2>1. ASSUME NEW h \in hilos', Suspension(h)
        PROVE  pcb'[h.pid].estado \in {"S_BCK", "S_RDY"} /\ residente'[h.pid]
    <3>1. h \in hilos
      BY <2>1
    <3>2. h.pid \in Pids
      BY <3>1 DEF TypeOK, PlanTypeOK, Hilo
    <3>3. pcb[h.pid].estado \in {"S_BCK", "S_RDY"} /\ residente[h.pid]
      BY <2>1, <3>1 DEF Plazos, HilosBien, Estado
    <3> QED
      BY <3>2, <3>3 DEF Estado, EnRamEstados
  <2>2. ASSUME NEW h \in hilos', NEW g \in hilos', Suspension(h), Suspension(g), h.pid = g.pid
        PROVE  h = g
    BY <2>2 DEF Plazos, HilosBien
  <2> QED
    BY <2>1, <2>2 DEF HilosBien, Estado, Suspension
<1>2. ASSUME NEW r \in Rondas PROVE RondaBien(r)'
  <2> DEFINE p == rondas[r].pid
  <2>1. RondaBien(r) /\ p \in Pids \cup {Nadie}
    BY DEF Plazos, TypeOK, PlanTypeOK, Ronda
  <2>2. (\E h \in hilos' : h.pid = p /\ h.fase \in {"avisa", "deshace"}) => SuspensionEnCurso(p)
    BY DEF SuspensionEnCurso, Suspension
  <2>3. ASSUME p # Nadie
        PROVE  /\ pcb'[p].estado # "S_BCK"
               /\ rondas[r].fase \in {"respondido", "quitado"} /\ pcb'[p].estado = "S_RDY" => residente'[p]
    <3>1. p \in Pids /\ pcb[p].estado # "S_BCK"
      BY <2>1, <2>3 DEF RondaBien, Estado
    <3>2. rondas[r].fase \in {"respondido", "quitado"} /\ pcb[p].estado = "S_RDY" => residente[p]
      BY <2>1, <2>3 DEF RondaBien, Estado
    <3> QED
      BY <3>1, <3>2 DEF Estado, EnRamEstados
  <2> QED
    BY <2>1, <2>2, <2>3 DEF RondaBien, Estado, SuspensionEnCurso
<1>3. EnRam'
  BY DEF Plazos, EnRam, EnRamEstados
<1> QED
  BY <1>1, <1>2, <1>3 DEF Plazos

-----------------------------------------------------------------------------
(* The threads of the CPUs *)

TipoHilo == [paso : Pasos, otro : Pids \cup {Nadie}]
TipoMutex == [creado : BOOLEAN, valor : {0, 1}, duenio : Pids \cup {Nadie}, cola : Seq(Pids)]
TipoPcb == [estado : Estados, anterior : Estados, prioridad : 0 .. Niveles - 1,
            version : Nat, esperando_io : BOOLEAN]

LEMMA Tipos ==
    ASSUME TypeOK
    PROVE  /\ pcb \in [Pids -> TipoPcb] /\ hilo \in [Pids -> TipoHilo]
           /\ mutex \in [Mutexes -> TipoMutex] /\ pc \in [Pids -> Nat]
           /\ niveles \in [0 .. Niveles - 1 -> Seq(Pids)]
           /\ rnn \in Seq(Pids) /\ s_rdy \in Seq(Pids)
           /\ desalojo \subseteq Pids /\ en_io \subseteq Pids /\ hilos \subseteq Hilo
           /\ rondas \in [Rondas -> Ronda] /\ residente \in [Pids -> BOOLEAN]
BY DEF TypeOK, PlanTypeOK, TipoHilo, Pasos, TipoMutex, TipoPcb, Estados

LEMMA HiloPasa ==
    ASSUME TypeOK, NEW p \in Pids, NEW v \in TipoHilo, hilo' = [hilo EXCEPT ![p] = v]
    PROVE  /\ hilo' \in [Pids -> TipoHilo]
           /\ hilo'[p] = v
           /\ \A q \in Pids \ {p} : hilo'[q] = hilo[q]
<1>1. hilo \in [Pids -> TipoHilo]
  BY Tipos
<1> QED
  BY <1>1

LEMMA HiloEnPaso ==
    ASSUME TypeOK, NEW p \in Pids, NEW x \in Pasos, hilo' = [hilo EXCEPT ![p].paso = x]
    PROVE  /\ hilo' \in [Pids -> TipoHilo]
           /\ hilo'[p].paso = x /\ hilo'[p].otro = hilo[p].otro
           /\ \A q \in Pids \ {p} : hilo'[q] = hilo[q]
<1> DEFINE v == [hilo[p] EXCEPT !.paso = x]
<1>1. hilo[p] \in TipoHilo
  BY Tipos
<1>2. v \in TipoHilo /\ v.paso = x /\ v.otro = hilo[p].otro
  BY <1>1 DEF TipoHilo
<1>3. hilo' = [hilo EXCEPT ![p] = v]
  OBVIOUS
<1> HIDE DEF v
<1> QED
  BY <1>2, <1>3, HiloPasa

-----------------------------------------------------------------------------
(* The steps of a CPU that change no state of a process *)

\* Where its thread goes without a change of state or of lists.
Quietos == {"fetch", "interrupt", "guarda", "vuelve", "fuera"}

LEMMA PasoDeCpu ==
    ASSUME IInv, NEW p \in Pids, NEW x \in Quietos,
           UNCHANGED <<niveles, rnn, s_rdy, en_io, hilos, rondas, residente, programa>>,
           pcb' \in [Pids -> TipoPcb],
           \A q \in Pids : /\ pcb'[q].estado = pcb[q].estado
                           /\ pcb'[q].anterior = pcb[q].anterior
                           /\ pcb'[q].esperando_io = pcb[q].esperando_io
                           /\ Estado(q) = "RDY" => pcb'[q].prioridad = pcb[q].prioridad,
           pc' \in [Pids -> Nat], \A q \in Pids : pc[q] <= pc'[q],
           mutex' \in [Mutexes -> TipoMutex],
           \A m \in Mutexes : mutex'[m].cola = mutex[m].cola,
           desalojo \ {p} \subseteq desalojo', desalojo' \subseteq Pids,
           hilo' = [hilo EXCEPT ![p].paso = x],
           hilo[p].paso \in {"fetch", "marca", "interrupt", "guarda"},
           Estado(p) # "RNN" => /\ x # "fetch"
                                /\ x = "interrupt" => p \in desalojo',
           x = "vuelve" => Estado(p) = "RNN" \/ (Estado(p) = "BCK" /\ ~pcb[p].esperando_io),
           x = "fuera" => /\ Estado(p) # "RNN"
                          /\ ~(Estado(p) = "BCK" /\ ~pcb[p].esperando_io)
    PROVE  TypeOK' /\ Nacen' /\ Cpus' /\ Esperas' /\ Listas' /\ Plazos'
<1>0. TypeOK /\ Nacen /\ Cpus /\ Esperas /\ Listas /\ Plazos
  BY DEF IInv
<1>1. /\ \A q \in Pids \ {p} : hilo'[q] = hilo[q]
      /\ hilo'[p].paso = x /\ hilo'[p].otro = hilo[p].otro
      /\ hilo' \in [Pids -> TipoHilo]
  BY <1>0, HiloEnPaso DEF Pasos, Quietos
<1>2. \A q \in Pids : Estado(q)' = Estado(q)
  BY DEF Estado
<1>3. TypeOK'
  BY <1>0, <1>1 DEF TypeOK, PlanTypeOK, TipoHilo, TipoMutex, TipoPcb
<1>4. Nacen'
  BY <1>0, <1>2, NacenSigue
<1>q. \A q \in Pids \ {p} : Queda(q)
  BY <1>1 DEF Queda
<1>5. Cpus'
  <2>1. ASSUME NEW q \in Pids \ {p} PROVE EnSuCpu(q)'
    BY <1>0, <1>q, EnSuCpuSigue DEF Cpus
  <2>2. EnSuCpu(p)'
    <3>1. EnSuCpu(p)
      BY <1>0 DEF Cpus
    <3>2. EnCpu(p) /\ Estado(p) \in {"RNN", "BCK", "RDY"}
      BY <3>1 DEF EnSuCpu, EnCpu
    <3>3. EnCpu(p)' <=> x # "fuera"
      BY <1>1 DEF EnCpu
    <3> QED
      BY <1>1, <1>2, <3>2, <3>3 DEF EnSuCpu, Quietos
  <2> QED
    BY <2>1, <2>2 DEF Cpus
<1>6. Esperas'
  <2>1. \A q \in Pids : \A m \in Mutexes : EnCola(q, m)' <=> EnCola(q, m)
    BY DEF EnCola
  <2>2. ASSUME NEW q \in Pids PROVE PorDespertar(q)' <=> PorDespertar(q)
    <3>1. ASSUME NEW t \in Pids
          PROVE  \/ hilo'[t] = hilo[t]
                 \/ hilo[t].paso # "despierta" /\ hilo'[t].paso # "despierta"
      BY <1>1 DEF Quietos
    <3>2. hilos' = hilos
      OBVIOUS
    <3> QED
      BY <3>1, <3>2, PorDespertarIgual
  <2>3. ASSUME NEW q \in Pids \ {p} PROVE EsperaBien(q)'
    BY <1>0, <1>1, <2>1, <2>2, EsperaSigue DEF Esperas
  <2>4. EsperaBien(p)'
    <3>1. EsperaBien(p) /\ hilo[p].paso # "encolado"
      BY <1>0 DEF Esperas
    <3>2. ~EnCpu(p)' => /\ Estado(p) # "RNN"
                        /\ ~(Estado(p) = "BCK" /\ ~pcb[p].esperando_io)
      BY <1>1 DEF EnCpu
    <3>3. Estado(p) # "S_BCK"
      BY <1>0 DEF Cpus, EnSuCpu, EnCpu
    <3> QED
      BY <1>1, <1>2, <2>1, <2>2, <3>1, <3>2, <3>3 DEF EsperaBien, Quietos
  <2> QED
    BY <2>3, <2>4 DEF Esperas
<1>7. Listas'
  <2>0. ASSUME NEW q \in Pids
        PROVE  (EnReady(q)' <=> EnReady(q)) /\ (EnRunning(q)' <=> EnRunning(q))
    <3>1. CASE q # p
      BY <1>q, <3>1, QuedaEnListas
    <3>2. CASE q = p
      BY <1>1, <1>2, <3>2 DEF EnReady, EnRunning, Quietos
    <3> QED
      BY <3>1, <3>2
  <2>1. ListaNiveles'
    <3>1. \A q \in Pids : EnReady(q) => pcb'[q].prioridad = pcb[q].prioridad
      BY DEF EnReady
    <3> QED
      BY <1>0, <2>0, <3>1, NivelesIguales DEF Listas
  <2>2. ListaRnn'
    BY <1>0, <2>0, RnnIgual DEF Listas
  <2>3. \A r \in Rondas : \A q \in Pids : Quitado(r, q)' <=> Quitado(r, q)
    BY DEF Quitado
  <2>4. ListaSRdy'
    BY <1>0, <1>2, <2>3, SRdyIgual DEF Listas
  <2> QED
    BY <2>1, <2>2, <2>4 DEF Listas
<1>8. Plazos'
  BY <1>0, <1>2, PlazosSiguen
<1> QED
  BY <1>3, <1>4, <1>5, <1>6, <1>7, <1>8

LEMMA CumplidaBien ==
    ASSUME TypeOK, NEW p \in Pids, pc' = [pc EXCEPT ![p] = @ + 1]
    PROVE  pc' \in [Pids -> Nat] /\ \A q \in Pids : pc[q] <= pc'[q]
<1>1. pc \in [Pids -> Nat]
  BY DEF TypeOK
<1>2. ASSUME NEW q \in Pids PROVE pc[q] <= pc'[q]
  BY <1>1
<1> QED
  BY <1>1, <1>2

\* The steps of a CPU that give and take nothing.
LEMMA PasosSinCambio ==
    ASSUME IInv, NEW p \in Pids,
           \/ Noop(p) \/ LockInexistente(p) \/ UnlockInexistente(p) \/ UnlockAjeno(p)
           \/ MutexCreate(p) \/ MarcarAlTerminar(p) \/ FinQuantum(p)
           \/ Interrupt(p) \/ OkDesalojo(p)
    PROVE  IInv'
<1>0. TypeOK /\ Colas /\ HerenciaJusta
  BY DEF IInv
<1>1. /\ pcb \in [Pids -> TipoPcb] /\ mutex \in [Mutexes -> TipoMutex]
      /\ pc \in [Pids -> Nat] /\ hilo \in [Pids -> TipoHilo] /\ desalojo \subseteq Pids
  BY <1>0, Tipos
<1>2. ASSUME NEW m \in Mutexes, mutex' = [mutex EXCEPT ![m].creado = TRUE]
      PROVE  /\ mutex' \in [Mutexes -> TipoMutex]
             /\ \A n \in Mutexes : /\ mutex'[n].valor = mutex[n].valor
                                   /\ mutex'[n].duenio = mutex[n].duenio
                                   /\ mutex'[n].cola = mutex[n].cola
  <2> DEFINE v == [mutex[m] EXCEPT !.creado = TRUE]
  <2>1. v \in TipoMutex
    BY <1>1 DEF TipoMutex
  <2>2. v.valor = mutex[m].valor /\ v.duenio = mutex[m].duenio /\ v.cola = mutex[m].cola
    BY <1>1 DEF TipoMutex
  <2>3. mutex' = [mutex EXCEPT ![m] = v]
    BY <1>2
  <2> HIDE DEF v
  <2> QED
    BY <1>1, <2>1, <2>2, <2>3
<1>3. /\ mutex' \in [Mutexes -> TipoMutex]
      /\ \A n \in Mutexes : /\ mutex'[n].valor = mutex[n].valor
                            /\ mutex'[n].duenio = mutex[n].duenio
                            /\ mutex'[n].cola = mutex[n].cola
  <2>1. CASE MutexCreate(p)
    BY <1>0, <1>2, <2>1, InstruccionBien DEF MutexCreate, Ejecuta
  <2>2. CASE UNCHANGED mutex
    BY <1>1, <2>2
  <2>3. MutexCreate(p) \/ UNCHANGED mutex
    BY DEF Noop, LockInexistente, UnlockInexistente, UnlockAjeno, MarcarAlTerminar, FinQuantum,
           Interrupt, OkDesalojo, planVars
  <2> QED
    BY <2>1, <2>2, <2>3
<1>4. /\ UNCHANGED <<niveles, rnn, s_rdy, en_io, hilos, rondas, residente, programa>>
      /\ UNCHANGED pcb
      /\ desalojo \ {p} \subseteq desalojo' /\ desalojo' \subseteq Pids
  BY <1>1 DEF Noop, LockInexistente, UnlockInexistente, UnlockAjeno, MutexCreate,
         MarcarAlTerminar, FinQuantum, Interrupt, OkDesalojo, Cumplida, Marcar, planVars
<1>5. pc' = pc \/ pc' = [pc EXCEPT ![p] = @ + 1]
  BY DEF Noop, LockInexistente, UnlockInexistente, UnlockAjeno, MutexCreate, MarcarAlTerminar,
         FinQuantum, Interrupt, OkDesalojo, Cumplida
<1>6. pc' \in [Pids -> Nat] /\ \A q \in Pids : pc[q] <= pc'[q]
  <2>1. CASE pc' = pc
    BY <1>1, <2>1
  <2> QED
    BY <1>0, <1>5, <2>1, CumplidaBien
<1> DEFINE Va(x) ==
        /\ hilo' = [hilo EXCEPT ![p].paso = x]
        /\ hilo[p].paso \in {"fetch", "marca", "interrupt", "guarda"}
        /\ Estado(p) # "RNN" => x # "fetch" /\ (x = "interrupt" => p \in desalojo')
        /\ x = "vuelve" => Estado(p) = "RNN" \/ (Estado(p) = "BCK" /\ ~pcb[p].esperando_io)
        /\ x = "fuera" => /\ Estado(p) # "RNN"
                          /\ ~(Estado(p) = "BCK" /\ ~pcb[p].esperando_io)
<1>s. EnSuCpu(p)
  BY DEF IInv, Cpus
<1>7. \E x \in Quietos : Va(x)
  <2>1. CASE FinQuantum(p)
    <3>1. hilo[p] = [hilo[p] EXCEPT !.paso = "interrupt"]
      BY <1>1, <2>1 DEF FinQuantum, TipoHilo
    <3>2. hilo = [hilo EXCEPT ![p].paso = "interrupt"]
      BY <1>1, <3>1
    <3>3. Va("interrupt")
      BY <2>1, <3>2 DEF FinQuantum
    <3> QED
      BY <3>3 DEF Quietos
  <2>2. CASE Interrupt(p)
    <3> DEFINE x == IF p \in desalojo THEN "guarda" ELSE "fetch"
    <3>1. hilo[p].paso = "interrupt" /\ hilo' = [hilo EXCEPT ![p].paso = x]
      BY <2>2 DEF Interrupt, Sigue
    <3>2. Estado(p) # "RNN" => x # "fetch"
      BY <1>s, <3>1 DEF EnSuCpu
    <3>3. Va(x)
      BY <3>1, <3>2
    <3> QED
      BY <3>3 DEF Quietos
  <2>3. CASE OkDesalojo(p)
    <3> DEFINE vuelve == Estado(p) = "RNN" \/ (Estado(p) = "BCK" /\ ~pcb[p].esperando_io)
               x == IF vuelve THEN "vuelve" ELSE "fuera"
    <3>1. hilo[p].paso = "guarda" /\ hilo' = [hilo EXCEPT ![p].paso = x]
      BY <2>3 DEF OkDesalojo, Sigue
    <3>2. Va(x)
      BY <3>1
    <3> QED
      BY <3>2 DEF Quietos
  <2>4. CASE MarcarAlTerminar(p)
    <3>1. Va("interrupt")
      BY <2>4 DEF MarcarAlTerminar, Marcar, Sigue
    <3> QED
      BY <3>1 DEF Quietos
  <2>5. CASE ~FinQuantum(p) /\ ~Interrupt(p) /\ ~OkDesalojo(p) /\ ~MarcarAlTerminar(p)
    <3>1. hilo' = [hilo EXCEPT ![p].paso = "interrupt"]
      BY <2>5 DEF Noop, LockInexistente, UnlockInexistente, UnlockAjeno, MutexCreate,
             Cumplida, Sigue
    <3>2. hilo[p].paso = "fetch"
      BY <2>5 DEF Noop, LockInexistente, UnlockInexistente, UnlockAjeno, MutexCreate, Ejecuta
    <3>3. Va("interrupt")
      BY <1>s, <3>1, <3>2 DEF EnSuCpu
    <3> QED
      BY <3>3 DEF Quietos
  <2> QED
    BY <2>1, <2>2, <2>3, <2>4, <2>5
<1>8. TypeOK' /\ Nacen' /\ Cpus' /\ Esperas' /\ Listas' /\ Plazos'
  <2> PICK x \in Quietos : Va(x)
    BY <1>7
  <2>1. pcb' \in [Pids -> TipoPcb]
    BY <1>1, <1>4
  <2>2. \A q \in Pids : /\ pcb'[q].estado = pcb[q].estado
                        /\ pcb'[q].anterior = pcb[q].anterior
                        /\ pcb'[q].esperando_io = pcb[q].esperando_io
                        /\ Estado(q) = "RDY" => pcb'[q].prioridad = pcb[q].prioridad
    BY <1>4
  <2> QED
    BY <1>3, <1>4, <1>6, <2>1, <2>2, PasoDeCpu
<1>9. Colas' /\ HerenciaJusta'
  BY <1>0, <1>3, <1>4, ColasSiguen, HerenciaSigue
<1> QED
  BY <1>8, <1>9 DEF IInv

\* What the lists of waiters and the tables of mutexes have in common.
LEMMA DuenioEspera ==
    ASSUME IInv, NEW p \in Pids, hilo[p].paso = "fetch"
    PROVE  /\ Estado(p) = "RNN" /\ EnCpu(p) /\ ~pcb[p].esperando_io /\ p \notin en_io
           /\ \A m \in Mutexes : ~EnCola(p, m)
<1>1. EnSuCpu(p) /\ EsperaBien(p)
  BY DEF IInv, Cpus, Esperas
<1>2. EnCpu(p) /\ Estado(p) = "RNN"
  BY <1>1 DEF EnSuCpu, EnCpu
<1> QED
  BY <1>1, <1>2 DEF EsperaBien

LEMMA MutexBien ==
    ASSUME IInv, NEW m \in Mutexes
    PROVE  /\ mutex[m].cola \in Seq(Pids)
           /\ mutex[m].valor \in {0, 1}
           /\ mutex[m].valor = 0 => mutex[m].duenio \in Pids
           /\ mutex[m].valor = 1 => mutex[m].duenio = Nadie /\ mutex[m].cola = <<>>
           /\ mutex[m].cola # <<>> =>
                mutex[m].duenio \in Pids /\ mutex[m].valor = 0
<1>1. mutex[m].cola \in Seq(Pids) /\ mutex[m].valor \in {0, 1} /\ mutex[m].duenio \in Pids \cup {Nadie}
  BY DEF IInv, TypeOK
<1>2. /\ mutex[m].valor = 1 <=> mutex[m].duenio = Nadie
      /\ mutex[m].duenio = Nadie => mutex[m].cola = <<>>
  BY DEF IInv, Colas
<1> QED
  BY <1>1, <1>2

-----------------------------------------------------------------------------
(* Priority inheritance *)

\* Those that wait for a mutex of p; and HerenciaJusta of one process.
Esperan(p) == UNION {ToSet(mutex[m].cola) : m \in Tomados(p)}
HerenciaBien(p) ==
    (Cardinality(Tomados(p)) <= 1 /\ \A q \in Esperan(p) : Tomados(q) = {}) =>
        pcb[p].prioridad = Min({PrioridadDe[q] : q \in Esperan(p) \cup {p}})

LEMMA HerenciaDeTodos == HerenciaJusta <=> \A p \in Pids : HerenciaBien(p)
BY DEF HerenciaJusta, HerenciaBien, Esperan

LEMMA HerenciaDeTodosDespues == HerenciaJusta' <=> \A p \in Pids : HerenciaBien(p)'
BY DEF HerenciaJusta, HerenciaBien, Esperan

LEMMA UnoSolo ==
    ASSUME NEW T, NEW m \in T, NEW n \in T, IsFiniteSet(T), Cardinality(T) <= 1
    PROVE  m = n
<1> SUFFICES ASSUME m # n PROVE FALSE
  OBVIOUS
<1>1. IsFiniteSet({m}) /\ Cardinality({m}) = 1
  BY FS_Singleton
<1>2. IsFiniteSet({m} \cup {n}) /\ Cardinality({m} \cup {n}) = 2
  BY <1>1, FS_AddElement
<1>3. {m} \cup {n} \subseteq T
  OBVIOUS
<1>4. Cardinality({m} \cup {n}) <= Cardinality(T)
  BY <1>3, FS_Subset
<1>5. Cardinality(T) \in Nat
  BY FS_CardinalityType
<1> QED
  BY <1>2, <1>4, <1>5

LEMMA TomadosFinitos == ASSUME NEW p PROVE IsFiniteSet(Tomados(p))
<1>1. Tomados(p) \subseteq Mutexes
  BY DEF Tomados
<1> QED
  BY <1>1, FS_Subset, MutexAssumption

LEMMA TomadosFinitosDespues == ASSUME NEW p PROVE IsFiniteSet(Tomados(p)')
<1>1. Tomados(p)' \subseteq Mutexes
  BY DEF Tomados
<1> QED
  BY <1>1, FS_Subset, MutexAssumption

LEMMA MinimoDeUno == ASSUME NEW x \in Nat PROVE Min({x}) = x
BY DEF Min

LEMMA SinMutexSinHerencia ==
    ASSUME IInv, NEW p \in Pids, Tomados(p) = {}
    PROVE  pcb[p].prioridad = PrioridadDe[p]
<1>1. HerenciaBien(p)
  BY HerenciaDeTodos DEF IInv
<1>2. Esperan(p) = {}
  BY DEF Esperan
<1>3. Cardinality(Tomados(p)) = 0
  BY FS_EmptySet
<1>4. pcb[p].prioridad = Min({PrioridadDe[q] : q \in Esperan(p) \cup {p}})
  BY <1>1, <1>2, <1>3 DEF HerenciaBien
<1>5. {PrioridadDe[q] : q \in Esperan(p) \cup {p}} = {PrioridadDe[p]}
  BY <1>2
<1>6. PrioridadDe[p] \in Nat
  BY MedianoPlazoAssumption
<1> QED
  BY <1>4, <1>5, <1>6, MinimoDeUno

\* The best of some queues, when nobody in them holds a mutex.
LEMMA MejorJusto ==
    ASSUME IInv, NEW p \in Pids, NEW C \in SUBSET Seq(Pids), NEW E \in SUBSET Pids,
           E = UNION {ToSet(c) : c \in C}, \A q \in E : Tomados(q) = {}
    PROVE  Mejor(p, C) = Min({PrioridadDe[q] : q \in E \cup {p}})
<1>1. \A q \in E : pcb[q].prioridad = PrioridadDe[q]
  BY SinMutexSinHerencia
<1>2. {PrioridadDe[p]} \cup {pcb[q].prioridad : q \in E} = {PrioridadDe[q] : q \in E \cup {p}}
  BY <1>1
<1> QED
  BY <1>2 DEF Mejor

\* The same of one queue, which is what actualizar_herencia looks at.
LEMMA MejorDeUna ==
    ASSUME IInv, NEW p \in Pids, NEW c \in Seq(Pids), \A q \in ToSet(c) : Tomados(q) = {}
    PROVE  Mejor(p, {c}) = Min({PrioridadDe[q] : q \in ToSet(c) \cup {p}})
<1> DEFINE C == {c}
           E == ToSet(c)
<1>1. C \in SUBSET Seq(Pids)
  OBVIOUS
<1>2. E \in SUBSET Pids
  BY DEF ToSet
<1>3. E = UNION {ToSet(x) : x \in C}
  OBVIOUS
<1>4. \A q \in E : Tomados(q) = {}
  OBVIOUS
<1> HIDE DEF C, E
<1>5. Mejor(p, C) = Min({PrioridadDe[q] : q \in E \cup {p}})
  BY <1>1, <1>2, <1>3, <1>4, MejorJusto
<1> QED
  BY <1>5 DEF C, E

LEMMA HerenciaSigueDe ==
    ASSUME NEW p \in Pids, HerenciaBien(p), Tomados(p)' = Tomados(p), Esperan(p)' = Esperan(p),
           pcb'[p].prioridad = pcb[p].prioridad,
           \A q \in Esperan(p) : Tomados(q)' = {} => Tomados(q) = {}
    PROVE  HerenciaBien(p)'
BY DEF HerenciaBien

\* Two mutexes that differ in what a step does to them.
LEMMA EsperanIgual ==
    ASSUME NEW p, Tomados(p)' = Tomados(p),
           \A m \in Tomados(p) : mutex'[m].cola = mutex[m].cola
    PROVE  Esperan(p)' = Esperan(p)
BY DEF Esperan

LEMMA MutexPasa ==
    ASSUME TypeOK, NEW m \in Mutexes, NEW v \in TipoMutex, mutex' = [mutex EXCEPT ![m] = v]
    PROVE  /\ mutex' \in [Mutexes -> TipoMutex]
           /\ mutex'[m] = v
           /\ \A n \in Mutexes \ {m} : mutex'[n] = mutex[n]
BY Tipos

LEMMA PasoLockLibre ==
    ASSUME IInv, NEW p \in Pids, LockLibre(p)
    PROVE  IInv'
<1> DEFINE m == Actual(p).mutex
           v == [mutex[m] EXCEPT !.valor = 0, !.duenio = p]
<1>0. TypeOK /\ Colas /\ HerenciaJusta
  BY DEF IInv
<1>1. /\ hilo[p].paso = "fetch" /\ m \in Mutexes /\ mutex[m].valor = 1
      /\ mutex' = [mutex EXCEPT ![m] = v]
      /\ pc' = [pc EXCEPT ![p] = @ + 1]
      /\ hilo' = [hilo EXCEPT ![p].paso = "interrupt"]
  BY <1>0, InstruccionBien DEF LockLibre, Ejecuta, Cumplida, Sigue
<1>a. /\ UNCHANGED <<niveles, rnn, s_rdy, en_io, hilos, rondas, residente, programa>>
      /\ UNCHANGED <<pcb, desalojo>>
  BY DEF LockLibre, Cumplida, planVars
<1> HIDE DEF m
<1>2. mutex[m].duenio = Nadie /\ mutex[m].cola = <<>> /\ mutex[m] \in TipoMutex
  BY <1>0, <1>1, MutexBien, Tipos
<1>3. /\ v \in TipoMutex /\ v.valor = 0 /\ v.duenio = p /\ v.cola = mutex[m].cola
  BY <1>2 DEF TipoMutex
<1> HIDE DEF v
<1>4. /\ mutex' \in [Mutexes -> TipoMutex] /\ mutex'[m] = v
      /\ \A n \in Mutexes \ {m} : mutex'[n] = mutex[n]
  BY <1>0, <1>1, <1>3, MutexPasa
<1>5. \A n \in Mutexes : mutex'[n].cola = mutex[n].cola
  BY <1>3, <1>4
<1>6. TypeOK' /\ Nacen' /\ Cpus' /\ Esperas' /\ Listas' /\ Plazos'
  <2>1. pc' \in [Pids -> Nat] /\ \A q \in Pids : pc[q] <= pc'[q]
    BY <1>0, <1>1, CumplidaBien
  <2>2. /\ pcb' \in [Pids -> TipoPcb] /\ desalojo' \subseteq Pids /\ desalojo \subseteq desalojo'
        /\ \A q \in Pids : /\ pcb'[q].estado = pcb[q].estado
                           /\ pcb'[q].anterior = pcb[q].anterior
                           /\ pcb'[q].esperando_io = pcb[q].esperando_io
                           /\ Estado(q) = "RDY" => pcb'[q].prioridad = pcb[q].prioridad
    BY <1>0, <1>a, Tipos
  <2>3. "interrupt" \in Quietos /\ hilo[p].paso = "fetch" /\ Estado(p) = "RNN"
    BY <1>1, DuenioEspera DEF Quietos
  <2> QED
    BY <1>1, <1>a, <1>4, <1>5, <2>1, <2>2, <2>3, PasoDeCpu
<1>7. Colas'
  <2>1. \A q \in Pids : \A n \in Mutexes : EnCola(q, n)' <=> EnCola(q, n)
    BY <1>5 DEF EnCola
  <2>2. ASSUME NEW n \in Mutexes
        PROVE  /\ mutex'[n].valor = 1 <=> mutex'[n].duenio = Nadie
               /\ mutex'[n].duenio = Nadie => mutex'[n].cola = <<>>
               /\ SinRepetir(mutex'[n].cola)
    <3>1. CASE n = m
      BY <1>0, <1>3, <1>4, <1>5, <3>1, MedianoPlazoAssumption DEF Colas
    <3>2. CASE n # m
      BY <1>0, <1>4, <3>2 DEF Colas
    <3> QED
      BY <3>1, <3>2
  <2> QED
    BY <1>0, <2>1, <2>2 DEF Colas
<1>8. HerenciaJusta'
  <2>1. ASSUME NEW q \in Pids
        PROVE  Tomados(q)' = IF q = p THEN Tomados(q) \cup {m} ELSE Tomados(q)
    <3>1. ASSUME NEW n \in Mutexes
          PROVE  mutex'[n].duenio = q <=> mutex[n].duenio = q \/ (q = p /\ n = m)
      BY <1>1, <1>2, <1>3, <1>4, MedianoPlazoAssumption
    <3> QED
      BY <1>1, <3>1 DEF Tomados
  <2>2. ASSUME NEW q \in Pids PROVE HerenciaBien(q)'
    <3>1. HerenciaBien(q)
      BY <1>0, HerenciaDeTodos
    <3>2. CASE q # p
      <4>1. Tomados(q)' = Tomados(q)
        BY <2>1, <3>2
      <4>2. \A n \in Tomados(q) : mutex'[n].cola = mutex[n].cola
        BY <1>5 DEF Tomados
      <4>3. Esperan(q)' = Esperan(q)
        BY <4>1, <4>2, EsperanIgual
      <4>4. Esperan(q) \subseteq Pids
        BY MutexBien DEF Esperan, Tomados, ToSet
      <4>5. \A x \in Esperan(q) : Tomados(x)' = {} => Tomados(x) = {}
        BY <2>1, <4>4
      <4> QED
        BY <1>a, <3>1, <4>1, <4>3, <4>5, HerenciaSigueDe
    <3>3. CASE q = p
      <4>1. m \notin Tomados(p) /\ m \in Tomados(p)'
        BY <1>2, <2>1, MedianoPlazoAssumption DEF Tomados
      <4>2. ASSUME Cardinality(Tomados(p)') <= 1
            PROVE  Tomados(p) = {} /\ Tomados(p)' = {m}
        <5>1. \A n \in Tomados(p)' : n = m
          <6> SUFFICES ASSUME NEW n \in Tomados(p)' PROVE n = m
            OBVIOUS
          <6>1. IsFiniteSet(Tomados(p)')
            BY TomadosFinitosDespues
          <6> QED
            BY <4>1, <4>2, <6>1, UnoSolo
        <5> QED
          BY <2>1, <4>1, <5>1
      <4>3. ASSUME Cardinality(Tomados(p)') <= 1
            PROVE  pcb'[p].prioridad = Min({PrioridadDe[x] : x \in Esperan(p)' \cup {p}})
        <5>1. Esperan(p)' = {}
          <6>1. ToSet(mutex'[m].cola) = {}
            BY <1>2, <1>5, <1>1 DEF ToSet
          <6> QED
            BY <4>2, <4>3, <6>1 DEF Esperan
        <5>2. pcb'[p].prioridad = PrioridadDe[p]
          BY <1>a, <4>2, <4>3, SinMutexSinHerencia
        <5>3. {PrioridadDe[x] : x \in Esperan(p)' \cup {p}} = {PrioridadDe[p]}
          BY <5>1
        <5>4. PrioridadDe[p] \in Nat
          BY MedianoPlazoAssumption
        <5> QED
          BY <5>2, <5>3, <5>4, MinimoDeUno
      <4> QED
        BY <3>3, <4>3 DEF HerenciaBien
    <3> QED
      BY <3>2, <3>3
  <2> QED
    BY <2>2, HerenciaDeTodosDespues
<1> QED
  BY <1>6, <1>7, <1>8 DEF IInv

\* The priority the caller keeps when it gives m back, for any other step on the rest.
LEMMA HerenciaAlSoltar ==
    ASSUME IInv, NEW p \in Pids, NEW m \in Mutexes, hilo[p].paso = "fetch",
           Tomados(p)' = Tomados(p) \ {m},
           \A n \in Tomados(p) \ {m} : mutex'[n].cola = mutex[n].cola,
           \A q \in Pids \ {p} : Tomados(q)' = {} => Tomados(q) = {},
           pcb'[p].prioridad = PrioridadAlSoltar(p, m)
    PROVE  HerenciaBien(p)'
<1> DEFINE C == {mutex[n].cola : n \in Tomados(p) \ {m}}
           E == UNION {ToSet(mutex[n].cola) : n \in Tomados(p) \ {m}}
<1>1. Esperan(p)' = E
  BY DEF Esperan
<1>2. E = UNION {ToSet(c) : c \in C}
  OBVIOUS
<1>3. C \in SUBSET Seq(Pids)
  BY MutexBien DEF Tomados
<1>4. E \in SUBSET Pids
  BY MutexBien DEF Tomados, ToSet
<1>5. p \notin E
  BY DuenioEspera DEF EnCola, Tomados
<1> HIDE DEF C, E
<1>6. ASSUME \A q \in E : Tomados(q)' = {}
      PROVE  pcb'[p].prioridad = Min({PrioridadDe[q] : q \in E \cup {p}})
  <2>1. \A q \in E : Tomados(q) = {}
    BY <1>4, <1>5, <1>6
  <2>2. Mejor(p, C) = Min({PrioridadDe[q] : q \in E \cup {p}})
    BY <1>2, <1>3, <1>4, <2>1, MejorJusto
  <2> QED
    BY <2>2 DEF PrioridadAlSoltar, C
<1> QED
  BY <1>1, <1>6 DEF HerenciaBien

LEMMA PasoUnlockSinEspera ==
    ASSUME IInv, NEW p \in Pids, UnlockSinEspera(p)
    PROVE  IInv'
<1> DEFINE m == Actual(p).mutex
           v == MutexSoltado(m)
           w == PrioridadAlSoltar(p, m)
<1>0. TypeOK /\ Colas /\ HerenciaJusta
  BY DEF IInv
<1>1. /\ hilo[p].paso = "fetch" /\ m \in Mutexes /\ mutex[m].duenio = p /\ mutex[m].cola = <<>>
      /\ mutex' = [mutex EXCEPT ![m] = v]
      /\ pcb' = [pcb EXCEPT ![p].prioridad = w]
      /\ pc' = [pc EXCEPT ![p] = @ + 1]
      /\ hilo' = [hilo EXCEPT ![p].paso = "interrupt"]
      /\ desalojo' = desalojo \cup {p}
  BY <1>0, InstruccionBien DEF UnlockSinEspera, Ejecuta, Cumplida, Sigue, Marcar
<1>a. UNCHANGED <<niveles, rnn, s_rdy, en_io, hilos, rondas, residente, programa>>
  BY DEF UnlockSinEspera, Cumplida
<1> HIDE DEF m
<1>2. mutex[m] \in TipoMutex
  BY <1>0, <1>1, Tipos
<1>3. /\ v \in TipoMutex /\ v.valor = 1 /\ v.duenio = Nadie /\ v.cola = <<>>
  BY <1>1, <1>2 DEF TipoMutex, MutexSoltado
<1>b. w \in 0 .. Niveles - 1
  <2>1. {mutex[n].cola : n \in Tomados(p) \ {m}} \in SUBSET Seq(Pids)
    BY MutexBien DEF Tomados
  <2> QED
    BY <1>0, <2>1, MejorBien DEF PrioridadAlSoltar
<1> HIDE DEF v, w
<1>4. /\ mutex' \in [Mutexes -> TipoMutex] /\ mutex'[m] = v
      /\ \A n \in Mutexes \ {m} : mutex'[n] = mutex[n]
  BY <1>0, <1>1, <1>3, MutexPasa
<1>5. \A n \in Mutexes : mutex'[n].cola = mutex[n].cola
  BY <1>1, <1>3, <1>4
<1>c. /\ pcb' \in [Pids -> TipoPcb] /\ pcb'[p].prioridad = w
      /\ \A q \in Pids \ {p} : pcb'[q] = pcb[q]
      /\ \A q \in Pids : /\ pcb'[q].estado = pcb[q].estado
                         /\ pcb'[q].anterior = pcb[q].anterior
                         /\ pcb'[q].esperando_io = pcb[q].esperando_io
  <2>1. pcb \in [Pids -> TipoPcb]
    BY <1>0, Tipos
  <2> QED
    BY <1>1, <1>b, <2>1 DEF TipoPcb
<1>6. TypeOK' /\ Nacen' /\ Cpus' /\ Esperas' /\ Listas' /\ Plazos'
  <2>1. pc' \in [Pids -> Nat] /\ \A q \in Pids : pc[q] <= pc'[q]
    BY <1>0, <1>1, CumplidaBien
  <2>2. desalojo' \subseteq Pids /\ desalojo \subseteq desalojo'
    BY <1>0, <1>1, Tipos
  <2>3. "interrupt" \in Quietos /\ hilo[p].paso = "fetch" /\ Estado(p) = "RNN"
    BY <1>1, DuenioEspera DEF Quietos
  <2>4. Estado(p) = "RNN"
    BY <1>1, DuenioEspera
  <2>5. \A q \in Pids : /\ pcb'[q].estado = pcb[q].estado
                        /\ pcb'[q].anterior = pcb[q].anterior
                        /\ pcb'[q].esperando_io = pcb[q].esperando_io
                        /\ Estado(q) = "RDY" => pcb'[q].prioridad = pcb[q].prioridad
    BY <1>c, <2>4
  <2> QED
    BY <1>1, <1>a, <1>c, <1>4, <1>5, <2>1, <2>2, <2>3, <2>5, PasoDeCpu
<1>7. Colas'
  <2>1. \A q \in Pids : \A n \in Mutexes : EnCola(q, n)' <=> EnCola(q, n)
    BY <1>5 DEF EnCola
  <2>2. ASSUME NEW n \in Mutexes
        PROVE  /\ mutex'[n].valor = 1 <=> mutex'[n].duenio = Nadie
               /\ mutex'[n].duenio = Nadie => mutex'[n].cola = <<>>
               /\ SinRepetir(mutex'[n].cola)
    <3>1. CASE n = m
      BY <1>0, <1>3, <1>4, <1>5, <3>1 DEF Colas
    <3>2. CASE n # m
      BY <1>0, <1>4, <3>2 DEF Colas
    <3> QED
      BY <3>1, <3>2
  <2> QED
    BY <1>0, <2>1, <2>2 DEF Colas
<1>8. HerenciaJusta'
  <2>1. ASSUME NEW q \in Pids
        PROVE  Tomados(q)' = IF q = p THEN Tomados(q) \ {m} ELSE Tomados(q)
    <3>1. ASSUME NEW n \in Mutexes
          PROVE  mutex'[n].duenio = q <=> mutex[n].duenio = q /\ n # m
      BY <1>1, <1>3, <1>4, MedianoPlazoAssumption
    <3> QED
      BY <1>1, <3>1 DEF Tomados
  <2>2. ASSUME NEW q \in Pids PROVE HerenciaBien(q)'
    <3>1. HerenciaBien(q)
      BY <1>0, HerenciaDeTodos
    <3>2. CASE q # p
      <4>1. Tomados(q)' = Tomados(q)
        BY <2>1, <3>2
      <4>2. \A n \in Tomados(q) : mutex'[n].cola = mutex[n].cola
        BY <1>5 DEF Tomados
      <4>3. Esperan(q)' = Esperan(q)
        BY <4>1, <4>2, EsperanIgual
      <4>4. Esperan(q) \subseteq Pids
        BY MutexBien DEF Esperan, Tomados, ToSet
      <4>5. p \notin Esperan(q)
        BY <1>1, DuenioEspera DEF Esperan, EnCola, Tomados
      <4>6. \A x \in Esperan(q) : Tomados(x)' = {} => Tomados(x) = {}
        BY <2>1, <4>4, <4>5
      <4>7. pcb'[q].prioridad = pcb[q].prioridad
        BY <1>c, <3>2
      <4> QED
        BY <3>1, <4>1, <4>3, <4>6, <4>7, HerenciaSigueDe
    <3>3. CASE q = p
      <4>1. Tomados(p)' = Tomados(p) \ {m}
        BY <2>1
      <4>2. \A n \in Tomados(p) \ {m} : mutex'[n].cola = mutex[n].cola
        BY <1>5 DEF Tomados
      <4>3. \A x \in Pids \ {p} : Tomados(x)' = {} => Tomados(x) = {}
        BY <2>1
      <4>4. pcb'[p].prioridad = PrioridadAlSoltar(p, m)
        BY <1>c DEF w
      <4> QED
        BY <1>1, <3>3, <4>1, <4>2, <4>3, <4>4, HerenciaAlSoltar
    <3> QED
      BY <3>2, <3>3
  <2> QED
    BY <2>2, HerenciaDeTodosDespues
<1> QED
  BY <1>6, <1>7, <1>8 DEF IInv

LEMMA VictimaDeHerenciaBien ==
    ASSUME TypeOK, NEW r, NEW p
    PROVE  VictimaDeHerencia(r, p) \subseteq Pids
BY VictimaBien, Tipos DEF VictimaDeHerencia

LEMMA QuitadoIgual ==
    ASSUME UNCHANGED rondas
    PROVE  \A r \in Rondas : \A q \in Pids : Quitado(r, q)' <=> Quitado(r, q)
BY DEF Quitado

LEMMA PasoLockTomado ==
    ASSUME IInv, NEW p \in Pids, LockTomado(p)
    PROVE  IInv'
<1> DEFINE m == Actual(p).mutex
           d == mutex[m].duenio
           c == Append(mutex[m].cola, p)
           w == Herencia(d, c)
           v == [mutex[m] EXCEPT !.cola = c]
<1>0. /\ TypeOK /\ Nacen /\ Cpus /\ Colas /\ Esperas /\ Listas /\ Plazos /\ HerenciaJusta
      /\ ListaNiveles /\ ListaRnn /\ ListaSRdy
  BY DEF IInv, Listas
<1>1. /\ hilo[p].paso = "fetch" /\ m \in Mutexes /\ mutex[m].valor = 0
      /\ mutex' = [mutex EXCEPT ![m] = v]
      /\ pcb' = [pcb EXCEPT ![p].esperando_io = TRUE, ![d].prioridad = w]
      /\ niveles' = Reencolado(d, w)
      /\ desalojo' = desalojo \cup VictimaDeHerencia(pcb', d)
      /\ pc' = [pc EXCEPT ![p] = @ + 1]
      /\ hilo' = [hilo EXCEPT ![p].paso = "encolado"]
  BY <1>0, InstruccionBien DEF LockTomado, Ejecuta
<1>a. UNCHANGED <<rnn, s_rdy, en_io, hilos, rondas, residente, programa>>
  BY DEF LockTomado
<1> HIDE DEF m
<1>2. /\ mutex[m] \in TipoMutex /\ mutex[m].cola \in Seq(Pids) /\ d \in Pids
      /\ SinRepetir(mutex[m].cola)
  BY <1>0, <1>1, MutexBien, Tipos DEF Colas
<1>b. /\ Estado(p) = "RNN" /\ EnCpu(p) /\ ~pcb[p].esperando_io /\ p \notin en_io
      /\ \A n \in Mutexes : ~EnCola(p, n)
  BY <1>1, DuenioEspera
<1>3. c \in Seq(Pids) /\ SinRepetir(c) /\ ToSet(c) = ToSet(mutex[m].cola) \cup {p}
  BY <1>1, <1>2, <1>b, AgregarAlFinal DEF EnCola
<1>d. w \in 0 .. Niveles - 1
  BY <1>0, <1>2, <1>3, MejorBien DEF Herencia
<1> HIDE DEF c
<1>4. /\ v \in TipoMutex /\ v.valor = 0 /\ v.duenio = mutex[m].duenio /\ v.cola = c
  BY <1>1, <1>2, <1>3 DEF TipoMutex
<1> HIDE DEF v
<1>5. /\ mutex' \in [Mutexes -> TipoMutex] /\ mutex'[m] = v
      /\ \A n \in Mutexes \ {m} : mutex'[n] = mutex[n]
  BY <1>0, <1>1, <1>4, MutexPasa
<1> HIDE DEF d, w
<1>6. /\ pcb' \in [Pids -> TipoPcb]
      /\ \A q \in Pids : /\ pcb'[q].estado = pcb[q].estado
                         /\ pcb'[q].anterior = pcb[q].anterior
                         /\ pcb'[q].esperando_io = IF q = p THEN TRUE ELSE pcb[q].esperando_io
                         /\ pcb'[q].prioridad = IF q = d THEN w ELSE pcb[q].prioridad
  <2>1. pcb \in [Pids -> TipoPcb]
    BY <1>0, Tipos
  <2>2. PICK r : r = [pcb EXCEPT ![p].esperando_io = TRUE]
    OBVIOUS
  <2>3. /\ r \in [Pids -> TipoPcb]
        /\ \A q \in Pids : /\ r[q].estado = pcb[q].estado
                           /\ r[q].anterior = pcb[q].anterior
                           /\ r[q].esperando_io = IF q = p THEN TRUE ELSE pcb[q].esperando_io
                           /\ r[q].prioridad = pcb[q].prioridad
    BY <2>1, <2>2 DEF TipoPcb
  <2>4. pcb' = [r EXCEPT ![d].prioridad = w]
    BY <1>1, <2>2
  <2> QED
    BY <1>2, <1>d, <2>3, <2>4, ZenonT(60) DEF TipoPcb
<1>7. /\ \A q \in Pids \ {p} : hilo'[q] = hilo[q]
      /\ hilo'[p].paso = "encolado" /\ hilo' \in [Pids -> TipoHilo]
  BY <1>0, <1>1, HiloEnPaso DEF Pasos
<1>8. \A q \in Pids : Estado(q)' = Estado(q)
  BY <1>6 DEF Estado
<1>q. \A q \in Pids \ {p} : Queda(q)
  BY <1>6, <1>7 DEF Queda
<1>l. ASSUME NEW q \in Pids
      PROVE  (EnReady(q)' <=> EnReady(q)) /\ (EnRunning(q)' <=> EnRunning(q))
  <2>1. CASE q # p
    BY <1>q, <2>1, QuedaEnListas
  <2>2. CASE q = p
    BY <1>b, <1>7, <1>8, <2>2 DEF EnReady, EnRunning
  <2> QED
    BY <2>1, <2>2
<1>9. desalojo \subseteq desalojo' /\ desalojo' \subseteq Pids
  <2>1. desalojo \subseteq Pids
    BY <1>0, Tipos
  <2>2. ASSUME NEW r PROVE VictimaDeHerencia(r, d) \subseteq Pids
    BY <1>0, VictimaDeHerenciaBien
  <2> QED
    BY <1>1, <2>1, <2>2
<1>10. pc' \in [Pids -> Nat] /\ \A q \in Pids : pc[q] <= pc'[q]
  BY <1>0, <1>1, CumplidaBien
<1>11. ListaNiveles' /\ niveles' \in [0 .. Niveles - 1 -> Seq(Pids)]
  BY <1>0, <1>1, <1>2, <1>d, <1>6, <1>l, NivelesReencola
<1>12. TypeOK'
  BY <1>0, <1>a, <1>5, <1>6, <1>7, <1>9, <1>10, <1>11
     DEF TypeOK, PlanTypeOK, TipoHilo, TipoMutex, TipoPcb
<1>13. Nacen'
  BY <1>0, <1>a, <1>8, <1>10, NacenSigue
<1>14. Cpus'
  <2>1. ASSUME NEW q \in Pids \ {p} PROVE EnSuCpu(q)'
    BY <1>0, <1>6, <1>q, <1>9, EnSuCpuSigue DEF Cpus
  <2>2. EnSuCpu(p)'
    BY <1>b, <1>7, <1>8 DEF EnSuCpu, EnCpu
  <2> QED
    BY <2>1, <2>2 DEF Cpus
<1>15. \A q \in Pids : \A n \in Mutexes : EnCola(q, n)' <=> EnCola(q, n) \/ (q = p /\ n = m)
  BY <1>3, <1>4, <1>5 DEF EnCola
<1>16. Colas'
  <2>1. ASSUME NEW n \in Mutexes
        PROVE  /\ mutex'[n].valor = 1 <=> mutex'[n].duenio = Nadie
               /\ mutex'[n].duenio = Nadie => mutex'[n].cola = <<>>
               /\ SinRepetir(mutex'[n].cola)
    <3>1. CASE n = m
      BY <1>2, <1>3, <1>4, <1>5, <3>1, MedianoPlazoAssumption DEF d
    <3>2. CASE n # m
      BY <1>0, <1>5, <3>2 DEF Colas
    <3> QED
      BY <3>1, <3>2
  <2>2. \A n, k \in Mutexes : \A q \in Pids : EnCola(q, n)' /\ EnCola(q, k)' => n = k
    BY <1>0, <1>b, <1>15 DEF Colas
  <2> QED
    BY <2>1, <2>2 DEF Colas
<1>17. Esperas'
  <2>1. ASSUME NEW q \in Pids PROVE PorDespertar(q)' <=> PorDespertar(q)
    <3>1. ASSUME NEW t \in Pids
          PROVE  \/ hilo'[t] = hilo[t]
                 \/ hilo[t].paso # "despierta" /\ hilo'[t].paso # "despierta"
      BY <1>1, <1>7
    <3> QED
      BY <1>a, <3>1, PorDespertarIgual
  <2>2. ~PorDespertar(p)
    BY <1>0, <1>1, <1>b DEF Esperas, EsperaBien
  <2>3. ASSUME NEW q \in Pids \ {p} PROVE EsperaBien(q)'
    <3>1. /\ EsperaBien(q) /\ hilo'[q] = hilo[q] /\ pcb'[q].estado = pcb[q].estado
          /\ pcb'[q].esperando_io = pcb[q].esperando_io
      BY <1>0, <1>6, <1>7 DEF Esperas
    <3>2. \A n \in Mutexes : EnCola(q, n)' <=> EnCola(q, n)
      BY <1>15
    <3> QED
      BY <1>a, <2>1, <3>1, <3>2, EsperaSigue
  <2>4. EsperaBien(p)'
    <3>1. PICK n \in Mutexes : n = m
      BY <1>1
    <3>2. EnCola(p, n)'
      BY <1>15, <3>1
    <3> QED
      BY <1>a, <1>b, <1>6, <1>7, <1>8, <2>1, <2>2, <3>2 DEF EsperaBien
  <2> QED
    BY <2>3, <2>4 DEF Esperas
<1>18. Listas'
  <2>1. ListaRnn'
    BY <1>0, <1>a, <1>l, RnnIgual
  <2>2. ListaSRdy'
    BY <1>0, <1>a, <1>8, QuitadoIgual, SRdyIgual
  <2> QED
    BY <1>11, <2>1, <2>2 DEF Listas
<1>19. Plazos'
  BY <1>0, <1>a, <1>8, PlazosSiguen
<1>20. HerenciaJusta'
  <2>1. ASSUME NEW q PROVE Tomados(q)' = Tomados(q)
    <3>1. \A n \in Mutexes : mutex'[n].duenio = mutex[n].duenio
      BY <1>4, <1>5
    <3> QED
      BY <3>1 DEF Tomados
  <2>2. ASSUME NEW q \in Pids PROVE HerenciaBien(q)'
    <3>1. HerenciaBien(q)
      BY <1>0, HerenciaDeTodos
    <3>2. CASE q # d
      <4>1. m \notin Tomados(q)
        BY <3>2 DEF Tomados, d
      <4>2. \A n \in Tomados(q) : mutex'[n].cola = mutex[n].cola
        BY <1>5, <4>1 DEF Tomados
      <4>3. Esperan(q)' = Esperan(q)
        BY <2>1, <4>2, EsperanIgual
      <4>4. pcb'[q].prioridad = pcb[q].prioridad
        BY <1>6, <3>2
      <4> QED
        BY <2>1, <3>1, <4>3, <4>4, HerenciaSigueDe
    <3>3. CASE q = d
      <4>1. m \in Tomados(q)
        BY <1>1, <3>3 DEF Tomados, d
      <4>2. ASSUME Cardinality(Tomados(q)) <= 1, \A x \in Esperan(q)' : Tomados(x) = {}
            PROVE  pcb'[q].prioridad = Min({PrioridadDe[x] : x \in Esperan(q)' \cup {q}})
        <5>1. Tomados(q) = {m}
          BY <4>1, <4>2, TomadosFinitos, UnoSolo
        <5>2. Esperan(q)' = ToSet(c)
          BY <1>4, <1>5, <2>1, <5>1 DEF Esperan
        <5>3. c \in Seq(Pids) /\ \A x \in ToSet(c) : Tomados(x) = {}
          BY <1>3, <4>2, <5>2
        <5>4. Mejor(q, {c}) = Min({PrioridadDe[x] : x \in ToSet(c) \cup {q}})
          BY <5>3, MejorDeUna
        <5>5. pcb'[q].prioridad = Mejor(q, {c})
          BY <1>6, <3>3 DEF w, Herencia
        <5> QED
          BY <5>2, <5>4, <5>5
      <4>3. /\ Tomados(q)' = Tomados(q)
            /\ \A x \in Esperan(q)' : Tomados(x)' = Tomados(x)
        BY <2>1
      <4> QED
        BY <4>2, <4>3 DEF HerenciaBien
    <3> QED
      BY <3>2, <3>3
  <2> QED
    BY <2>2, HerenciaDeTodosDespues
<1> QED
  BY <1>12, <1>13, <1>14, <1>16, <1>17, <1>18, <1>19, <1>20 DEF IInv

LEMMA PasoUnlockTraspaso ==
    ASSUME IInv, NEW p \in Pids, UnlockTraspaso(p)
    PROVE  IInv'
<1> PICK m : m = Actual(p).mutex
  OBVIOUS
<1> PICK c : c = mutex[m].cola
  OBVIOUS
<1> PICK s : s = Head(c)
  OBVIOUS
<1> DEFINE u == PrioridadAlSoltar(p, m)
           w == Herencia(s, Tail(c))
           v == MutexSoltado(m)
<1>0. /\ TypeOK /\ Nacen /\ Cpus /\ Colas /\ Esperas /\ Listas /\ Plazos /\ HerenciaJusta
      /\ ListaNiveles /\ ListaRnn /\ ListaSRdy
  BY DEF IInv, Listas
<1>1. /\ hilo[p].paso = "fetch" /\ m \in Mutexes /\ mutex[m].duenio = p /\ c # <<>>
      /\ mutex' = [mutex EXCEPT ![m] = v]
      /\ pcb' = [pcb EXCEPT ![p].prioridad = u, ![s].prioridad = w, ![s].esperando_io = FALSE]
      /\ niveles' = Reencolado(s, w)
      /\ desalojo' = desalojo \cup VictimaDeHerencia(pcb', s)
      /\ pc' = [pc EXCEPT ![p] = @ + 1]
      /\ hilo' = [hilo EXCEPT ![p] = [paso |-> "despierta", otro |-> s]]
  BY <1>0, InstruccionBien DEF UnlockTraspaso, Ejecuta
<1>e. hilo[p].paso = "fetch" /\ m \in Mutexes
  BY <1>1
<1>a. UNCHANGED <<rnn, s_rdy, en_io, hilos, rondas, residente, programa>>
  BY DEF UnlockTraspaso
<1>b. /\ Estado(p) = "RNN" /\ EnCpu(p) /\ ~pcb[p].esperando_io /\ p \notin en_io
      /\ \A n \in Mutexes : ~EnCola(p, n)
  BY <1>1, DuenioEspera
<1>2. /\ mutex[m] \in TipoMutex /\ c \in Seq(Pids) /\ SinRepetir(c) /\ mutex[m].valor = 0
  BY <1>0, <1>1, MutexBien, Tipos DEF Colas
<1>3. /\ s \in Pids /\ s \in ToSet(c) /\ Tail(c) \in Seq(Pids) /\ SinRepetir(Tail(c))
      /\ ToSet(Tail(c)) = ToSet(c) \ {s}
  BY <1>1, <1>2, SacarPrimero
<1>c. EnCola(s, m) /\ s # p
  BY <1>1, <1>3, <1>b DEF EnCola
<1>d. u \in 0 .. Niveles - 1 /\ w \in 0 .. Niveles - 1
  <2>1. {mutex[n].cola : n \in Tomados(p) \ {m}} \in SUBSET Seq(Pids)
    BY MutexBien DEF Tomados
  <2>2. u \in 0 .. Niveles - 1
    BY <1>0, <2>1, MejorBien DEF PrioridadAlSoltar
  <2> QED
    BY <1>0, <1>3, <2>2, MejorBien DEF Herencia
<1>4. /\ v \in TipoMutex /\ v.valor = 0 /\ v.duenio = s /\ v.cola = Tail(c)
  <2>1. v = [mutex[m] EXCEPT !.duenio = s, !.cola = Tail(c)]
    BY <1>1 DEF MutexSoltado
  <2> QED
    BY <1>2, <1>3, <2>1 DEF TipoMutex
<1> HIDE DEF v, u, w
<1>5. /\ mutex' \in [Mutexes -> TipoMutex] /\ mutex'[m] = v
      /\ \A n \in Mutexes \ {m} : mutex'[n] = mutex[n]
  BY <1>0, <1>1, <1>4, MutexPasa
<1>6. /\ pcb' \in [Pids -> TipoPcb]
      /\ \A q \in Pids :
           /\ pcb'[q].estado = pcb[q].estado
           /\ pcb'[q].anterior = pcb[q].anterior
           /\ pcb'[q].esperando_io = IF q = s THEN FALSE ELSE pcb[q].esperando_io
           /\ pcb'[q].prioridad = IF q = p THEN u ELSE IF q = s THEN w ELSE pcb[q].prioridad
  <2>1. pcb \in [Pids -> TipoPcb]
    BY <1>0, Tipos
  <2>2. PICK r : r = [pcb EXCEPT ![p].prioridad = u]
    OBVIOUS
  <2>3. /\ r \in [Pids -> TipoPcb]
        /\ \A q \in Pids : /\ r[q].estado = pcb[q].estado
                           /\ r[q].anterior = pcb[q].anterior
                           /\ r[q].esperando_io = pcb[q].esperando_io
                           /\ r[q].prioridad = IF q = p THEN u ELSE pcb[q].prioridad
    BY <1>d, <2>1, <2>2 DEF TipoPcb
  <2>4. pcb' = [r EXCEPT ![s].prioridad = w, ![s].esperando_io = FALSE]
    BY <1>1, <2>2
  <2>5. PICK t : t = [r[s] EXCEPT !.prioridad = w, !.esperando_io = FALSE]
    OBVIOUS
  <2>6. /\ t \in TipoPcb /\ t.estado = r[s].estado /\ t.anterior = r[s].anterior
        /\ t.esperando_io = FALSE /\ t.prioridad = w
    <3>1. r[s] \in TipoPcb
      BY <1>3, <2>3
    <3> QED
      BY <1>d, <2>5, <3>1 DEF TipoPcb
  <2>7. pcb' = [r EXCEPT ![s] = t]
    BY <1>3, <2>3, <2>4, <2>5
  <2> QED
    BY <1>3, <1>c, <2>3, <2>6, <2>7
<1>7. /\ \A q \in Pids \ {p} : hilo'[q] = hilo[q]
      /\ hilo'[p] = [paso |-> "despierta", otro |-> s] /\ hilo' \in [Pids -> TipoHilo]
  <2>1. [paso |-> "despierta", otro |-> s] \in TipoHilo
    BY <1>3 DEF TipoHilo, Pasos
  <2> QED
    BY <1>0, <1>1, <2>1, HiloPasa
<1>8. \A q \in Pids : Estado(q)' = Estado(q)
  BY <1>6 DEF Estado
<1>q. \A q \in Pids \ {p} : Queda(q)
  BY <1>6, <1>7 DEF Queda
<1>l. ASSUME NEW q \in Pids
      PROVE  (EnReady(q)' <=> EnReady(q)) /\ (EnRunning(q)' <=> EnRunning(q))
  <2>1. CASE q # p
    BY <1>q, <2>1, QuedaEnListas
  <2>2. CASE q = p
    BY <1>b, <1>7, <1>8, <2>2 DEF EnReady, EnRunning
  <2> QED
    BY <2>1, <2>2
<1>9. desalojo \subseteq desalojo' /\ desalojo' \subseteq Pids
  <2>1. desalojo \subseteq Pids
    BY <1>0, Tipos
  <2>2. ASSUME NEW r PROVE VictimaDeHerencia(r, s) \subseteq Pids
    BY <1>0, VictimaDeHerenciaBien
  <2> QED
    BY <1>1, <2>1, <2>2
<1>10. pc' \in [Pids -> Nat] /\ \A q \in Pids : pc[q] <= pc'[q]
  BY <1>0, <1>1, CumplidaBien
<1>11. ListaNiveles' /\ niveles' \in [0 .. Niveles - 1 -> Seq(Pids)]
  <2>1. pcb'[s].prioridad = w
    BY <1>3, <1>c, <1>6
  <2>2. \A q \in Pids \ {s} : EnReady(q) => pcb'[q].prioridad = pcb[q].prioridad
    BY <1>b, <1>6 DEF EnReady
  <2> QED
    BY <1>0, <1>1, <1>3, <1>d, <1>l, <2>1, <2>2, NivelesReencola
<1>12. TypeOK'
  BY <1>0, <1>a, <1>5, <1>6, <1>7, <1>9, <1>10, <1>11
     DEF TypeOK, PlanTypeOK, TipoHilo, TipoMutex, TipoPcb
<1>13. Nacen'
  BY <1>0, <1>a, <1>8, <1>10, NacenSigue
<1>14. Cpus'
  <2>1. ASSUME NEW q \in Pids \ {p} PROVE EnSuCpu(q)'
    BY <1>0, <1>6, <1>q, <1>9, EnSuCpuSigue DEF Cpus
  <2>2. EnSuCpu(p)'
    BY <1>b, <1>7, <1>8 DEF EnSuCpu, EnCpu
  <2> QED
    BY <2>1, <2>2 DEF Cpus
<1>15. \A q \in Pids : \A n \in Mutexes : EnCola(q, n)' <=> EnCola(q, n) /\ ~(q = s /\ n = m)
  BY <1>3, <1>4, <1>5 DEF EnCola
<1>16. Colas'
  <2>1. ASSUME NEW n \in Mutexes
        PROVE  /\ mutex'[n].valor = 1 <=> mutex'[n].duenio = Nadie
               /\ mutex'[n].duenio = Nadie => mutex'[n].cola = <<>>
               /\ SinRepetir(mutex'[n].cola)
    <3>1. CASE n = m
      BY <1>3, <1>4, <1>5, <3>1, MedianoPlazoAssumption
    <3>2. CASE n # m
      BY <1>0, <1>5, <3>2 DEF Colas
    <3> QED
      BY <3>1, <3>2
  <2>2. \A n, k \in Mutexes : \A q \in Pids : EnCola(q, n)' /\ EnCola(q, k)' => n = k
    BY <1>0, <1>15 DEF Colas
  <2> QED
    BY <2>1, <2>2 DEF Colas
<1>17. Esperas'
  <2>0. /\ pcb[s].esperando_io /\ s \notin en_io
        /\ Estado(s) \in {"BCK", "S_BCK"} \/ hilo[s].paso = "encolado"
        /\ hilo[s].paso # "despierta"
        /\ \A n \in Mutexes : ~EnCola(s, n)'
    <3>1. EsperaBien(s) /\ EnSuCpu(s)
      BY <1>0, <1>3 DEF Esperas, Cpus
    <3>2. \A n \in Mutexes : EnCola(s, n) => n = m
      BY <1>0, <1>1, <1>3, <1>c DEF Colas
    <3> QED
      BY <1>3, <1>c, <1>e, <1>15, <3>1, <3>2 DEF EsperaBien, EnSuCpu, EnCpu
  <2>1. ASSUME NEW q \in Pids PROVE PorDespertar(q)' <=> PorDespertar(q) \/ q = s
    <3>1. (\E t \in Pids : hilo'[t] = [paso |-> "despierta", otro |-> q])
          <=> (\E t \in Pids : hilo[t] = [paso |-> "despierta", otro |-> q]) \/ q = s
      BY <1>e, <1>7
    <3>2. (\E h \in hilos' : h.pid = q /\ h.fase = "despierta")
          <=> (\E h \in hilos : h.pid = q /\ h.fase = "despierta")
      BY <1>a
    <3> QED
      BY <3>1, <3>2 DEF PorDespertar
  <2>2. ~PorDespertar(p)
    BY <1>0, <1>e, <1>b DEF Esperas, EsperaBien
  <2>3. ASSUME NEW q \in Pids \ {p, s} PROVE EsperaBien(q)'
    <3>1. /\ EsperaBien(q) /\ hilo'[q] = hilo[q] /\ pcb'[q].estado = pcb[q].estado
          /\ pcb'[q].esperando_io = pcb[q].esperando_io
      BY <1>0, <1>6, <1>7 DEF Esperas
    <3>2. \A n \in Mutexes : EnCola(q, n)' <=> EnCola(q, n)
      BY <1>15
    <3>3. PorDespertar(q)' <=> PorDespertar(q)
      BY <2>1
    <3> QED
      BY <1>a, <3>1, <3>2, <3>3, EsperaSigue
  <2>4. EsperaBien(s)'
    <3>1. ~pcb'[s].esperando_io /\ s \notin en_io' /\ hilo'[s] = hilo[s]
      BY <1>3, <1>a, <1>c, <1>6, <1>7, <2>0
    <3>2. PorDespertar(s)' /\ Estado(s)' = Estado(s)
      BY <1>3, <1>8, <2>1
    <3> QED
      BY <2>0, <3>1, <3>2 DEF EsperaBien
  <2>5. EsperaBien(p)'
    <3>1. ~pcb'[p].esperando_io /\ p \notin en_io' /\ \A n \in Mutexes : ~EnCola(p, n)'
      BY <1>a, <1>b, <1>c, <1>6, <1>15
    <3>2. ~PorDespertar(p)' /\ hilo'[p].otro \in Pids
      BY <1>3, <1>c, <1>7, <2>1, <2>2
    <3>3. Estado(p)' = "RNN"
      BY <1>b, <1>8
    <3> QED
      BY <3>1, <3>2, <3>3 DEF EsperaBien
  <2> QED
    BY <2>3, <2>4, <2>5 DEF Esperas
<1>18. Listas'
  <2>1. ListaRnn'
    BY <1>0, <1>a, <1>l, RnnIgual
  <2>2. ListaSRdy'
    BY <1>0, <1>a, <1>8, QuitadoIgual, SRdyIgual
  <2> QED
    BY <1>11, <2>1, <2>2 DEF Listas
<1>19. Plazos'
  BY <1>0, <1>a, <1>8, PlazosSiguen
<1>20. HerenciaJusta'
  <2>1. ASSUME NEW q \in Pids
        PROVE  Tomados(q)' = IF q = p THEN Tomados(q) \ {m}
                             ELSE IF q = s THEN Tomados(q) \cup {m} ELSE Tomados(q)
    <3>1. ASSUME NEW n \in Mutexes
          PROVE  mutex'[n].duenio = q <=> (q = s /\ n = m) \/ (n # m /\ mutex[n].duenio = q)
      BY <1>1, <1>4, <1>5
    <3> QED
      BY <1>1, <1>c, <3>1 DEF Tomados
  <2>2. ASSUME NEW q \in Pids PROVE HerenciaBien(q)'
    <3>1. HerenciaBien(q)
      BY <1>0, HerenciaDeTodos
    <3>0. m \notin Tomados(q) \/ q = p
      BY <1>1 DEF Tomados
    <3>2. CASE q \notin {p, s}
      <4>1. Tomados(q)' = Tomados(q)
        BY <2>1, <3>2
      <4>2. \A n \in Tomados(q) : mutex'[n].cola = mutex[n].cola
        BY <1>5, <3>0, <3>2 DEF Tomados
      <4>3. Esperan(q)' = Esperan(q)
        BY <4>1, <4>2, EsperanIgual
      <4>4. pcb'[q].prioridad = pcb[q].prioridad
        BY <1>6, <3>2
      <4>5. Esperan(q) \subseteq Pids
        BY MutexBien DEF Esperan, Tomados, ToSet
      <4>6. p \notin Esperan(q)
        BY <1>b DEF Esperan, EnCola, Tomados
      <4>7. \A x \in Esperan(q) : Tomados(x)' = {} => Tomados(x) = {}
        BY <2>1, <4>5, <4>6
      <4> QED
        BY <3>1, <4>1, <4>3, <4>4, <4>7, HerenciaSigueDe
    <3>3. CASE q = p
      <4>1. Tomados(p)' = Tomados(p) \ {m}
        BY <2>1
      <4>2. \A n \in Tomados(p) \ {m} : mutex'[n].cola = mutex[n].cola
        BY <1>5 DEF Tomados
      <4>3. \A x \in Pids \ {p} : Tomados(x)' = {} => Tomados(x) = {}
        BY <2>1
      <4>4. pcb'[p].prioridad = PrioridadAlSoltar(p, m)
        BY <1>6 DEF u
      <4> QED
        BY <1>1, <3>3, <4>1, <4>2, <4>3, <4>4, HerenciaAlSoltar
    <3>4. CASE q = s
      <4>1. Tomados(s)' = Tomados(s) \cup {m}
        BY <1>3, <1>c, <2>1
      <4>2. ASSUME Cardinality(Tomados(s)') <= 1, \A x \in Esperan(s)' : Tomados(x)' = {}
            PROVE  pcb'[s].prioridad = Min({PrioridadDe[x] : x \in Esperan(s)' \cup {s}})
        <5>1. Tomados(s)' = {m}
          <6>1. m \in Tomados(s)'
            BY <4>1
          <6> QED
            BY <4>2, <6>1, TomadosFinitosDespues, UnoSolo
        <5>2. Esperan(s)' = ToSet(Tail(c))
          BY <1>4, <1>5, <5>1 DEF Esperan
        <5>3. ToSet(Tail(c)) \subseteq Pids
          BY <1>3 DEF ToSet
        <5>4. p \notin ToSet(c)
          BY <1>1, <1>b DEF EnCola
        <5>5. ASSUME NEW x \in ToSet(Tail(c)) PROVE Tomados(x) = {}
          <6>1. x \in Pids /\ x \notin {p, s}
            BY <1>3, <5>3, <5>4
          <6>2. Tomados(x)' = {}
            BY <4>2, <5>2
          <6> QED
            BY <2>1, <6>1, <6>2
        <5>6. Mejor(s, {Tail(c)}) = Min({PrioridadDe[x] : x \in ToSet(Tail(c)) \cup {s}})
          BY <1>3, <5>5, MejorDeUna
        <5>7. pcb'[s].prioridad = Mejor(s, {Tail(c)})
          BY <1>3, <1>c, <1>6 DEF w, Herencia
        <5> QED
          BY <5>2, <5>6, <5>7
      <4> QED
        BY <3>4, <4>2 DEF HerenciaBien
    <3> QED
      BY <3>2, <3>3, <3>4
  <2> QED
    BY <2>2, HerenciaDeTodosDespues
<1> QED
  BY <1>12, <1>13, <1>14, <1>16, <1>17, <1>18, <1>19, <1>20 DEF IInv

-----------------------------------------------------------------------------
(* A process leaves RUNNING because it waits or ends *)

LEMMA DejaCorrer ==
    ASSUME IInv, NEW p \in Pids, NEW x \in {"BCK", "EXT"},
           hilo[p].paso = "fetch",
           pcb' \in [Pids -> TipoPcb], pcb'[p].estado = x,
           pcb'[p].prioridad = pcb[p].prioridad,
           \A q \in Pids \ {p} : pcb'[q] = pcb[q],
           rnn' = Sin(rnn, p),
           UNCHANGED <<niveles, s_rdy, rondas, programa, mutex>>,
           hilos' \subseteq Hilo,
           \A h \in hilos' : Suspension(h) => h \in hilos,
           residente' \in [Pids -> BOOLEAN],
           \A q \in Pids : q # p \/ x = "BCK" => residente'[q] = residente[q],
           en_io' \subseteq Pids, \A q \in Pids \ {p} : q \in en_io' <=> q \in en_io,
           pc' \in [Pids -> Nat], \A q \in Pids : pc[q] <= pc'[q],
           hilo' \in [Pids -> TipoHilo], \A q \in Pids \ {p} : hilo'[q] = hilo[q],
           hilo'[p].paso = IF x = "BCK" THEN "interrupt" ELSE "fuera",
           desalojo \subseteq desalojo', desalojo' \subseteq Pids, x = "BCK" => p \in desalojo',
           \A h \in hilos : h \in hilos', \A h \in hilos' : h.fase = "despierta" => h \in hilos,
           pcb'[p].esperando_io <=> p \in en_io',
           p \in en_io' => x = "BCK" /\ \A m \in Mutexes : ~EnCola(p, m),
           p \notin en_io' => \A m \in Mutexes : ~EnCola(p, m)
    PROVE  IInv'
<1>0. /\ TypeOK /\ Nacen /\ Cpus /\ Colas /\ Esperas /\ Listas /\ Plazos /\ HerenciaJusta
      /\ ListaNiveles /\ ListaRnn /\ ListaSRdy
  BY DEF IInv, Listas
<1>1. Estado(p) = "RNN"
  <2>1. EnSuCpu(p)
    BY <1>0 DEF Cpus
  <2> QED
    BY <2>1 DEF EnSuCpu, EnCpu
<1>2. /\ \A q \in Pids \ {p} : Estado(q)' = Estado(q)
      /\ Estado(p)' = x
      /\ \A q \in Pids : pcb'[q].prioridad = pcb[q].prioridad
  BY DEF Estado
<1>q. \A q \in Pids \ {p} : Queda(q)
  BY DEF Queda
<1>l. /\ \A q \in Pids \ {p} : (EnReady(q)' <=> EnReady(q)) /\ (EnRunning(q)' <=> EnRunning(q))
      /\ ~EnReady(p) /\ ~EnReady(p)' /\ ~EnRunning(p)'
  <2>1. \A q \in Pids \ {p} : (EnReady(q)' <=> EnReady(q)) /\ (EnRunning(q)' <=> EnRunning(q))
    BY <1>q, QuedaEnListas
  <2>2. ~EnReady(p) /\ ~EnReady(p)' /\ ~EnRunning(p)'
    BY <1>1, <1>2 DEF EnReady, EnRunning
  <2> QED
    BY <2>1, <2>2
<1>3. ListaRnn' /\ rnn' \in Seq(Pids)
  BY <1>0, <1>l, RnnSale
<1>4. ListaNiveles'
  <2>1. ASSUME NEW q \in Pids
        PROVE  /\ EnReady(q)' <=> EnReady(q)
               /\ EnReady(q) => pcb'[q].prioridad = pcb[q].prioridad
    BY <1>2, <1>l
  <2> QED
    BY <1>0, <2>1, NivelesIguales
<1>5. ListaSRdy'
  <2>1. \A q \in Pids : Estado(q)' = "S_RDY" <=> Estado(q) = "S_RDY"
    BY <1>1, <1>2
  <2> QED
    BY <1>0, <2>1, QuitadoIgual, SRdyIgual
<1>6. TypeOK'
  BY <1>0, <1>3 DEF TypeOK, PlanTypeOK, TipoHilo, TipoMutex, TipoPcb
<1>7. Nacen'
  <2>1. \A q \in Pids : Estado(q) = "NEW" => Estado(q)' = "NEW"
    BY <1>1, <1>2
  <2> QED
    BY <1>0, <2>1, NacenSigue
<1>8. Cpus'
  <2>1. ASSUME NEW q \in Pids \ {p} PROVE EnSuCpu(q)'
    BY <1>0, <1>q, EnSuCpuSigue DEF Cpus
  <2>2. EnSuCpu(p)'
    BY <1>2 DEF EnSuCpu, EnCpu
  <2> QED
    BY <2>1, <2>2 DEF Cpus
<1>9. /\ Colas'
      /\ \A q \in Pids : \A m \in Mutexes : EnCola(q, m)' <=> EnCola(q, m)
  BY <1>0, ColasSiguen
<1>10. HerenciaJusta'
  BY <1>0, <1>2, HerenciaSigue
<1>11. Plazos'
  <2>1. ASSUME NEW q \in Pids
        PROVE  \/ Estado(q)' = Estado(q) /\ residente'[q] = residente[q]
               \/ /\ Estado(q) \in EnRamEstados /\ Estado(q)' \in EnRamEstados
                  /\ residente'[q] = residente[q]
               \/ Estado(q) \in EnRamEstados /\ Estado(q)' = "EXT"
    BY <1>1, <1>2 DEF EnRamEstados
  <2> QED
    BY <1>0, <2>1, PlazosSiguen
<1>12. Esperas'
  <2>1. ASSUME NEW q \in Pids PROVE PorDespertar(q)' <=> PorDespertar(q)
    <3>1. ASSUME NEW t \in Pids
          PROVE  \/ hilo'[t] = hilo[t]
                 \/ hilo[t].paso # "despierta" /\ hilo'[t].paso # "despierta"
      OBVIOUS
    <3>2. /\ \A h \in hilos : h.fase = "despierta" => h \in hilos'
          /\ \A h \in hilos' : h.fase = "despierta" => h \in hilos
      OBVIOUS
    <3> QED
      BY <3>1, <3>2, PorDespertarDeHilos
  <2>2. ASSUME NEW q \in Pids \ {p} PROVE EsperaBien(q)'
    <3>1. /\ EsperaBien(q) /\ hilo'[q] = hilo[q] /\ pcb'[q].estado = pcb[q].estado
          /\ pcb'[q].esperando_io = pcb[q].esperando_io
      BY <1>0 DEF Esperas
    <3> QED
      BY <1>9, <2>1, <3>1, EsperaSigue
  <2>3. EsperaBien(p)'
    <3>1. ~PorDespertar(p)
      BY <1>0, <1>1 DEF Esperas, EsperaBien
    <3>2. hilo'[p].paso # "despierta" /\ hilo'[p].paso # "encolado"
      OBVIOUS
    <3> QED
      BY <1>1, <1>2, <1>9, <2>1, <3>1, <3>2 DEF EnCpu, EsperaBien
  <2> QED
    BY <2>2, <2>3 DEF Esperas
<1> QED
  BY <1>3, <1>4, <1>5, <1>6, <1>7, <1>8, <1>9, <1>10, <1>11, <1>12 DEF IInv, Listas

\* What ConEstado does to a PCB.
LEMMA ConEstadoBien ==
    ASSUME NEW r \in TipoPcb, NEW x \in Estados
    PROVE  /\ ConEstado(r, x) \in TipoPcb
           /\ ConEstado(r, x).estado = x /\ ConEstado(r, x).anterior = r.estado
           /\ ConEstado(r, x).prioridad = r.prioridad
           /\ ConEstado(r, x).esperando_io = r.esperando_io
<1> PICK v : v = IF x = "BCK" THEN r.version + 1 ELSE r.version
  OBVIOUS
<1>1. ConEstado(r, x) = [r EXCEPT !.estado = x, !.anterior = r.estado, !.version = v]
  BY DEF ConEstado
<1>2. v \in Nat
  BY DEF TipoPcb
<1> QED
  BY <1>1, <1>2 DEF TipoPcb

LEMMA PcbPasa ==
    ASSUME TypeOK, NEW p \in Pids, NEW v \in TipoPcb, pcb' = [pcb EXCEPT ![p] = v]
    PROVE  /\ pcb' \in [Pids -> TipoPcb] /\ pcb'[p] = v
           /\ \A q \in Pids \ {p} : pcb'[q] = pcb[q]
BY Tipos

LEMMA PasoSleep ==
    ASSUME IInv, NEW p \in Pids, Sleep(p)
    PROVE  IInv'
<1> PICK u : u = [pcb[p] EXCEPT !.esperando_io = TRUE]
  OBVIOUS
<1> PICK v : v = ConEstado(u, "BCK")
  OBVIOUS
<1> PICK k : k = [pid |-> p, nacio |-> v.version, fase |-> "arranca", version |-> 0]
  OBVIOUS
<1>0. TypeOK /\ pcb[p] \in TipoPcb
  BY Tipos DEF IInv
<1>1. /\ hilo[p].paso = "fetch" /\ pcb' = [pcb EXCEPT ![p] = v] /\ rnn' = Sin(rnn, p)
      /\ desalojo' = desalojo \cup {p} /\ en_io' = en_io \cup {p}
      /\ hilos' = hilos \cup {k}
      /\ hilo' = [hilo EXCEPT ![p].paso = "interrupt"]
      /\ pc' = [pc EXCEPT ![p] = @ + 1]
      /\ UNCHANGED <<niveles, s_rdy, rondas, residente, programa, mutex>>
  BY DEF Sleep, EsperarIO, Cumplida, Sigue, Ejecuta
<1>2. u \in TipoPcb /\ u.prioridad = pcb[p].prioridad /\ u.esperando_io = TRUE
  BY <1>0 DEF TipoPcb
<1>3. v \in TipoPcb /\ v.estado = "BCK" /\ v.prioridad = pcb[p].prioridad
      /\ v.esperando_io = TRUE
  BY <1>2, ConEstadoBien DEF Estados
<1>4. /\ pcb' \in [Pids -> TipoPcb] /\ pcb'[p] = v /\ \A q \in Pids \ {p} : pcb'[q] = pcb[q]
  BY <1>0, <1>1, <1>3, PcbPasa
<1>5. /\ hilo' \in [Pids -> TipoHilo] /\ hilo'[p].paso = "interrupt"
      /\ \A q \in Pids \ {p} : hilo'[q] = hilo[q]
  BY <1>0, <1>1, HiloEnPaso DEF Pasos
<1>6. p \in en_io' /\ \A m \in Mutexes : ~EnCola(p, m)
  BY <1>1, DuenioEspera
<1>7. k \in Hilo /\ ~Suspension(k) /\ k.fase # "despierta"
  BY <1>3 DEF Hilo, Suspension, TipoPcb
<1>8. /\ hilos' \subseteq Hilo /\ residente' \in [Pids -> BOOLEAN] /\ en_io' \subseteq Pids
      /\ desalojo \subseteq desalojo' /\ desalojo' \subseteq Pids
  BY <1>0, <1>1, <1>7, Tipos
<1>9. pc' \in [Pids -> Nat] /\ \A q \in Pids : pc[q] <= pc'[q]
  BY <1>0, <1>1, CumplidaBien
<1>10. /\ "BCK" \in {"BCK", "EXT"} /\ p \in desalojo' /\ hilo[p].paso = "fetch"
       /\ pcb'[p].esperando_io = TRUE
       /\ (\A h \in hilos : h \in hilos') /\ \A h \in hilos' : h.fase = "despierta" => h \in hilos
       /\ pcb'[p].estado = "BCK" /\ pcb'[p].prioridad = pcb[p].prioridad
       /\ \A h \in hilos' : Suspension(h) => h \in hilos
       /\ \A q \in Pids : residente'[q] = residente[q]
       /\ \A q \in Pids \ {p} : q \in en_io' <=> q \in en_io
  BY <1>1, <1>3, <1>4, <1>7
<1> QED
  BY <1>1, <1>4, <1>5, <1>6, <1>8, <1>9, <1>10, DejaCorrer

LEMMA PasoExit ==
    ASSUME IInv, NEW p \in Pids, Exit(p)
    PROVE  IInv'
<1> PICK v : v = ConEstado(pcb[p], "EXT")
  OBVIOUS
<1>0. TypeOK /\ pcb[p] \in TipoPcb
  BY Tipos DEF IInv
<1>1. /\ hilo[p].paso = "fetch" /\ pcb' = [pcb EXCEPT ![p] = v] /\ rnn' = Sin(rnn, p)
      /\ residente' = [residente EXCEPT ![p] = FALSE]
      /\ hilo' = [hilo EXCEPT ![p] = HiloFuera]
      /\ UNCHANGED <<niveles, s_rdy, desalojo, en_io, hilos, rondas, programa, pc, mutex>>
  BY DEF Exit, Ejecuta
<1>2. v \in TipoPcb /\ v.estado = "EXT" /\ v.prioridad = pcb[p].prioridad
      /\ v.esperando_io = pcb[p].esperando_io
  BY <1>0, ConEstadoBien DEF Estados
<1>3. /\ pcb' \in [Pids -> TipoPcb] /\ pcb'[p] = v /\ \A q \in Pids \ {p} : pcb'[q] = pcb[q]
  BY <1>0, <1>1, <1>2, PcbPasa
<1>4. /\ hilo' \in [Pids -> TipoHilo] /\ hilo'[p].paso = "fuera"
      /\ \A q \in Pids \ {p} : hilo'[q] = hilo[q]
  <2>1. HiloFuera \in TipoHilo /\ HiloFuera.paso = "fuera"
    BY DEF HiloFuera, TipoHilo, Pasos
  <2> QED
    BY <1>0, <1>1, <2>1, HiloPasa
<1>5. p \notin en_io' /\ pcb'[p].esperando_io = FALSE /\ \A m \in Mutexes : ~EnCola(p, m)
  <2>1. p \notin en_io /\ ~pcb[p].esperando_io /\ \A m \in Mutexes : ~EnCola(p, m)
    BY <1>1, DuenioEspera
  <2>2. pcb[p].esperando_io \in BOOLEAN
    BY <1>0 DEF TipoPcb
  <2> QED
    BY <1>1, <1>2, <1>3, <2>1, <2>2
<1>6. /\ hilos' \subseteq Hilo /\ residente' \in [Pids -> BOOLEAN] /\ en_io' \subseteq Pids
      /\ pc' \in [Pids -> Nat] /\ desalojo \subseteq desalojo' /\ desalojo' \subseteq Pids
      /\ \A q \in Pids : pc[q] <= pc'[q]
      /\ \A q \in Pids \ {p} : residente'[q] = residente[q]
  BY <1>0, <1>1, Tipos
<1>7. /\ "EXT" \in {"BCK", "EXT"} /\ "EXT" # "BCK" /\ hilo[p].paso = "fetch"
      /\ (\A h \in hilos : h \in hilos') /\ \A h \in hilos' : h.fase = "despierta" => h \in hilos
      /\ pcb'[p].estado = "EXT" /\ pcb'[p].prioridad = pcb[p].prioridad
      /\ \A h \in hilos' : Suspension(h) => h \in hilos
      /\ \A q \in Pids \ {p} : q \in en_io' <=> q \in en_io
  BY <1>1, <1>2, <1>3
<1> QED
  BY <1>1, <1>3, <1>4, <1>5, <1>6, <1>7, DejaCorrer

-----------------------------------------------------------------------------
(* A process enters READY from RAM *)

LEMMA EntraEnReady ==
    ASSUME IInv, NEW x \in Pids, Estado(x) = "NEW",
           pcb' = [pcb EXCEPT ![x] = ConEstado(@, "RDY")],
           niveles' = [niveles EXCEPT ![pcb[x].prioridad] = Append(@, x)],
           UNCHANGED <<rnn, s_rdy, en_io, hilos, rondas, residente, programa, mutex>>,
           desalojo' \subseteq Pids, pc' \in [Pids -> Nat], hilo' \in [Pids -> TipoHilo],
           \A q \in Pids : \/ hilo'[q] = hilo[q]
                           \/ hilo[q].paso = "fetch" /\ hilo'[q].paso = "interrupt"
    PROVE  /\ TypeOK' /\ Colas' /\ Listas' /\ Plazos' /\ HerenciaJusta'
           /\ Estado(x)' = "RDY" /\ pcb'[x].esperando_io = pcb[x].esperando_io
           /\ \A q \in Pids \ {x} : pcb'[q] = pcb[q]
           /\ \A q \in Pids : \A m \in Mutexes : EnCola(q, m)' <=> EnCola(q, m)
<1> PICK v : v = ConEstado(pcb[x], "RDY")
  OBVIOUS
<1>0. /\ TypeOK /\ Colas /\ Plazos /\ HerenciaJusta /\ ListaNiveles /\ ListaRnn /\ ListaSRdy
      /\ pcb[x] \in TipoPcb /\ Estado(x) # "RDY" /\ Estado(x) # "S_RDY"
  BY Tipos DEF IInv, Listas
<1>1. /\ v \in TipoPcb /\ v.estado = "RDY" /\ v.prioridad = pcb[x].prioridad
      /\ v.esperando_io = pcb[x].esperando_io
  BY <1>0, ConEstadoBien DEF Estados
<1>2. /\ pcb' \in [Pids -> TipoPcb] /\ pcb'[x] = v /\ \A q \in Pids \ {x} : pcb'[q] = pcb[q]
  <2>1. pcb' = [pcb EXCEPT ![x] = v]
    OBVIOUS
  <2> QED
    BY <1>0, <1>1, <2>1, PcbPasa
<1>3. /\ \A q \in Pids \ {x} : Estado(q)' = Estado(q) /\ pcb'[q].prioridad = pcb[q].prioridad
      /\ Estado(x)' = "RDY" /\ pcb'[x].prioridad = pcb[x].prioridad
      /\ pcb'[x].esperando_io = pcb[x].esperando_io
  BY <1>1, <1>2 DEF Estado
<1>l. /\ \A q \in Pids \ {x} : (EnReady(q)' <=> EnReady(q)) /\ (EnRunning(q)' <=> EnRunning(q))
      /\ ~EnReady(x) /\ EnReady(x)' /\ ~EnRunning(x) /\ ~EnRunning(x)'
  <2>1. hilo[x].paso = "fuera" /\ hilo'[x] = hilo[x]
    BY DEF IInv, Cpus, EnSuCpu, EnCpu
  <2>2. ~EnReady(x) /\ EnReady(x)' /\ ~EnRunning(x) /\ ~EnRunning(x)'
    BY <1>3, <2>1 DEF EnReady, EnRunning
  <2>3. ASSUME NEW q \in Pids \ {x}
        PROVE  (EnReady(q)' <=> EnReady(q)) /\ (EnRunning(q)' <=> EnRunning(q))
    <3>1. pcb'[q] = pcb[q]
      BY <1>2
    <3>2. hilo'[q] = hilo[q] \/ (hilo[q].paso = "fetch" /\ hilo'[q].paso = "interrupt")
      OBVIOUS
    <3> QED
      BY <3>1, <3>2 DEF EnReady, EnRunning, Estado
  <2> QED
    BY <2>2, <2>3
<1>4. ListaNiveles' /\ niveles' \in [0 .. Niveles - 1 -> Seq(Pids)]
  BY <1>0, <1>3, <1>l, NivelesEntra
<1>5. ListaRnn' /\ rnn' \in Seq(Pids)
  <2>1. \A q \in Pids : EnRunning(q)' <=> EnRunning(q)
    BY <1>l
  <2> QED
    BY <1>0, <2>1, RnnIgual, Tipos
<1>6. ListaSRdy'
  <2>1. \A q \in Pids : Estado(q)' = "S_RDY" <=> Estado(q) = "S_RDY"
    BY <1>0, <1>3
  <2> QED
    BY <1>0, <2>1, QuitadoIgual, SRdyIgual
<1>7. TypeOK'
  BY <1>0, <1>2, <1>4, <1>5 DEF TypeOK, PlanTypeOK, TipoHilo, TipoMutex, TipoPcb
<1>8. Colas' /\ \A q \in Pids : \A m \in Mutexes : EnCola(q, m)' <=> EnCola(q, m)
  BY <1>0, ColasSiguen
<1>9. HerenciaJusta'
  BY <1>0, <1>3, HerenciaSigue
<1>10. Plazos'
  <2>1. ASSUME NEW q \in Pids
        PROVE  \/ Estado(q)' = Estado(q) /\ residente'[q] = residente[q]
               \/ /\ Estado(q) \in EnRamEstados /\ Estado(q)' \in EnRamEstados
                  /\ residente'[q] = residente[q]
    BY <1>3 DEF EnRamEstados
  <2> QED
    BY <1>0, <2>1, PlazosSiguen
<1> QED
  BY <1>2, <1>3, <1>4, <1>5, <1>6, <1>7, <1>8, <1>9, <1>10 DEF Listas

\* A process that is new waits for nothing, and nobody knows of it.
LEMMA NuevoEnNada ==
    ASSUME IInv, NEW p \in Pids, Estado(p) = "NEW"
    PROVE  /\ ~EnCpu(p) /\ ~pcb[p].esperando_io /\ p \notin en_io
           /\ \A m \in Mutexes : ~EnCola(p, m)
           /\ ~PorDespertar(p)
<1>1. EnSuCpu(p) /\ EsperaBien(p)
  BY DEF IInv, Cpus, Esperas
<1>2. ~EnCpu(p)
  BY <1>1 DEF EnSuCpu
<1>3. ~pcb[p].esperando_io /\ p \notin en_io /\ \A m \in Mutexes : ~EnCola(p, m)
  BY <1>1, <1>2 DEF EsperaBien, EnCpu
<1>4. ~PorDespertar(p)
  BY <1>1, <1>2 DEF EsperaBien, EnCpu
<1> QED
  BY <1>2, <1>3, <1>4

\* A new process enters READY while at most one CPU ends its instruction.
LEMMA EsperasConNuevoListo ==
    ASSUME IInv, NEW x \in Pids, Estado(x) = "NEW", Estado(x)' = "RDY",
           pcb'[x].esperando_io = pcb[x].esperando_io,
           \A q \in Pids \ {x} : pcb'[q] = pcb[q],
           \A q \in Pids : \A m \in Mutexes : EnCola(q, m)' <=> EnCola(q, m),
           UNCHANGED <<en_io, hilos>>,
           \A q \in Pids : \/ hilo'[q] = hilo[q]
                           \/ hilo[q].paso = "fetch" /\ hilo'[q].paso = "interrupt",
           desalojo \subseteq desalojo'
    PROVE  Cpus' /\ Esperas'
<1>0. Cpus /\ Esperas
  BY DEF IInv
<1>1. /\ ~EnCpu(x) /\ ~pcb[x].esperando_io /\ x \notin en_io
      /\ \A m \in Mutexes : ~EnCola(x, m)
      /\ ~PorDespertar(x)
  BY NuevoEnNada
<1>2. \A q \in Pids \ {x} : Estado(q)' = Estado(q)
  BY DEF Estado
<1>3. hilo'[x] = hilo[x]
  BY <1>1 DEF EnCpu
<1>4. Cpus'
  <2>1. ASSUME NEW q \in Pids \ {x} PROVE EnSuCpu(q)'
    <3>1. EnSuCpu(q)
      BY <1>0 DEF Cpus
    <3>2. CASE hilo'[q] = hilo[q]
      <4>1. Queda(q)
        BY <3>2 DEF Queda
      <4> QED
        BY <3>1, <4>1, EnSuCpuSigue
    <3>3. CASE hilo[q].paso = "fetch" /\ hilo'[q].paso = "interrupt"
      BY <1>2, <3>1, <3>3 DEF EnSuCpu, EnCpu
    <3> QED
      BY <3>2, <3>3
  <2>2. EnSuCpu(x)'
    BY <1>1, <1>3 DEF EnSuCpu, EnCpu
  <2> QED
    BY <2>1, <2>2 DEF Cpus
<1>5. ASSUME NEW q \in Pids PROVE PorDespertar(q)' <=> PorDespertar(q)
  <2>1. ASSUME NEW t \in Pids
        PROVE  \/ hilo'[t] = hilo[t]
               \/ hilo[t].paso # "despierta" /\ hilo'[t].paso # "despierta"
    OBVIOUS
  <2> QED
    BY <2>1, PorDespertarIgual
<1>7. Esperas'
  <2>1. ASSUME NEW q \in Pids \ {x} PROVE EsperaBien(q)'
    <3>1. /\ EsperaBien(q) /\ EnSuCpu(q) /\ pcb'[q].esperando_io = pcb[q].esperando_io
          /\ pcb'[q].estado = pcb[q].estado
      BY <1>0 DEF Esperas, Cpus
    <3>3. CASE hilo'[q] = hilo[q]
      BY <1>5, <3>1, <3>3, EsperaSigue
    <3>4. CASE hilo[q].paso = "fetch" /\ hilo'[q].paso = "interrupt"
      BY <1>2, <1>5, <3>1, <3>4 DEF EsperaBien, EnSuCpu, EnCpu
    <3> QED
      BY <3>3, <3>4
  <2>2. EsperaBien(x)'
    BY <1>1, <1>3, <1>5 DEF EsperaBien, EnCpu
  <2> QED
    BY <2>1, <2>2 DEF Esperas
<1> QED
  BY <1>4, <1>7

LEMMA ListoBien ==
    ASSUME TypeOK, NEW p, NEW q \in Pids, desalojo' = desalojo \cup {q} \cup
               (IF Preemption THEN Victima(pcb, p) ELSE {})
    PROVE  desalojo \subseteq desalojo' /\ desalojo' \subseteq Pids /\ q \in desalojo'
BY VictimaBien, Tipos

LEMMA PasoCrearInicial ==
    ASSUME IInv, CrearInicial
    PROVE  IInv'
<1>0. TypeOK /\ Nacen /\ Primero \in Pids
  BY MutexAssumption DEF IInv
<1>1. /\ Estado(Primero) = "NEW"
      /\ pcb' = [pcb EXCEPT ![Primero] = ConEstado(@, "RDY")]
      /\ niveles' = [niveles EXCEPT ![pcb[Primero].prioridad] = Append(@, Primero)]
      /\ desalojo' = desalojo \cup (IF Preemption THEN Victima(pcb, Primero) ELSE {})
      /\ UNCHANGED <<rnn, s_rdy, en_io, hilos, rondas, residente, programa, pc, hilo, mutex>>
  BY DEF CrearInicial, Listo
<1>2. /\ desalojo \subseteq desalojo' /\ desalojo' \subseteq Pids
      /\ pc' \in [Pids -> Nat] /\ hilo' \in [Pids -> TipoHilo]
  BY <1>0, <1>1, VictimaBien, Tipos
<1>3. /\ TypeOK' /\ Colas' /\ Listas' /\ Plazos' /\ HerenciaJusta'
      /\ Estado(Primero)' = "RDY" /\ pcb'[Primero].esperando_io = pcb[Primero].esperando_io
      /\ \A q \in Pids \ {Primero} : pcb'[q] = pcb[q]
      /\ \A q \in Pids : \A m \in Mutexes : EnCola(q, m)' <=> EnCola(q, m)
  BY <1>0, <1>1, <1>2, EntraEnReady
<1>4. Cpus' /\ Esperas'
  BY <1>0, <1>1, <1>2, <1>3, EsperasConNuevoListo
<1>5. Nacen'
  <2> SUFFICES ASSUME NEW p \in Pids, NEW k \in DOMAIN programa[p], k > pc[p],
                      programa[p][k].op = "INIT_PROC"
               PROVE  pcb'[programa[p][k].hijo].estado = "NEW"
    BY <1>1 DEF Nacen, Estado
  <2>1. programa[p] \in Seq(Instruccion)
    BY <1>0, InstruccionBien
  <2>2. programa[p][k] \in Instruccion
    BY <2>1
  <2>3. programa[p][k].hijo \in Pids \ {Primero}
    BY <2>2 DEF Instruccion
  <2>4. pcb[programa[p][k].hijo].estado = "NEW"
    BY <1>0 DEF Nacen, Estado
  <2> QED
    BY <1>3, <2>3, <2>4
<1> QED
  BY <1>3, <1>4, <1>5 DEF IInv

LEMMA PasoInitProc ==
    ASSUME IInv, NEW p \in Pids, InitProc(p)
    PROVE  IInv'
<1> PICK h : h = Actual(p).hijo
  OBVIOUS
<1>0. TypeOK /\ Nacen
  BY DEF IInv
<1>1. /\ hilo[p].paso = "fetch" /\ Actual(p).op = "INIT_PROC"
      /\ pcb' = [pcb EXCEPT ![h] = ConEstado(@, "RDY")]
      /\ niveles' = [niveles EXCEPT ![pcb[h].prioridad] = Append(@, h)]
      /\ desalojo' = desalojo \cup {p} \cup (IF Preemption THEN Victima(pcb, h) ELSE {})
      /\ pc' = [pc EXCEPT ![p] = @ + 1]
      /\ hilo' = [hilo EXCEPT ![p].paso = "interrupt"]
      /\ UNCHANGED <<rnn, s_rdy, en_io, hilos, rondas, residente, programa, mutex>>
  BY DEF InitProc, Cumplida, Sigue, Ejecuta
<1>2. /\ programa[p] \in Seq(Instruccion) /\ pc[p] + 1 \in DOMAIN programa[p]
      /\ programa[p][pc[p] + 1].op = "INIT_PROC" /\ programa[p][pc[p] + 1].hijo = h
      /\ h \in Pids /\ pc[p] \in Nat
  BY <1>0, <1>1, InstruccionBien
<1>3. Estado(h) = "NEW"
  BY <1>0, <1>2 DEF Nacen
<1>4. desalojo \subseteq desalojo' /\ desalojo' \subseteq Pids
  BY <1>0, <1>1, ListoBien
<1>5. pc' \in [Pids -> Nat] /\ \A q \in Pids : pc[q] <= pc'[q]
  BY <1>0, <1>1, CumplidaBien
<1>6. /\ hilo' \in [Pids -> TipoHilo] /\ hilo'[p].paso = "interrupt"
      /\ \A q \in Pids \ {p} : hilo'[q] = hilo[q]
  BY <1>0, <1>1, HiloEnPaso DEF Pasos
<1>7. /\ TypeOK' /\ Colas' /\ Listas' /\ Plazos' /\ HerenciaJusta'
      /\ Estado(h)' = "RDY" /\ pcb'[h].esperando_io = pcb[h].esperando_io
      /\ \A q \in Pids \ {h} : pcb'[q] = pcb[q]
      /\ \A q \in Pids : \A m \in Mutexes : EnCola(q, m)' <=> EnCola(q, m)
  <2>1. \A q \in Pids : \/ hilo'[q] = hilo[q]
                        \/ hilo[q].paso = "fetch" /\ hilo'[q].paso = "interrupt"
    BY <1>1, <1>6
  <2> QED
    BY <1>1, <1>2, <1>3, <1>4, <1>5, <1>6, <2>1, EntraEnReady
<1>8. Cpus' /\ Esperas'
  <2>1. \A q \in Pids : \/ hilo'[q] = hilo[q]
                        \/ hilo[q].paso = "fetch" /\ hilo'[q].paso = "interrupt"
    BY <1>1, <1>6
  <2> QED
    BY <1>1, <1>2, <1>3, <1>4, <1>7, <2>1, EsperasConNuevoListo
<1>9. Nacen'
  <2> SUFFICES ASSUME NEW q \in Pids, NEW k \in DOMAIN programa[q], k > pc'[q],
                      programa[q][k].op = "INIT_PROC"
               PROVE  pcb'[programa[q][k].hijo].estado = "NEW"
    BY <1>1 DEF Nacen, Estado
  <2>1. /\ programa[q] \in Seq(Instruccion) /\ k \in Nat /\ pc[q] \in Nat /\ pc'[q] \in Nat
        /\ pc[q] <= pc'[q]
    BY <1>0, <1>5, InstruccionBien
  <2>2. programa[q][k] \in Instruccion
    BY <2>1
  <2>3. /\ programa[q][k].hijo \in Pids
        /\ programa[q][k] = [op |-> "INIT_PROC", hijo |-> programa[q][k].hijo]
    BY <2>2 DEF Instruccion
  <2>4. pcb[programa[q][k].hijo].estado = "NEW"
    BY <1>0, <2>1 DEF Nacen, Estado
  <2>5. programa[q][k].hijo # h
    <3> SUFFICES ASSUME programa[q][k].hijo = h PROVE FALSE
      OBVIOUS
    <3>1. programa[p][pc[p] + 1] \in Instruccion
      BY <1>2
    <3>2. programa[p][pc[p] + 1] = [op |-> "INIT_PROC", hijo |-> h]
      BY <1>2, <3>1 DEF Instruccion
    <3>3. programa[p][pc[p] + 1] = programa[q][k]
      BY <2>3, <3>2
    <3>4. PidsNuevos(programa)
      BY <1>0, MutexAssumption DEF TypeOK
    <3>5. p = q /\ pc[p] + 1 = k
      BY <1>2, <3>3, <3>4 DEF PidsNuevos
    <3>6. pc'[p] = pc[p] + 1
      BY <1>0, <1>1, Tipos
    <3> QED
      BY <1>2, <2>1, <3>5, <3>6
  <2> QED
    BY <1>7, <2>3, <2>4, <2>5
<1> QED
  BY <1>7, <1>8, <1>9 DEF IInv

-----------------------------------------------------------------------------
(* The calls by which mutex_lock blocks a process and desalojo takes it to READY *)

\* The change of state, which touches no list.
LEMMA CambiaDeEstado ==
    ASSUME IInv, NEW p \in Pids, NEW x \in {"BCK", "RDY"},
           pcb' = [pcb EXCEPT ![p] = ConEstado(@, x)],
           hilo' = [hilo EXCEPT ![p].paso = IF x = "BCK" THEN "bloqueado" ELSE "listo"],
           hilo[p].paso = IF x = "BCK" THEN "encolado" ELSE "vuelve",
           UNCHANGED <<niveles, rnn, s_rdy, desalojo, en_io, hilos, rondas, residente,
                       programa, pc, mutex>>
    PROVE  IInv'
<1> PICK v : v = ConEstado(pcb[p], x)
  OBVIOUS
<1> PICK y : y = IF x = "BCK" THEN "bloqueado" ELSE "listo"
  OBVIOUS
<1>0. /\ TypeOK /\ Nacen /\ Cpus /\ Colas /\ Esperas /\ Listas /\ Plazos /\ HerenciaJusta
      /\ ListaNiveles /\ ListaRnn /\ ListaSRdy
  BY DEF IInv, Listas
<1>1. EnSuCpu(p) /\ EsperaBien(p) /\ pcb[p] \in TipoPcb
  BY <1>0, Tipos DEF Cpus, Esperas
<1>2. /\ EnCpu(p)
      /\ x = "BCK" => Estado(p) = "RNN"
      /\ x = "RDY" => Estado(p) = "RNN" \/ (Estado(p) = "BCK" /\ ~pcb[p].esperando_io)
  BY <1>1 DEF EnSuCpu, EnCpu
<1>3. /\ v \in TipoPcb /\ v.estado = x /\ v.anterior = Estado(p)
      /\ v.prioridad = pcb[p].prioridad /\ v.esperando_io = pcb[p].esperando_io
  BY <1>1, ConEstadoBien DEF Estado, Estados
<1>4. /\ pcb' \in [Pids -> TipoPcb] /\ pcb'[p] = v /\ \A q \in Pids \ {p} : pcb'[q] = pcb[q]
  <2>1. pcb' = [pcb EXCEPT ![p] = v]
    OBVIOUS
  <2> QED
    BY <1>0, <1>3, <2>1, PcbPasa
<1>5. /\ hilo' \in [Pids -> TipoHilo] /\ hilo'[p].paso = y /\ hilo'[p].otro = hilo[p].otro
      /\ \A q \in Pids \ {p} : hilo'[q] = hilo[q]
  <2>1. y \in Pasos /\ hilo' = [hilo EXCEPT ![p].paso = y]
    BY DEF Pasos
  <2> QED
    BY <1>0, <2>1, HiloEnPaso
<1>6. /\ \A q \in Pids \ {p} : Queda(q) /\ Estado(q)' = Estado(q)
      /\ Estado(p)' = x
      /\ \A q \in Pids : pcb'[q].prioridad = pcb[q].prioridad
  BY <1>3, <1>4, <1>5 DEF Queda, Estado
<1>7. ASSUME NEW q \in Pids
      PROVE  (EnReady(q)' <=> EnReady(q)) /\ (EnRunning(q)' <=> EnRunning(q))
  <2>1. CASE q # p
    BY <1>6, <2>1, QuedaEnListas
  <2>2. CASE q = p
    <3>1. pcb'[p].anterior = Estado(p)
      BY <1>3, <1>4
    <3>2. ~EnReady(p) /\ ~EnReady(p)'
      BY <1>2, <1>5, <1>6 DEF EnReady
    <3>3. EnRunning(p)' <=> EnRunning(p)
      BY <1>2, <1>5, <1>6, <3>1 DEF EnRunning
    <3> QED
      BY <2>2, <3>2, <3>3
  <2> QED
    BY <2>1, <2>2
<1>8. TypeOK'
  BY <1>0, <1>4, <1>5 DEF TypeOK, PlanTypeOK, TipoHilo, TipoMutex, TipoPcb
<1>9. Nacen'
  <2>1. \A q \in Pids : Estado(q) = "NEW" => Estado(q)' = "NEW"
    BY <1>2, <1>6
  <2>2. pc' \in [Pids -> Nat] /\ \A q \in Pids : pc[q] <= pc'[q]
    BY <1>0, Tipos
  <2> QED
    BY <1>0, <2>1, <2>2, NacenSigue
<1>10. Cpus'
  <2>1. ASSUME NEW q \in Pids \ {p} PROVE EnSuCpu(q)'
    BY <1>0, <1>4, <1>6, EnSuCpuSigue DEF Cpus
  <2>2. EnSuCpu(p)'
    BY <1>2, <1>3, <1>4, <1>5, <1>6 DEF EnSuCpu, EnCpu
  <2> QED
    BY <2>1, <2>2 DEF Cpus
<1>11. /\ Colas'
       /\ \A q \in Pids : \A m \in Mutexes : EnCola(q, m)' <=> EnCola(q, m)
  BY <1>0, ColasSiguen
<1>12. HerenciaJusta'
  BY <1>0, <1>6, HerenciaSigue
<1>13. Esperas'
  <2>1. ASSUME NEW q \in Pids PROVE PorDespertar(q)' <=> PorDespertar(q)
    <3>1. ASSUME NEW t \in Pids
          PROVE  \/ hilo'[t] = hilo[t]
                 \/ hilo[t].paso # "despierta" /\ hilo'[t].paso # "despierta"
      BY <1>5
    <3> QED
      BY <3>1, PorDespertarIgual
  <2>2. ASSUME NEW q \in Pids \ {p} PROVE EsperaBien(q)'
    <3>1. /\ EsperaBien(q) /\ hilo'[q] = hilo[q] /\ pcb'[q].estado = pcb[q].estado
          /\ pcb'[q].esperando_io = pcb[q].esperando_io
      BY <1>0, <1>4, <1>5 DEF Esperas
    <3> QED
      BY <1>11, <2>1, <3>1, EsperaSigue
  <2>3. EsperaBien(p)'
    <3>1. /\ EnCpu(p)' /\ hilo'[p].paso \notin {"encolado", "despierta"}
          /\ Estado(p)' = x /\ pcb'[p].esperando_io = pcb[p].esperando_io
      BY <1>3, <1>4, <1>5, <1>6 DEF EnCpu
    <3>2. x = "RDY" => ~pcb[p].esperando_io
      BY <1>1, <1>2 DEF EsperaBien
    <3>3. p \in en_io => x = "BCK"
      BY <1>1, <3>2 DEF EsperaBien
    <3> QED
      BY <1>1, <1>11, <2>1, <3>1, <3>2, <3>3 DEF EsperaBien
  <2> QED
    BY <2>2, <2>3 DEF Esperas
<1>14. Listas'
  <2>1. ListaNiveles'
    BY <1>0, <1>6, <1>7, NivelesIguales
  <2>2. ListaRnn'
    BY <1>0, <1>7, RnnIgual
  <2>3. ListaSRdy'
    <3>1. \A q \in Pids : Estado(q)' = "S_RDY" <=> Estado(q) = "S_RDY"
      BY <1>2, <1>6
    <3> QED
      BY <1>0, <3>1, QuitadoIgual, SRdyIgual
  <2> QED
    BY <2>1, <2>2, <2>3 DEF Listas
<1>15. Plazos'
  <2>1. ASSUME NEW q \in Pids
        PROVE  \/ Estado(q)' = Estado(q) /\ residente'[q] = residente[q]
               \/ /\ Estado(q) \in EnRamEstados /\ Estado(q)' \in EnRamEstados
                  /\ residente'[q] = residente[q]
    BY <1>2, <1>6 DEF EnRamEstados
  <2> QED
    BY <1>0, <2>1, PlazosSiguen
<1> QED
  BY <1>8, <1>9, <1>10, <1>11, <1>12, <1>13, <1>14, <1>15 DEF IInv

LEMMA PasoBloquear ==
    ASSUME IInv, NEW p \in Pids, Bloquear(p) \/ Volver(p)
    PROVE  IInv'
<1>1. CASE Bloquear(p)
  <2> DEFINE x == "BCK"
  <2>1. /\ pcb' = [pcb EXCEPT ![p] = ConEstado(@, x)]
        /\ hilo' = [hilo EXCEPT ![p].paso = IF x = "BCK" THEN "bloqueado" ELSE "listo"]
        /\ hilo[p].paso = IF x = "BCK" THEN "encolado" ELSE "vuelve"
        /\ UNCHANGED <<niveles, rnn, s_rdy, desalojo, en_io, hilos, rondas, residente,
                       programa, pc, mutex>>
    BY <1>1 DEF Bloquear, Sigue
  <2>2. x \in {"BCK", "RDY"}
    OBVIOUS
  <2> HIDE DEF x
  <2> QED
    BY <2>1, <2>2, CambiaDeEstado
<1>2. CASE Volver(p)
  <2> DEFINE x == "RDY"
  <2>1. /\ pcb' = [pcb EXCEPT ![p] = ConEstado(@, x)]
        /\ hilo' = [hilo EXCEPT ![p].paso = IF x = "BCK" THEN "bloqueado" ELSE "listo"]
        /\ hilo[p].paso = IF x = "BCK" THEN "encolado" ELSE "vuelve"
        /\ UNCHANGED <<niveles, rnn, s_rdy, desalojo, en_io, hilos, rondas, residente,
                       programa, pc, mutex>>
    BY <1>2 DEF Volver, Sigue
  <2>2. x \in {"BCK", "RDY"}
    OBVIOUS
  <2> HIDE DEF x
  <2> QED
    BY <2>1, <2>2, CambiaDeEstado
<1> QED
  BY <1>1, <1>2

\* The steps between that change and the end of what follows from it.
LEMMA PasoEnTransito ==
    ASSUME IInv, NEW p \in Pids, NEW x \in {"agregado", "marca", "sale", "fuera"},
           hilo' = [hilo EXCEPT ![p].paso = x],
           \/ hilo[p].paso \in {"bloqueado", "agregado"} /\ x \in {"agregado", "marca"}
           \/ hilo[p].paso \in {"listo", "sale"} /\ x \in {"sale", "fuera"},
           UNCHANGED <<pcb, s_rdy, en_io, hilos, rondas, residente, programa, pc, mutex>>,
           desalojo \subseteq desalojo', desalojo' \subseteq Pids,
           niveles' \in [0 .. Niveles - 1 -> Seq(Pids)], rnn' \in Seq(Pids),
           ListaNiveles', ListaRnn'
    PROVE  IInv'
<1>0. /\ TypeOK /\ Nacen /\ Cpus /\ Colas /\ Esperas /\ Plazos /\ HerenciaJusta /\ ListaSRdy
      /\ EnSuCpu(p) /\ EsperaBien(p)
  BY DEF IInv, Listas, Cpus, Esperas
<1>1. /\ hilo' \in [Pids -> TipoHilo] /\ hilo'[p].paso = x /\ hilo'[p].otro = hilo[p].otro
      /\ \A q \in Pids \ {p} : hilo'[q] = hilo[q]
  BY <1>0, HiloEnPaso DEF Pasos
<1>2. /\ \A q \in Pids : Estado(q)' = Estado(q)
      /\ \A q \in Pids \ {p} : Queda(q)
  BY <1>1 DEF Estado, Queda
<1>3. TypeOK'
  BY <1>0, <1>1 DEF TypeOK, PlanTypeOK, TipoHilo, TipoMutex, TipoPcb
<1>4. Nacen'
  <2>1. pc' \in [Pids -> Nat] /\ \A q \in Pids : pc[q] <= pc'[q]
    BY <1>0, Tipos
  <2> QED
    BY <1>0, <1>2, <2>1, NacenSigue
<1>5. Cpus'
  <2>1. ASSUME NEW q \in Pids \ {p} PROVE EnSuCpu(q)'
    BY <1>0, <1>2, EnSuCpuSigue DEF Cpus
  <2>2. EnSuCpu(p)'
    BY <1>0, <1>1, <1>2 DEF EnSuCpu, EnCpu
  <2> QED
    BY <2>1, <2>2 DEF Cpus
<1>6. /\ Colas' /\ HerenciaJusta'
      /\ \A q \in Pids : \A m \in Mutexes : EnCola(q, m)' <=> EnCola(q, m)
  BY <1>0, ColasSiguen, HerenciaSigue
<1>7. Esperas'
  <2>1. ASSUME NEW q \in Pids PROVE PorDespertar(q)' <=> PorDespertar(q)
    <3>1. ASSUME NEW t \in Pids
          PROVE  \/ hilo'[t] = hilo[t]
                 \/ hilo[t].paso # "despierta" /\ hilo'[t].paso # "despierta"
      BY <1>1
    <3> QED
      BY <3>1, PorDespertarIgual
  <2>2. ASSUME NEW q \in Pids \ {p} PROVE EsperaBien(q)'
    <3>1. EsperaBien(q) /\ hilo'[q] = hilo[q]
      BY <1>0, <1>1 DEF Esperas
    <3> QED
      BY <1>6, <2>1, <3>1, EsperaSigue
  <2>3. EsperaBien(p)'
    <3>1. /\ hilo[p].paso # "encolado" /\ x # "encolado" /\ x # "despierta"
          /\ x = "fuera" => Estado(p) = "RDY"
          /\ EnCpu(p)' <=> x # "fuera"
      BY <1>0, <1>1 DEF EnSuCpu, EnCpu
    <3> QED
      BY <1>0, <1>1, <1>2, <1>6, <2>1, <3>1 DEF EsperaBien
  <2> QED
    BY <2>2, <2>3 DEF Esperas
<1>8. Listas'
  <2>1. ListaSRdy'
    BY <1>0, <1>2, QuitadoIgual, SRdyIgual
  <2> QED
    BY <2>1 DEF Listas
<1>9. Plazos'
  BY <1>0, <1>2, PlazosSiguen
<1> QED
  BY <1>3, <1>4, <1>5, <1>6, <1>7, <1>8, <1>9 DEF IInv

LEMMA PasoAgregar ==
    ASSUME IInv, NEW p \in Pids, Agregar(p)
    PROVE  IInv'
<1>0. TypeOK /\ ListaNiveles /\ ListaRnn /\ EnSuCpu(p)
  BY DEF IInv, Listas, Cpus
<1>1. /\ niveles \in [0 .. Niveles - 1 -> Seq(Pids)] /\ rnn \in Seq(Pids)
      /\ desalojo \subseteq Pids
  BY <1>0, Tipos
<1>2. UNCHANGED <<pcb, rnn, en_io, hilos, rondas, residente, programa, pc, mutex>>
  BY DEF Agregar
<1> DEFINE x == IF hilo[p].paso = "listo" THEN "sale" ELSE "agregado"
<1>3. /\ hilo' = [hilo EXCEPT ![p].paso = x] /\ hilo[p].paso \in {"bloqueado", "listo"}
  BY DEF Agregar, Sigue
<1>4. /\ hilo'[p].paso = x /\ \A q \in Pids \ {p} : hilo'[q] = hilo[q]
  <2>1. x \in Pasos
    BY DEF Pasos
  <2> HIDE DEF x
  <2> QED
    BY <1>0, <1>3, <2>1, HiloEnPaso
<1>5. \A q \in Pids \ {p} : (EnReady(q)' <=> EnReady(q)) /\ (EnRunning(q)' <=> EnRunning(q))
  <2>1. \A q \in Pids \ {p} : Queda(q)
    BY <1>2, <1>4 DEF Queda
  <2> QED
    BY <2>1, QuedaEnListas
<1>6. (EnRunning(p)' <=> EnRunning(p)) /\ Estado(p)' = Estado(p)
  BY <1>0, <1>2, <1>3, <1>4 DEF EnRunning, EnSuCpu, Estado
<1>7. ListaRnn'
  <2>1. \A q \in Pids : EnRunning(q)' <=> EnRunning(q)
    BY <1>5, <1>6
  <2> QED
    BY <1>0, <1>2, <2>1, RnnIgual
<1>8. CASE hilo[p].paso = "bloqueado"
  <2>1. Estado(p) = "BCK"
    BY <1>0, <1>8 DEF EnSuCpu
  <2>2. UNCHANGED <<niveles, desalojo, s_rdy>>
    BY <2>1 DEF Agregar, AgregarALista
  <2>3. ListaNiveles'
    <3>1. \A q \in Pids : EnReady(q)' <=> EnReady(q)
      BY <1>5, <1>6, <2>1 DEF EnReady
    <3> QED
      BY <1>0, <1>2, <2>2, <3>1, NivelesIguales
  <2>4. x = "agregado"
    BY <1>8
  <2> HIDE DEF x
  <2>5. x \in {"agregado", "marca", "sale", "fuera"}
    BY <2>4
  <2> QED
    BY <1>1, <1>2, <1>3, <1>7, <1>8, <2>2, <2>3, <2>4, <2>5, PasoEnTransito
<1>9. CASE hilo[p].paso = "listo"
  <2>1. Estado(p) = "RDY"
    BY <1>0, <1>9 DEF EnSuCpu
  <2>2. /\ niveles' = [niveles EXCEPT ![pcb[p].prioridad] = Append(@, p)]
        /\ desalojo' = desalojo \cup (IF Preemption THEN Victima(pcb, p) ELSE {})
        /\ UNCHANGED s_rdy
    BY <2>1 DEF Agregar, AgregarALista, Listo
  <2>3. ~EnReady(p) /\ EnReady(p)'
    BY <1>4, <1>6, <1>9, <2>1 DEF EnReady
  <2>4. ListaNiveles' /\ niveles' \in [0 .. Niveles - 1 -> Seq(Pids)]
    BY <1>0, <1>2, <1>5, <2>2, <2>3, NivelesEntra
  <2>5. desalojo \subseteq desalojo' /\ desalojo' \subseteq Pids
    BY <1>0, <1>1, <2>2, VictimaBien
  <2>6. x = "sale"
    BY <1>9
  <2> HIDE DEF x
  <2>7. x \in {"agregado", "marca", "sale", "fuera"}
    BY <2>6
  <2> QED
    BY <1>1, <1>2, <1>3, <1>7, <1>9, <2>2, <2>4, <2>5, <2>6, <2>7, PasoEnTransito
<1> QED
  BY <1>3, <1>8, <1>9

LEMMA PasoEliminar ==
    ASSUME IInv, NEW p \in Pids, Eliminar(p)
    PROVE  IInv'
<1>0. TypeOK /\ ListaNiveles /\ ListaRnn /\ EnSuCpu(p)
  BY DEF IInv, Listas, Cpus
<1>1. /\ niveles \in [0 .. Niveles - 1 -> Seq(Pids)] /\ rnn \in Seq(Pids)
      /\ desalojo \subseteq Pids
  BY <1>0, Tipos
<1> DEFINE x == IF hilo[p].paso = "sale" THEN "fuera" ELSE "marca"
<1>2. /\ hilo' = [hilo EXCEPT ![p].paso = x] /\ hilo[p].paso \in {"agregado", "sale"}
      /\ UNCHANGED <<pcb, desalojo, en_io, hilos, rondas, residente, programa, pc, mutex>>
  BY DEF Eliminar, Sigue
<1>3. /\ pcb[p].anterior \in {"RNN", "BCK"}
      /\ hilo[p].paso = "agregado" => pcb[p].anterior = "RNN" /\ Estado(p) = "BCK"
      /\ hilo[p].paso = "sale" => Estado(p) = "RDY"
  BY <1>0, <1>2 DEF EnSuCpu
<1>4. /\ UNCHANGED <<niveles, s_rdy>>
      /\ rnn' = IF pcb[p].anterior = "RNN" THEN Sin(rnn, p) ELSE rnn
  BY <1>3 DEF Eliminar, EliminarDeLista
<1>5. /\ hilo'[p].paso = x /\ \A q \in Pids \ {p} : hilo'[q] = hilo[q]
  <2>1. x \in Pasos
    BY DEF Pasos
  <2> HIDE DEF x
  <2> QED
    BY <1>0, <1>2, <2>1, HiloEnPaso
<1>6. \A q \in Pids \ {p} : (EnReady(q)' <=> EnReady(q)) /\ (EnRunning(q)' <=> EnRunning(q))
  <2>1. \A q \in Pids \ {p} : Queda(q)
    BY <1>2, <1>5 DEF Queda
  <2> QED
    BY <2>1, QuedaEnListas
<1>7. /\ ~EnRunning(p)' /\ (EnReady(p)' <=> EnReady(p))
      /\ EnRunning(p) <=> pcb[p].anterior = "RNN"
  <2>1. Estado(p)' = Estado(p)
    BY <1>2 DEF Estado
  <2> QED
    BY <1>2, <1>3, <1>5, <2>1 DEF EnRunning, EnReady
<1>8. ListaNiveles'
  <2>1. \A q \in Pids : EnReady(q)' <=> EnReady(q)
    BY <1>6, <1>7
  <2> QED
    BY <1>0, <1>2, <1>4, <2>1, NivelesIguales
<1>9. ListaRnn' /\ rnn' \in Seq(Pids)
  <2>1. CASE pcb[p].anterior = "RNN"
    BY <1>0, <1>4, <1>6, <1>7, <2>1, RnnSale
  <2>2. CASE pcb[p].anterior # "RNN"
    <3>1. \A q \in Pids : EnRunning(q)' <=> EnRunning(q)
      BY <1>6, <1>7, <2>2
    <3> QED
      BY <1>0, <1>1, <1>4, <2>2, <3>1, RnnIgual
  <2> QED
    BY <2>1, <2>2
<1>10. /\ x \in {"agregado", "marca", "sale", "fuera"}
       /\ \/ hilo[p].paso \in {"bloqueado", "agregado"} /\ x \in {"agregado", "marca"}
          \/ hilo[p].paso \in {"listo", "sale"} /\ x \in {"sale", "fuera"}
  BY <1>2
<1> HIDE DEF x
<1> QED
  BY <1>1, <1>2, <1>4, <1>8, <1>9, <1>10, PasoEnTransito

-----------------------------------------------------------------------------
(* mediano_plazo_rdy: a process is woken *)

LEMMA Despierta ==
    ASSUME IInv, NEW q \in Pids, ~EnTransito(q), PorDespertar(q), MedianoPlazoRdy(q),
           UNCHANGED <<rnn, en_io, rondas, residente, programa, pc, mutex>>,
           hilo' \in [Pids -> TipoHilo], hilos' \subseteq hilos,
           \A h \in hilos : h \in hilos' \/ (h.pid = q /\ h.fase = "despierta"),
           \A p \in Pids : \/ hilo'[p] = hilo[p]
                           \/ /\ hilo[p] = [paso |-> "despierta", otro |-> q]
                              /\ hilo'[p].paso = "marca"
    PROVE  IInv'
<1>0. /\ TypeOK /\ Nacen /\ Cpus /\ Colas /\ Esperas /\ Listas /\ Plazos /\ HerenciaJusta
      /\ ListaNiveles /\ ListaRnn /\ ListaSRdy /\ EsperaBien(q) /\ EnSuCpu(q)
      /\ pcb[q] \in TipoPcb
  BY Tipos DEF IInv, Listas, Esperas, Cpus
<1>1. /\ ~pcb[q].esperando_io /\ q \notin en_io /\ \A m \in Mutexes : ~EnCola(q, m)
  BY <1>0 DEF EsperaBien
<1>2. /\ pcb' \in [Pids -> TipoPcb] /\ \A p \in Pids \ {q} : pcb'[p] = pcb[p]
      /\ pcb'[q].esperando_io = pcb[q].esperando_io /\ pcb'[q].prioridad = pcb[q].prioridad
      /\ pcb'[q].estado = CASE Estado(q) = "BCK" -> "RDY" [] Estado(q) = "S_BCK" -> "S_RDY"
                            [] OTHER -> Estado(q)
      /\ Estado(q) \notin {"BCK", "S_BCK"} => pcb' = pcb
  <2>1. ASSUME NEW x \in Estados, pcb' = [pcb EXCEPT ![q] = ConEstado(@, x)]
        PROVE  /\ pcb' \in [Pids -> TipoPcb] /\ \A p \in Pids \ {q} : pcb'[p] = pcb[p]
               /\ pcb'[q].esperando_io = pcb[q].esperando_io
               /\ pcb'[q].prioridad = pcb[q].prioridad /\ pcb'[q].estado = x
    <3> PICK v : v = ConEstado(pcb[q], x)
      OBVIOUS
    <3>1. /\ v \in TipoPcb /\ v.estado = x /\ v.prioridad = pcb[q].prioridad
          /\ v.esperando_io = pcb[q].esperando_io
      BY <1>0, ConEstadoBien
    <3>2. pcb' = [pcb EXCEPT ![q] = v]
      BY <2>1
    <3> QED
      BY <1>0, <3>1, <3>2, PcbPasa
  <2>2. CASE Estado(q) = "BCK"
    <3>1. pcb' = [pcb EXCEPT ![q] = ConEstado(@, "RDY")] /\ "RDY" \in Estados
      BY <2>2 DEF MedianoPlazoRdy, Estados
    <3> QED
      BY <2>1, <2>2, <3>1
  <2>3. CASE Estado(q) = "S_BCK"
    <3>1. pcb' = [pcb EXCEPT ![q] = ConEstado(@, "S_RDY")] /\ "S_RDY" \in Estados
      BY <2>3 DEF MedianoPlazoRdy, Estados
    <3> QED
      BY <2>1, <2>3, <3>1
  <2>4. CASE Estado(q) \notin {"BCK", "S_BCK"}
    <3>1. pcb' = pcb
      BY <2>4 DEF MedianoPlazoRdy
    <3> QED
      BY <1>0, <2>4, <3>1, Tipos DEF Estado
  <2> QED
    BY <2>2, <2>3, <2>4
<1>3. /\ \A p \in Pids \ {q} : Estado(p)' = Estado(p)
      /\ Estado(q) = "BCK" => Estado(q)' = "RDY"
      /\ Estado(q) = "S_BCK" => Estado(q)' = "S_RDY"
      /\ Estado(q) \notin {"BCK", "S_BCK"} => Estado(q)' = Estado(q)
      /\ \A p \in Pids : /\ pcb'[p].prioridad = pcb[p].prioridad
                         /\ pcb'[p].esperando_io = pcb[p].esperando_io
  BY <1>2 DEF Estado
<1>4. ASSUME NEW p \in Pids, hilo'[p] # hilo[p]
      PROVE  /\ hilo[p].paso = "despierta" /\ hilo[p].otro = q /\ hilo'[p].paso = "marca"
             /\ p # q /\ Estado(p) = "RNN"
  <2>1. EnSuCpu(p) /\ EsperaBien(p)
    BY <1>0 DEF Cpus, Esperas
  <2>2. hilo[p].paso = "despierta" /\ hilo[p].otro = q /\ hilo'[p].paso = "marca"
    BY <1>4
  <2>3. Estado(p) = "RNN"
    BY <2>1, <2>2 DEF EnSuCpu
  <2>4. p # q
    BY <2>1, <2>2, <2>3 DEF EsperaBien
  <2> QED
    BY <2>2, <2>3, <2>4
<1>5. /\ hilo'[q] = hilo[q]
      /\ Estado(q) = "BCK" => hilo[q].paso \in {"fuera", "marca", "interrupt", "guarda"}
      /\ Estado(q) = "S_BCK" => hilo[q].paso = "fuera"
  <2>1. hilo'[q] = hilo[q]
    BY <1>4
  <2>2. hilo[q].paso \in Pasos
    BY <1>0, Tipos DEF TipoHilo
  <2>3. Estado(q) = "S_BCK" => hilo[q].paso = "fuera"
    BY <1>0 DEF EnSuCpu, EnCpu
  <2>4. Estado(q) = "BCK" =>
            hilo[q].paso \notin {"fetch", "encolado", "despierta", "listo", "sale",
                                 "bloqueado", "agregado", "vuelve"}
    BY <1>0 DEF EnSuCpu, EnTransito
  <2> QED
    BY <2>1, <2>2, <2>3, <2>4 DEF Pasos
<1>6. ASSUME NEW p \in Pids
      PROVE  /\ EnRunning(p)' <=> EnRunning(p)
             /\ p # q \/ Estado(q) # "BCK" => (EnReady(p)' <=> EnReady(p))
  <2>1. CASE p # q
    <3>1. pcb'[p] = pcb[p]
      BY <1>2, <2>1
    <3>2. CASE hilo'[p] = hilo[p]
      BY <3>1, <3>2 DEF EnReady, EnRunning, Estado
    <3>3. CASE hilo'[p] # hilo[p]
      <4>1. hilo[p].paso = "despierta" /\ hilo'[p].paso = "marca"
        BY <1>4, <3>3
      <4> QED
        BY <3>1, <4>1 DEF EnReady, EnRunning, Estado
    <3> QED
      BY <3>2, <3>3
  <2>2. CASE p = q /\ Estado(q) \in {"BCK", "S_BCK"}
    <3>1. ~EnRunning(q)' /\ ~EnRunning(q)
      BY <1>3, <1>5, <2>2 DEF EnRunning
    <3>2. Estado(q) # "BCK" => ~EnReady(q)' /\ ~EnReady(q)
      BY <1>3, <2>2 DEF EnReady
    <3> QED
      BY <2>2, <3>1, <3>2
  <2>3. CASE p = q /\ Estado(q) \notin {"BCK", "S_BCK"}
    <3>1. Queda(q)
      BY <1>2, <1>5, <2>3 DEF Queda
    <3> QED
      BY <2>3, <3>1, QuedaEnListas
  <2> QED
    BY <2>1, <2>2, <2>3
<1>7. /\ ListaNiveles' /\ ListaSRdy' /\ niveles' \in [0 .. Niveles - 1 -> Seq(Pids)]
      /\ s_rdy' \in Seq(Pids) /\ desalojo \subseteq desalojo' /\ desalojo' \subseteq Pids
  <2>1. CASE Estado(q) = "BCK"
    <3>1. /\ niveles' = [niveles EXCEPT ![pcb[q].prioridad] = Append(@, q)]
          /\ desalojo' = desalojo \cup (IF Preemption THEN Victima(pcb, q) ELSE {})
          /\ UNCHANGED s_rdy
      BY <2>1 DEF MedianoPlazoRdy, Listo
    <3>2. ~EnReady(q) /\ EnReady(q)'
      BY <1>3, <1>5, <2>1 DEF EnReady
    <3>3. ListaNiveles' /\ niveles' \in [0 .. Niveles - 1 -> Seq(Pids)]
      BY <1>0, <1>3, <1>6, <3>1, <3>2, NivelesEntra
    <3>4. \A p \in Pids : Estado(p)' = "S_RDY" <=> Estado(p) = "S_RDY"
      BY <1>3, <2>1
    <3>5. ListaSRdy' /\ s_rdy' \in Seq(Pids)
      BY <1>0, <3>1, <3>4, QuitadoIgual, SRdyIgual, Tipos
    <3>6. desalojo \subseteq desalojo' /\ desalojo' \subseteq Pids
      BY <1>0, <3>1, Tipos, VictimaBien
    <3> QED
      BY <3>3, <3>5, <3>6
  <2>2. CASE Estado(q) = "S_BCK"
    <3>1. /\ s_rdy' = Append(s_rdy, q)
          /\ UNCHANGED <<niveles, desalojo>>
      BY <2>2 DEF MedianoPlazoRdy
    <3>2. ListaSRdy' /\ s_rdy' \in Seq(Pids)
      <4>1. \A p \in Pids \ {q} : Estado(p)' = "S_RDY" <=> Estado(p) = "S_RDY"
        BY <1>3
      <4> QED
        BY <1>0, <1>3, <2>2, <3>1, <4>1, SRdyEntra
    <3>3. \A p \in Pids : EnReady(p)' <=> EnReady(p)
      BY <1>6, <2>2
    <3> QED
      BY <1>0, <1>3, <3>1, <3>2, <3>3, NivelesIguales, Tipos
  <2>3. CASE Estado(q) \notin {"BCK", "S_BCK"}
    <3>1. UNCHANGED <<niveles, s_rdy, desalojo>>
      BY <2>3 DEF MedianoPlazoRdy
    <3>2. /\ \A p \in Pids : Estado(p)' = Estado(p)
          /\ \A p \in Pids : EnReady(p)' <=> EnReady(p)
      BY <1>3, <1>6, <2>3
    <3> QED
      BY <1>0, <1>3, <3>1, <3>2, NivelesIguales, SRdyIgual, QuitadoIgual, Tipos
  <2> QED
    BY <2>1, <2>2, <2>3
<1>8. ListaRnn'
  BY <1>0, <1>6, RnnIgual
<1>9. TypeOK'
  <2>1. hilos' \subseteq Hilo
    BY <1>0, Tipos
  <2> QED
    BY <1>0, <1>2, <1>7, <2>1 DEF TypeOK, PlanTypeOK, TipoHilo, TipoMutex, TipoPcb
<1>10. Nacen'
  <2>1. \A p \in Pids : Estado(p) = "NEW" => Estado(p)' = "NEW"
    BY <1>3
  <2>2. pc' \in [Pids -> Nat] /\ \A p \in Pids : pc[p] <= pc'[p]
    BY <1>0, Tipos
  <2> QED
    BY <1>0, <2>1, <2>2, NacenSigue
<1>11. Cpus'
  <2>1. ASSUME NEW p \in Pids \ {q} PROVE EnSuCpu(p)'
    <3>1. EnSuCpu(p) /\ pcb'[p] = pcb[p]
      BY <1>0, <1>2 DEF Cpus
    <3>2. CASE hilo'[p] = hilo[p]
      <4>1. Queda(p)
        BY <3>1, <3>2 DEF Queda
      <4> QED
        BY <1>7, <3>1, <4>1, EnSuCpuSigue
    <3>3. CASE hilo'[p] # hilo[p]
      <4>1. Estado(p)' = "RNN" /\ hilo'[p].paso = "marca"
        BY <1>4, <3>1, <3>3 DEF Estado
      <4> QED
        BY <4>1 DEF EnSuCpu, EnCpu
    <3> QED
      BY <3>2, <3>3
  <2>2. EnSuCpu(q)'
    <3>1. CASE Estado(q) = "BCK"
      BY <1>0, <1>3, <1>5, <1>7, <3>1 DEF EnSuCpu, EnCpu
    <3>2. CASE Estado(q) = "S_BCK"
      BY <1>3, <1>5, <3>2 DEF EnSuCpu, EnCpu
    <3>3. CASE Estado(q) \notin {"BCK", "S_BCK"}
      <4>1. Queda(q) /\ pcb'[q] = pcb[q]
        BY <1>2, <1>5, <3>3 DEF Queda
      <4> QED
        BY <1>0, <1>7, <4>1, EnSuCpuSigue
    <3> QED
      BY <3>1, <3>2, <3>3
  <2> QED
    BY <2>1, <2>2 DEF Cpus
<1>12. /\ Colas' /\ HerenciaJusta'
       /\ \A p \in Pids : \A m \in Mutexes : EnCola(p, m)' <=> EnCola(p, m)
  BY <1>0, <1>3, ColasSiguen, HerenciaSigue
<1>13. Plazos'
  <2>1. ASSUME NEW p \in Pids
        PROVE  \/ Estado(p)' = Estado(p) /\ residente'[p] = residente[p]
               \/ /\ Estado(p) \in EnRamEstados /\ Estado(p)' \in EnRamEstados
                  /\ residente'[p] = residente[p]
               \/ Estado(p) = "S_BCK" /\ Estado(p)' = "S_RDY" /\ residente'[p] = residente[p]
    BY <1>3 DEF EnRamEstados
  <2> QED
    BY <1>0, <2>1, PlazosSiguen
<1>14. Esperas'
  <2>1. ASSUME NEW p \in Pids \ {q} PROVE PorDespertar(p)' <=> PorDespertar(p)
    <3>1. ASSUME NEW t \in Pids
          PROVE  hilo'[t] = [paso |-> "despierta", otro |-> p]
                   <=> hilo[t] = [paso |-> "despierta", otro |-> p]
      <4>1. CASE hilo'[t] = hilo[t]
        BY <4>1
      <4>2. CASE hilo'[t] # hilo[t]
        BY <1>4, <4>2
      <4> QED
        BY <4>1, <4>2
    <3>2. ASSUME NEW h, h.pid = p PROVE h \in hilos' <=> h \in hilos
      BY <3>2
    <3> QED
      BY <3>1, <3>2 DEF PorDespertar
  <2>2. ASSUME NEW p \in Pids \ {q} PROVE EsperaBien(p)'
    <3>1. /\ EsperaBien(p) /\ pcb'[p] = pcb[p]
      BY <1>0, <1>2 DEF Esperas
    <3>2. CASE hilo'[p] = hilo[p]
      BY <1>12, <2>1, <3>1, <3>2, EsperaSigue
    <3>3. CASE hilo'[p] # hilo[p]
      <4>1. /\ Estado(p) = "RNN" /\ Estado(p)' = "RNN"
            /\ hilo[p].paso = "despierta" /\ hilo'[p].paso = "marca"
        BY <1>4, <3>1, <3>3 DEF Estado
      <4> QED
        BY <1>12, <2>1, <3>1, <4>1 DEF EsperaBien
    <3> QED
      BY <3>2, <3>3
  <2>3. EsperaBien(q)'
    <3>1. ~pcb'[q].esperando_io /\ q \notin en_io' /\ \A m \in Mutexes : ~EnCola(q, m)'
      BY <1>1, <1>3, <1>12
    <3>2. /\ Estado(q)' \notin {"BCK", "S_BCK"}
          /\ Estado(q)' \in {"RDY", "S_RDY"} \/ hilo'[q].paso = "encolado"
      BY <1>0, <1>3, <1>5 DEF EsperaBien
    <3>3. hilo'[q].paso = "despierta" => hilo'[q].otro \in Pids
      BY <1>0, <1>5 DEF EsperaBien
    <3> QED
      BY <3>1, <3>2, <3>3 DEF EsperaBien
  <2> QED
    BY <2>2, <2>3 DEF Esperas
<1> QED
  BY <1>7, <1>8, <1>9, <1>10, <1>11, <1>12, <1>13, <1>14 DEF IInv, Listas

LEMMA PasoDespertar ==
    ASSUME IInv, NEW q \in Pids, DespertarOrdenado(q)
    PROVE  IInv'
<1>0. TypeOK /\ hilo \in [Pids -> TipoHilo] /\ ~EnTransito(q)
  BY Tipos DEF IInv, DespertarOrdenado
<1>1. CASE \E p \in Pids : hilo[p].otro = q /\ Despertar(p)
  <2> PICK p \in Pids : hilo[p].otro = q /\ Despertar(p)
    BY <1>1
  <2>1. /\ MedianoPlazoRdy(q) /\ hilo[p].paso = "despierta"
        /\ hilo' = [hilo EXCEPT ![p] = [paso |-> "marca", otro |-> Nadie]]
        /\ UNCHANGED <<rnn, en_io, hilos, rondas, residente, programa, pc, mutex>>
    BY DEF Despertar
  <2>2. hilo[p] = [paso |-> "despierta", otro |-> q]
    BY <1>0, <2>1 DEF TipoHilo
  <2>3. PorDespertar(q)
    BY <2>2 DEF PorDespertar
  <2>4. /\ hilo' \in [Pids -> TipoHilo] /\ hilo'[p].paso = "marca"
        /\ \A x \in Pids \ {p} : hilo'[x] = hilo[x]
    <3>1. [paso |-> "marca", otro |-> Nadie] \in TipoHilo
      BY DEF TipoHilo, Pasos
    <3> QED
      BY <1>0, <2>1, <3>1, HiloPasa
  <2>5. \A x \in Pids : \/ hilo'[x] = hilo[x]
                        \/ /\ hilo[x] = [paso |-> "despierta", otro |-> q]
                           /\ hilo'[x].paso = "marca"
    BY <2>2, <2>4
  <2>6. hilos' \subseteq hilos /\ \A h \in hilos : h \in hilos'
    BY <2>1
  <2> QED
    BY <1>0, <2>1, <2>3, <2>4, <2>5, <2>6, Despierta
<1>2. CASE \E h \in hilos : /\ h.pid = q /\ DespertarDeIO(h)
                            /\ UNCHANGED <<programa, pc, hilo, mutex>>
  <2> PICK h \in hilos : /\ h.pid = q /\ DespertarDeIO(h)
                         /\ UNCHANGED <<programa, pc, hilo, mutex>>
    BY <1>2
  <2>1. /\ MedianoPlazoRdy(q) /\ h.fase = "despierta" /\ hilos' = hilos \ {h}
        /\ UNCHANGED <<rnn, en_io, rondas, residente, programa, pc, mutex>>
    BY DEF DespertarDeIO
  <2>2. PorDespertar(q)
    BY <2>1 DEF PorDespertar
  <2>3. hilos' \subseteq hilos
    BY <2>1
  <2>4. \A g \in hilos : g \in hilos' \/ (g.pid = q /\ g.fase = "despierta")
    BY <2>1
  <2>5. hilo' \in [Pids -> TipoHilo] /\ \A x \in Pids : hilo'[x] = hilo[x]
    BY <1>0
  <2> QED
    BY <1>0, <2>1, <2>2, <2>3, <2>4, <2>5, Despierta
<1> QED
  BY <1>1, <1>2 DEF DespertarOrdenado, Despertado

\* The thread that hears of its device has yet to wake the process.
LEMMA PasoFinDeIO ==
    ASSUME IInv, NEW q \in Pids, FinDeIO(q)
    PROVE  IInv'
<1> PICK h : h = [pid |-> q, nacio |-> pcb[q].version, fase |-> "despierta", version |-> 0]
  OBVIOUS
<1>0. /\ TypeOK /\ Nacen /\ Cpus /\ Colas /\ Esperas /\ Listas /\ Plazos /\ HerenciaJusta
      /\ ListaNiveles /\ ListaRnn /\ ListaSRdy /\ EsperaBien(q) /\ pcb[q] \in TipoPcb
  BY Tipos DEF IInv, Listas, Esperas
<1>1. /\ q \in en_io /\ en_io' = en_io \ {q}
      /\ pcb' = [pcb EXCEPT ![q].esperando_io = FALSE] /\ hilos' = hilos \cup {h}
      /\ UNCHANGED <<niveles, rnn, s_rdy, desalojo, rondas, residente, programa, pc, hilo,
                     mutex>>
  BY DEF FinDeIO, FinIO
<1>2. /\ pcb' \in [Pids -> TipoPcb] /\ \A p \in Pids \ {q} : pcb'[p] = pcb[p]
      /\ ~pcb'[q].esperando_io /\ pcb'[q].estado = pcb[q].estado
      /\ pcb'[q].anterior = pcb[q].anterior /\ pcb'[q].prioridad = pcb[q].prioridad
  <2>1. pcb \in [Pids -> TipoPcb]
    BY <1>0, Tipos
  <2> QED
    BY <1>1, <2>1 DEF TipoPcb
<1>3. /\ h \in Hilo /\ h.pid = q /\ h.fase = "despierta" /\ ~Suspension(h)
  BY <1>0 DEF Hilo, TipoPcb, Suspension
<1>4. /\ \A p \in Pids : Queda(p) /\ Estado(p)' = Estado(p)
      /\ \A p \in Pids : pcb'[p].prioridad = pcb[p].prioridad
  BY <1>1, <1>2 DEF Queda, Estado
<1>5. TypeOK'
  <2>1. en_io' \subseteq Pids /\ hilos' \subseteq Hilo
    BY <1>0, <1>1, <1>3, Tipos
  <2> QED
    BY <1>0, <1>1, <1>2, <2>1 DEF TypeOK, PlanTypeOK, TipoPcb
<1>6. Nacen'
  <2>1. pc' \in [Pids -> Nat] /\ \A p \in Pids : pc[p] <= pc'[p]
    BY <1>0, <1>1, Tipos
  <2> QED
    BY <1>0, <1>1, <1>4, <2>1, NacenSigue
<1>7. Cpus'
  <2>1. ASSUME NEW p \in Pids PROVE EnSuCpu(p)'
    <3>1. pcb'[p].esperando_io => pcb[p].esperando_io
      BY <1>2
    <3> QED
      BY <1>0, <1>1, <1>4, <3>1, EnSuCpuSigue DEF Cpus
  <2> QED
    BY <2>1 DEF Cpus
<1>8. /\ Colas' /\ HerenciaJusta'
      /\ \A p \in Pids : \A m \in Mutexes : EnCola(p, m)' <=> EnCola(p, m)
  BY <1>0, <1>1, <1>4, ColasSiguen, HerenciaSigue
<1>9. Listas'
  <2>1. \A p \in Pids : (EnReady(p)' <=> EnReady(p)) /\ (EnRunning(p)' <=> EnRunning(p))
    BY <1>4, QuedaEnListas
  <2>2. ListaNiveles'
    BY <1>0, <1>1, <1>4, <2>1, NivelesIguales
  <2>3. ListaRnn'
    BY <1>0, <1>1, <2>1, RnnIgual
  <2>4. ListaSRdy'
    BY <1>0, <1>1, <1>4, QuitadoIgual, SRdyIgual
  <2> QED
    BY <2>2, <2>3, <2>4 DEF Listas
<1>10. Plazos'
  <2>1. \A g \in hilos' : Suspension(g) => g \in hilos
    BY <1>1, <1>3
  <2> QED
    BY <1>0, <1>1, <1>4, <2>1, PlazosSiguen
<1>11. Esperas'
  <2>1. ASSUME NEW p \in Pids \ {q} PROVE EsperaBien(p)'
    <3>1. PorDespertar(p)' <=> PorDespertar(p)
      BY <1>1, <1>3 DEF PorDespertar
    <3>2. EsperaBien(p) /\ pcb'[p] = pcb[p] /\ (p \in en_io' <=> p \in en_io)
      BY <1>0, <1>1, <1>2 DEF Esperas
    <3> QED
      BY <1>1, <1>8, <3>1, <3>2, EsperaSigue
  <2>2. EsperaBien(q)'
    <3>1. PorDespertar(q)'
      BY <1>1, <1>3 DEF PorDespertar
    <3>2. /\ Estado(q)' \in {"BCK", "S_BCK"} /\ \A m \in Mutexes : ~EnCola(q, m)'
          /\ q \notin en_io' /\ hilo'[q] = hilo[q]
      BY <1>0, <1>1, <1>4, <1>8 DEF EsperaBien
    <3>3. hilo'[q].paso = "despierta" => hilo'[q].otro \in Pids
      BY <1>0, <1>1 DEF EsperaBien
    <3> QED
      BY <1>2, <3>1, <3>2, <3>3 DEF EsperaBien
  <2> QED
    BY <2>1, <2>2 DEF Esperas
<1> QED
  BY <1>5, <1>6, <1>7, <1>8, <1>9, <1>10, <1>11 DEF IInv

-----------------------------------------------------------------------------
(* A process takes a CPU *)

LEMMA PasoDespachar ==
    ASSUME IInv, NEW p \in Pids, ~PorDespertar(p), Despachar(p)
    PROVE  IInv'
<1> PICK v : v = ConEstado(pcb[p], "RNN")
  OBVIOUS
<1>0. /\ TypeOK /\ Nacen /\ Cpus /\ Colas /\ Esperas /\ Listas /\ Plazos /\ HerenciaJusta
      /\ ListaNiveles /\ ListaRnn /\ ListaSRdy /\ EsperaBien(p) /\ pcb[p] \in TipoPcb
      /\ EnSuCpu(p)
  BY Tipos DEF IInv, Listas, Esperas, Cpus
<1>1. /\ ~EnCpu(p)
      /\ pcb' = [pcb EXCEPT ![p] = v] /\ rnn' = Append(rnn, p) /\ desalojo' = desalojo \ {p}
      /\ hilo' = [hilo EXCEPT ![p].paso = "fetch"]
      /\ UNCHANGED <<s_rdy, en_io, hilos, rondas, residente, programa, pc, mutex>>
  BY DEF Despachar, Sigue
<1>2. PICK n \in DOMAIN niveles : /\ niveles[n] # <<>> /\ Head(niveles[n]) = p
                                  /\ niveles' = [niveles EXCEPT ![n] = Tail(@)]
  BY DEF Despachar
<1>3. /\ v \in TipoPcb /\ v.estado = "RNN" /\ v.prioridad = pcb[p].prioridad
      /\ v.esperando_io = pcb[p].esperando_io
  BY <1>0, ConEstadoBien DEF Estados
<1>4. /\ pcb' \in [Pids -> TipoPcb] /\ pcb'[p] = v /\ \A q \in Pids \ {p} : pcb'[q] = pcb[q]
  BY <1>0, <1>1, <1>3, PcbPasa
<1>5. /\ \A q \in Pids \ {p} : Estado(q)' = Estado(q) /\ pcb'[q].prioridad = pcb[q].prioridad
      /\ Estado(p)' = "RNN" /\ pcb'[p].prioridad = pcb[p].prioridad
      /\ \A q \in Pids : pcb'[q].esperando_io = pcb[q].esperando_io
  BY <1>3, <1>4 DEF Estado
<1>6. /\ hilo' \in [Pids -> TipoHilo] /\ hilo'[p].paso = "fetch"
      /\ \A q \in Pids \ {p} : hilo'[q] = hilo[q]
  BY <1>0, <1>1, HiloEnPaso DEF Pasos
<1>l. /\ \A q \in Pids \ {p} : Queda(q)
      /\ \A q \in Pids \ {p} : (EnReady(q)' <=> EnReady(q)) /\ (EnRunning(q)' <=> EnRunning(q))
      /\ ~EnReady(p)' /\ EnRunning(p)'
  <2>1. \A q \in Pids \ {p} : Queda(q)
    BY <1>4, <1>6 DEF Queda
  <2>2. ~EnReady(p)' /\ EnRunning(p)'
    BY <1>5, <1>6 DEF EnReady, EnRunning
  <2> QED
    BY <2>1, <2>2, QuedaEnListas
<1>7. ListaNiveles' /\ niveles' \in [0 .. Niveles - 1 -> Seq(Pids)] /\ Estado(p) = "RDY"
  <2>1. ListaNiveles' /\ niveles' \in [0 .. Niveles - 1 -> Seq(Pids)] /\ EnReady(p)
    BY <1>0, <1>2, <1>5, <1>l, NivelesSale
  <2> QED
    BY <2>1 DEF EnReady
<1>8. ListaRnn' /\ rnn' \in Seq(Pids)
  <2>1. ~EnRunning(p)
    BY <1>1, <1>7 DEF EnRunning, EnCpu
  <2> QED
    BY <1>0, <1>1, <1>l, <2>1, RnnEntra
<1>9. ListaSRdy'
  <2>1. \A q \in Pids : Estado(q)' = "S_RDY" <=> Estado(q) = "S_RDY"
    BY <1>5, <1>7
  <2> QED
    BY <1>0, <1>1, <2>1, QuitadoIgual, SRdyIgual
<1>10. TypeOK'
  BY <1>0, <1>1, <1>4, <1>6, <1>7, <1>8 DEF TypeOK, PlanTypeOK, TipoHilo, TipoMutex, TipoPcb
<1>11. Nacen'
  <2>1. \A q \in Pids : Estado(q) = "NEW" => Estado(q)' = "NEW"
    BY <1>5, <1>7
  <2>2. pc' \in [Pids -> Nat] /\ \A q \in Pids : pc[q] <= pc'[q]
    BY <1>0, <1>1, Tipos
  <2> QED
    BY <1>0, <1>1, <2>1, <2>2, NacenSigue
<1>12. Cpus'
  <2>1. ASSUME NEW q \in Pids \ {p} PROVE EnSuCpu(q)'
    BY <1>0, <1>1, <1>5, <1>l, EnSuCpuSigue DEF Cpus
  <2>2. EnSuCpu(p)'
    BY <1>5, <1>6 DEF EnSuCpu, EnCpu
  <2> QED
    BY <2>1, <2>2 DEF Cpus
<1>13. /\ Colas' /\ HerenciaJusta'
       /\ \A q \in Pids : \A m \in Mutexes : EnCola(q, m)' <=> EnCola(q, m)
  BY <1>0, <1>1, <1>5, ColasSiguen, HerenciaSigue
<1>14. Plazos'
  <2>1. ASSUME NEW q \in Pids
        PROVE  \/ Estado(q)' = Estado(q) /\ residente'[q] = residente[q]
               \/ /\ Estado(q) \in EnRamEstados /\ Estado(q)' \in EnRamEstados
                  /\ residente'[q] = residente[q]
    BY <1>1, <1>5, <1>7 DEF EnRamEstados
  <2> QED
    BY <1>0, <1>1, <2>1, PlazosSiguen
<1>15. Esperas'
  <2>1. ASSUME NEW q \in Pids PROVE PorDespertar(q)' <=> PorDespertar(q)
    <3>1. ASSUME NEW t \in Pids
          PROVE  \/ hilo'[t] = hilo[t]
                 \/ hilo[t].paso # "despierta" /\ hilo'[t].paso # "despierta"
      BY <1>1, <1>6 DEF EnCpu
    <3> QED
      BY <1>1, <3>1, PorDespertarIgual
  <2>2. ASSUME NEW q \in Pids \ {p} PROVE EsperaBien(q)'
    <3>1. EsperaBien(q) /\ hilo'[q] = hilo[q] /\ pcb'[q] = pcb[q]
      BY <1>0, <1>4, <1>6 DEF Esperas
    <3> QED
      BY <1>1, <1>13, <2>1, <3>1, EsperaSigue
  <2>3. EsperaBien(p)'
    <3>1. ~pcb[p].esperando_io /\ p \notin en_io /\ \A m \in Mutexes : ~EnCola(p, m)
      BY <1>0, <1>1, <1>7 DEF EsperaBien, EnCpu
    <3>2. ~PorDespertar(p)'
      BY <2>1
    <3> QED
      BY <1>1, <1>5, <1>6, <1>13, <3>1, <3>2 DEF EsperaBien
  <2> QED
    BY <2>2, <2>3 DEF Esperas
<1> QED
  BY <1>7, <1>8, <1>9, <1>10, <1>11, <1>12, <1>13, <1>14, <1>15 DEF IInv, Listas

-----------------------------------------------------------------------------
(* The medium-term scheduler *)

\* The threads that are about to wake a process are the same.
AvisosIguales ==
    /\ \A h \in hilos : h.fase = "despierta" => h \in hilos'
    /\ \A h \in hilos' : h.fase = "despierta" => h \in hilos

LEMMA PorDespertarEnPlan ==
    ASSUME UNCHANGED hilo, AvisosIguales
    PROVE  \A p \in Pids : PorDespertar(p)' <=> PorDespertar(p)
<1>1. ASSUME NEW p \in Pids PROVE PorDespertar(p)' <=> PorDespertar(p)
  BY PorDespertarDeHilos DEF AvisosIguales
<1> QED
  BY <1>1

\* The lists of a process that is in no CPU.
LEMMA FueraDeCpu ==
    ASSUME NEW p \in Pids, ~EnCpu(p), UNCHANGED hilo,
           \A q \in Pids \ {p} : pcb'[q] = pcb[q]
    PROVE  /\ EnReady(p) <=> Estado(p) = "RDY"
           /\ EnReady(p)' <=> Estado(p)' = "RDY"
           /\ EnRunning(p) <=> Estado(p) = "RNN"
           /\ EnRunning(p)' <=> Estado(p)' = "RNN"
           /\ \A q \in Pids \ {p} :
                /\ Queda(q)
                /\ (EnReady(q)' <=> EnReady(q)) /\ (EnRunning(q)' <=> EnRunning(q))
<1>1. hilo[p].paso = "fuera" /\ hilo'[p].paso = "fuera"
  BY DEF EnCpu
<1>2. \A q \in Pids \ {p} : Queda(q)
  BY DEF Queda
<1> QED
  BY <1>1, <1>2, QuedaEnListas DEF EnReady, EnRunning

\* A step of its threads or rounds that changes the state of no process.
LEMMA PlanQuieto ==
    ASSUME IInv, UNCHANGED <<pcb, niveles, rnn, desalojo, en_io, programa, pc, hilo, mutex>>,
           s_rdy' \in Seq(Pids), hilos' \subseteq Hilo, rondas' \in [Rondas -> Ronda],
           residente' \in [Pids -> BOOLEAN], ListaSRdy', Plazos', AvisosIguales
    PROVE  IInv'
<1>0. /\ TypeOK /\ Nacen /\ Cpus /\ Colas /\ Esperas /\ HerenciaJusta
      /\ ListaNiveles /\ ListaRnn
  BY DEF IInv, Listas
<1>1. \A q \in Pids : Estado(q)' = Estado(q)
  BY DEF Estado
<1>2. TypeOK'
  BY <1>0 DEF TypeOK, PlanTypeOK
<1>3. Nacen'
  BY <1>0 DEF Nacen, Estado
<1>4. Cpus'
  BY <1>0 DEF Cpus, EnSuCpu, EnCpu, Estado
<1>5. /\ Colas' /\ HerenciaJusta'
      /\ \A q \in Pids : \A m \in Mutexes : EnCola(q, m)' <=> EnCola(q, m)
  BY <1>0, ColasSiguen, HerenciaSigue
<1>6. Esperas'
  <2>1. ASSUME NEW q \in Pids PROVE EsperaBien(q)'
    <3>1. EsperaBien(q)
      BY <1>0 DEF Esperas
    <3> QED
      BY <1>5, <3>1, PorDespertarEnPlan, EsperaSigue
  <2> QED
    BY <2>1 DEF Esperas
<1>7. Listas'
  <2>1. \A q \in Pids : (EnReady(q)' <=> EnReady(q)) /\ (EnRunning(q)' <=> EnRunning(q))
    BY QuedaEnListas DEF Queda
  <2> QED
    BY <1>0, <2>1, NivelesIguales, RnnIgual DEF Listas
<1> QED
  BY <1>2, <1>3, <1>4, <1>5, <1>6, <1>7 DEF IInv

\* A step that takes a process that is not in a CPU from one wait to another, or to READY.
LEMMA PlanConEstado ==
    ASSUME IInv, UNCHANGED <<rnn, en_io, programa, pc, hilo, mutex>>,
           NEW q \in Pids, NEW x \in {"BCK", "S_BCK", "RDY"}, ~EnCpu(q),
           \/ Estado(q) \in {"BCK", "S_BCK"}
           \/ Estado(q) = "S_RDY" /\ x = "RDY",
           pcb' = [pcb EXCEPT ![q] = ConEstado(@, x)],
           niveles' \in [0 .. Niveles - 1 -> Seq(Pids)], s_rdy' \in Seq(Pids),
           desalojo \subseteq desalojo', desalojo' \subseteq Pids,
           hilos' \subseteq Hilo, rondas' \in [Rondas -> Ronda], residente' \in [Pids -> BOOLEAN],
           x = "RDY" => ~pcb[q].esperando_io,
           ListaNiveles', ListaSRdy', Plazos', AvisosIguales
    PROVE  IInv'
<1> PICK v : v = ConEstado(pcb[q], x)
  OBVIOUS
<1>0. /\ TypeOK /\ Nacen /\ Cpus /\ Colas /\ Esperas /\ HerenciaJusta
      /\ ListaRnn /\ EsperaBien(q) /\ EnSuCpu(q) /\ pcb[q] \in TipoPcb
  BY Tipos DEF IInv, Listas, Cpus, Esperas
<1>1. /\ v \in TipoPcb /\ v.estado = x /\ v.prioridad = pcb[q].prioridad
      /\ v.esperando_io = pcb[q].esperando_io
  BY <1>0, ConEstadoBien DEF Estados
<1>2. /\ pcb' \in [Pids -> TipoPcb] /\ pcb'[q] = v /\ \A p \in Pids \ {q} : pcb'[p] = pcb[p]
  <2>1. pcb' = [pcb EXCEPT ![q] = v]
    OBVIOUS
  <2> QED
    BY <1>0, <1>1, <2>1, PcbPasa
<1>3. /\ \A p \in Pids \ {q} : Estado(p)' = Estado(p)
      /\ Estado(q)' = x
      /\ \A p \in Pids : /\ pcb'[p].prioridad = pcb[p].prioridad
                         /\ pcb'[p].esperando_io = pcb[p].esperando_io
  BY <1>1, <1>2 DEF Estado
<1>l. /\ \A p \in Pids \ {q} : Queda(p)
      /\ \A p \in Pids : EnRunning(p)' <=> EnRunning(p)
  <2>1. /\ EnRunning(q) <=> Estado(q) = "RNN"
        /\ EnRunning(q)' <=> Estado(q)' = "RNN"
        /\ \A p \in Pids \ {q} : Queda(p) /\ (EnRunning(p)' <=> EnRunning(p))
    BY <1>2, FueraDeCpu
  <2> QED
    BY <1>3, <2>1
<1>4. TypeOK'
  BY <1>0, <1>2 DEF TypeOK, PlanTypeOK, TipoHilo, TipoMutex, TipoPcb
<1>5. Nacen'
  <2>1. \A p \in Pids : Estado(p) = "NEW" => Estado(p)' = "NEW"
    BY <1>3
  <2>2. pc' \in [Pids -> Nat] /\ \A p \in Pids : pc[p] <= pc'[p]
    BY <1>0, Tipos
  <2> QED
    BY <1>0, <2>1, <2>2, NacenSigue
<1>6. Cpus'
  <2>1. ASSUME NEW p \in Pids \ {q} PROVE EnSuCpu(p)'
    BY <1>0, <1>3, <1>l, EnSuCpuSigue DEF Cpus
  <2>2. EnSuCpu(q)'
    BY <1>3 DEF EnSuCpu, EnCpu
  <2> QED
    BY <2>1, <2>2 DEF Cpus
<1>7. /\ Colas' /\ HerenciaJusta'
      /\ \A p \in Pids : \A m \in Mutexes : EnCola(p, m)' <=> EnCola(p, m)
  BY <1>0, <1>3, ColasSiguen, HerenciaSigue
<1>8. ListaRnn'
  BY <1>0, <1>l, RnnIgual
<1>9. Esperas'
  <2>1. \A p \in Pids : PorDespertar(p)' <=> PorDespertar(p)
    BY PorDespertarEnPlan
  <2>2. ASSUME NEW p \in Pids \ {q} PROVE EsperaBien(p)'
    <3>1. EsperaBien(p) /\ pcb'[p] = pcb[p]
      BY <1>0, <1>2 DEF Esperas
    <3> QED
      BY <1>7, <2>1, <3>1, EsperaSigue
  <2>3. EsperaBien(q)'
    <3>1. hilo[q].paso = "fuera" /\ hilo'[q].paso = "fuera" /\ ~EnCpu(q)'
      BY DEF EnCpu
    <3>2. Estado(q)' \in {"BCK", "S_BCK", "RDY"}
      BY <1>3
    <3>3. CASE x = "RDY"
      <4>1. ~pcb[q].esperando_io /\ q \notin en_io /\ \A m \in Mutexes : ~EnCola(q, m)
        BY <1>0, <3>3 DEF EsperaBien
      <4> QED
        BY <1>3, <1>7, <3>1, <3>2, <3>3, <4>1 DEF EsperaBien
    <3>4. CASE x # "RDY"
      <4>1. Estado(q) \in {"BCK", "S_BCK"} /\ Estado(q)' \in {"BCK", "S_BCK"}
        BY <1>3, <3>4
      <4> QED
        BY <1>0, <1>3, <1>7, <2>1, <3>1, <4>1 DEF EsperaBien
    <3> QED
      BY <3>3, <3>4
  <2> QED
    BY <2>2, <2>3 DEF Esperas
<1> QED
  BY <1>4, <1>5, <1>6, <1>7, <1>8, <1>9 DEF IInv, Listas

LEMMA RondaPasa ==
    ASSUME TypeOK, NEW r \in Rondas, NEW v \in Ronda, rondas' = [rondas EXCEPT ![r] = v]
    PROVE  /\ rondas' \in [Rondas -> Ronda] /\ rondas'[r] = v
           /\ \A t \in Rondas \ {r} : rondas'[t] = rondas[t]
BY Tipos

LEMMA RondaSigue ==
    ASSUME NEW r \in Rondas, RondaBien(r), rondas'[r] = rondas[r],
           NEW p, p = rondas[r].pid,
           p # Nadie =>
             /\ \A h \in hilos' : Suspension(h) => \E g \in hilos : g.pid = h.pid /\ Suspension(g)
             /\ pcb'[p].estado # "S_BCK"
             /\ pcb'[p].estado = "S_RDY" =>
                    pcb[p].estado = "S_RDY" /\ (residente[p] => residente'[p])
    PROVE  RondaBien(r)'
<1>1. p = rondas'[r].pid
  OBVIOUS
<1>2. ASSUME p # Nadie PROVE ~\E h \in hilos' : h.pid = p /\ h.fase \in {"avisa", "deshace"}
  BY <1>2 DEF RondaBien, SuspensionEnCurso, Suspension
<1> QED
  BY <1>1, <1>2 DEF RondaBien, SuspensionEnCurso, Estado

\* The medium-term scheduler leaves the CPUs and the mutexes alone.
LEMMA HiloBien ==
    ASSUME IInv, NEW h \in hilos
    PROVE  /\ h \in Hilo /\ h.pid \in Pids /\ h.pid # Nadie
           /\ Suspension(h) =>
                /\ Estado(h.pid) \in {"S_BCK", "S_RDY"} /\ residente[h.pid]
                /\ \A g \in hilos : Suspension(g) /\ g.pid = h.pid => g = h
                /\ \A r \in Rondas : rondas[r].pid # h.pid
<1>1. TypeOK /\ Plazos
  BY DEF IInv
<1>2. h \in Hilo /\ h.pid \in Pids /\ h.pid # Nadie
  BY <1>1, Tipos, MedianoPlazoAssumption DEF Hilo
<1>3. ASSUME Suspension(h)
      PROVE  /\ Estado(h.pid) \in {"S_BCK", "S_RDY"} /\ residente[h.pid]
             /\ \A g \in hilos : Suspension(g) /\ g.pid = h.pid => g = h
  BY <1>1, <1>3 DEF Plazos, HilosBien
<1>4. ASSUME Suspension(h), NEW r \in Rondas PROVE rondas[r].pid # h.pid
  <2>1. SuspensionEnCurso(h.pid)
    BY <1>4 DEF SuspensionEnCurso, Suspension
  <2>2. RondaBien(r)
    BY <1>1 DEF Plazos
  <2> QED
    BY <1>2, <2>1, <2>2 DEF RondaBien
<1> QED
  BY <1>2, <1>3, <1>4

LEMMA PasoArrancarTimer ==
    ASSUME IInv, NEW h \in hilos, ArrancarTimer(h), UNCHANGED <<programa, pc, hilo, mutex>>
    PROVE  IInv'
<1> DEFINE g == [h EXCEPT !.fase = "duerme", !.version = pcb[h.pid].version]
<1>0. TypeOK /\ Plazos /\ ListaSRdy /\ h \in Hilo /\ h.pid \in Pids
  BY HiloBien DEF IInv, Listas
<1>1. /\ hilos' \subseteq hilos \cup {g} /\ hilos \ {h} \subseteq hilos' /\ h.fase = "arranca"
      /\ UNCHANGED <<pcb, niveles, rnn, s_rdy, desalojo, en_io, rondas, residente>>
  BY DEF ArrancarTimer
<1>2. g \in Hilo /\ ~Suspension(g) /\ g.fase = "duerme"
  <2>1. pcb[h.pid].version \in Nat
    BY <1>0, Tipos DEF TipoPcb
  <2> QED
    BY <1>0, <2>1 DEF Hilo, Suspension
<1> HIDE DEF g
<1>3. hilos' \subseteq Hilo /\ \A x \in hilos' : Suspension(x) => x \in hilos
  BY <1>0, <1>1, <1>2, Tipos
<1>4. Plazos'
  <2>1. \A q \in Pids : Estado(q)' = Estado(q) /\ residente'[q] = residente[q]
    BY <1>1 DEF Estado
  <2>2. UNCHANGED rondas
    BY <1>1
  <2> QED
    BY <1>0, <1>3, <2>1, <2>2, PlazosSiguen
<1>5. ListaSRdy'
  BY <1>0, <1>1, SRdyIgual, QuitadoIgual DEF Estado
<1>6. /\ UNCHANGED <<pcb, niveles, rnn, desalojo, en_io, programa, pc, hilo, mutex>>
      /\ s_rdy' \in Seq(Pids) /\ rondas' \in [Rondas -> Ronda]
      /\ residente' \in [Pids -> BOOLEAN]
  BY <1>0, <1>1, Tipos
<1>7. AvisosIguales
  BY <1>1, <1>2 DEF AvisosIguales
<1> QED
  BY <1>3, <1>4, <1>5, <1>6, <1>7, PlanQuieto

LEMMA PasoAvisarSuspension ==
    ASSUME IInv, NEW h \in hilos, AvisarSuspension(h), UNCHANGED <<programa, pc, hilo, mutex>>
    PROVE  IInv'
<1> PICK p : p = h.pid
  OBVIOUS
<1> PICK g : g = [h EXCEPT !.fase = "deshace"]
  OBVIOUS
<1>0. /\ TypeOK /\ Plazos /\ ListaSRdy /\ h \in Hilo /\ p \in Pids /\ h.fase = "avisa"
      /\ Estado(p) \in {"S_BCK", "S_RDY"} /\ residente[p]
      /\ \A x \in hilos : Suspension(x) /\ x.pid = p => x = h
      /\ \A r \in Rondas : rondas[r].pid # p
  BY HiloBien DEF IInv, Listas, AvisarSuspension, Suspension
<1>1. /\ UNCHANGED <<pcb, niveles, rnn, s_rdy, desalojo, en_io, rondas>>
      /\ \/ residente' = [residente EXCEPT ![p] = FALSE] /\ hilos' = hilos \ {h}
         \/ hilos' = (hilos \ {h}) \cup {g} /\ residente' = residente
  BY DEF AvisarSuspension, Pasa
<1>2. g \in Hilo /\ g.pid = p /\ g.fase = "deshace" /\ Suspension(g)
  BY <1>0 DEF Hilo, Suspension
<1>3. /\ hilos' \subseteq Hilo /\ residente' \in [Pids -> BOOLEAN]
      /\ \A q \in Pids \ {p} : residente'[q] = residente[q]
  BY <1>0, <1>1, <1>2, Tipos
<1>4. HilosBien'
  <2>1. ASSUME NEW x \in hilos', Suspension(x)
        PROVE  pcb'[x.pid].estado \in {"S_BCK", "S_RDY"} /\ residente'[x.pid]
    <3>1. CASE x \in hilos \ {h}
      <4>1. x.pid # p /\ x.pid \in Pids
        BY <1>0, <2>1, <3>1, Tipos DEF Hilo
      <4> QED
        BY <1>0, <1>1, <1>3, <2>1, <3>1, <4>1 DEF Plazos, HilosBien, Estado
    <3>2. CASE x \notin hilos \ {h}
      BY <1>0, <1>1, <1>2, <2>1, <3>2 DEF Estado
    <3> QED
      BY <3>1, <3>2
  <2>2. ASSUME NEW x \in hilos', NEW y \in hilos', Suspension(x), Suspension(y), x.pid = y.pid
        PROVE  x = y
    <3>1. ASSUME NEW z \in hilos' PROVE z \in hilos \/ z = g
      BY <1>1
    <3>2. ASSUME NEW z \in hilos', NEW w \in hilos', Suspension(z), z \in hilos, w = g,
                 z.pid = w.pid
          PROVE  FALSE
      <4>1. z = h /\ w.pid = p
        BY <1>0, <1>2, <3>2
      <4>2. h # g
        BY <1>0, <1>2
      <4>3. w \in hilos' /\ z \in hilos'
        BY <3>2
      <4>4. CASE hilos' = hilos \ {h}
        BY <3>2, <4>1, <4>4
      <4>5. CASE hilos' = (hilos \ {h}) \cup {g}
        BY <3>2, <4>1, <4>2, <4>5
      <4> QED
        BY <1>1, <4>4, <4>5
    <3>3. CASE x \in hilos /\ y \in hilos
      BY <1>0, <2>2, <3>3 DEF Plazos, HilosBien
    <3> QED
      BY <2>2, <3>1, <3>2, <3>3
  <2> QED
    BY <2>1, <2>2 DEF HilosBien, Estado, Suspension
<1>5. ASSUME NEW r \in Rondas PROVE RondaBien(r)'
  <2> PICK q : q = rondas[r].pid
    OBVIOUS
  <2>1. q # p /\ RondaBien(r) /\ rondas'[r] = rondas[r] /\ q \in Pids \cup {Nadie}
    BY <1>0, <1>1, Tipos DEF Plazos, Ronda
  <2>2. \A x \in hilos' : Suspension(x) => \E y \in hilos : y.pid = x.pid /\ Suspension(y)
    BY <1>0, <1>1, <1>2 DEF Suspension
  <2>3. q # Nadie => /\ pcb'[q].estado = pcb[q].estado /\ pcb[q].estado # "S_BCK"
                     /\ residente'[q] = residente[q]
    BY <1>1, <1>3, <2>1 DEF RondaBien, Estado
  <2> QED
    BY <2>1, <2>2, <2>3, RondaSigue
<1>6. EnRam'
  BY <1>0, <1>1, <1>3 DEF Plazos, EnRam, Estado
<1>7. Plazos'
  BY <1>4, <1>5, <1>6 DEF Plazos
<1>8. ListaSRdy'
  BY <1>0, <1>1, SRdyIgual, QuitadoIgual DEF Estado
<1>9. /\ UNCHANGED <<pcb, niveles, rnn, desalojo, en_io, programa, pc, hilo, mutex>>
      /\ s_rdy' \in Seq(Pids) /\ rondas' \in [Rondas -> Ronda]
  BY <1>0, <1>1, Tipos
<1>10. AvisosIguales
  BY <1>0, <1>1, <1>2 DEF AvisosIguales
<1> QED
  BY <1>3, <1>7, <1>8, <1>9, <1>10, PlanQuieto

\* A round moves and no process changes of state.
LEMMA RondaQuieta ==
    ASSUME IInv, NEW r \in Rondas, NEW v \in Ronda, rondas' = [rondas EXCEPT ![r] = v],
           UNCHANGED <<pcb, niveles, rnn, desalojo, en_io, hilos, programa, pc, hilo, mutex>>,
           s_rdy' \in Seq(Pids), ListaSRdy', residente' \in [Pids -> BOOLEAN],
           \A q \in Pids : residente[q] => residente'[q],
           v.pid = Nadie <=> v.fase = "busca",
           v.pid # Nadie =>
             /\ ~SuspensionEnCurso(v.pid) /\ Estado(v.pid) # "S_BCK"
             /\ v.fase \in {"respondido", "quitado"} /\ Estado(v.pid) = "S_RDY" => residente'[v.pid]
    PROVE  IInv'
<1>0. TypeOK /\ Plazos
  BY DEF IInv
<1>1. /\ rondas' \in [Rondas -> Ronda] /\ rondas'[r] = v
      /\ \A t \in Rondas \ {r} : rondas'[t] = rondas[t]
  BY <1>0, RondaPasa
<1>2. HilosBien'
  <2>1. \A h \in hilos : h.pid \in Pids
    BY <1>0, Tipos DEF Hilo
  <2> QED
    BY <1>0, <2>1 DEF Plazos, HilosBien, Estado, Suspension
<1>3. ASSUME NEW t \in Rondas \ {r} PROVE RondaBien(t)'
  <2> PICK p : p = rondas[t].pid
    OBVIOUS
  <2>1. RondaBien(t) /\ rondas'[t] = rondas[t] /\ p \in Pids \cup {Nadie}
    BY <1>0, <1>1, Tipos DEF Plazos, Ronda
  <2>2. p # Nadie =>
          /\ \A h \in hilos' : Suspension(h) => \E g \in hilos : g.pid = h.pid /\ Suspension(g)
          /\ pcb'[p].estado # "S_BCK"
          /\ pcb'[p].estado = "S_RDY" =>
                 pcb[p].estado = "S_RDY" /\ (residente[p] => residente'[p])
    BY <2>1 DEF RondaBien, Estado
  <2> QED
    BY <2>1, <2>2, RondaSigue
<1>4. RondaBien(r)'
  BY <1>1 DEF RondaBien, SuspensionEnCurso, Estado
<1>5. EnRam'
  BY <1>0 DEF Plazos, EnRam, Estado
<1>6. Plazos'
  BY <1>2, <1>3, <1>4, <1>5 DEF Plazos
<1>7. hilos' \subseteq Hilo
  BY <1>0, Tipos
<1>8. AvisosIguales
  BY DEF AvisosIguales
<1> QED
  BY <1>1, <1>6, <1>7, <1>8, PlanQuieto

\* No list changes: the round was not holding a process it took from s_rdy, nor is now.
LEMMA RondaSinLista ==
    ASSUME IInv, NEW r \in Rondas, NEW v \in Ronda, rondas' = [rondas EXCEPT ![r] = v],
           UNCHANGED <<pcb, s_rdy>>, rondas[r].fase # "quitado", v.fase # "quitado"
    PROVE  s_rdy' \in Seq(Pids) /\ ListaSRdy'
<1>0. TypeOK /\ ListaSRdy
  BY DEF IInv, Listas
<1>1. /\ rondas'[r] = v /\ \A t \in Rondas \ {r} : rondas'[t] = rondas[t]
  BY <1>0, RondaPasa
<1>2. \A t \in Rondas : \A q \in Pids : Quitado(t, q)' <=> Quitado(t, q)
  BY <1>1 DEF Quitado
<1>3. s_rdy' \in Seq(Pids)
  BY <1>0, Tipos
<1> QED
  BY <1>0, <1>2, <1>3, SRdyIgual DEF Estado

LEMMA PasoTerminarRonda ==
    ASSUME IInv, NEW r \in Rondas, TerminarRonda(r), UNCHANGED <<programa, pc, hilo, mutex>>
    PROVE  IInv'
<1>0. TypeOK
  BY DEF IInv
<1>1. RondaLibre \in Ronda /\ RondaLibre.fase = "busca" /\ RondaLibre.pid = Nadie
  BY DEF RondaLibre, Ronda
<1>2. /\ rondas[r].fase = "busca" /\ rondas' = [rondas EXCEPT ![r] = RondaLibre]
      /\ UNCHANGED <<pcb, niveles, rnn, desalojo, en_io, hilos, programa, pc, hilo, mutex>>
      /\ UNCHANGED <<pcb, s_rdy>> /\ residente' = residente
  BY DEF TerminarRonda
<1>3. s_rdy' \in Seq(Pids) /\ ListaSRdy'
  BY <1>1, <1>2, RondaSinLista
<1>4. residente' \in [Pids -> BOOLEAN] /\ \A q \in Pids : residente[q] => residente'[q]
  BY <1>0, <1>2, Tipos
<1> QED
  BY <1>1, <1>2, <1>3, <1>4, RondaQuieta

LEMMA PasoNoHayEspacio ==
    ASSUME IInv, NEW r \in Rondas, NoHayEspacio(r), UNCHANGED <<programa, pc, hilo, mutex>>
    PROVE  IInv'
<1> PICK v : v = [fase |-> "busca", pid |-> Nadie,
                  intentados |-> rondas[r].intentados \cup {rondas[r].pid}]
  OBVIOUS
<1>0. TypeOK /\ RondaBien(r) /\ rondas[r] \in Ronda
  BY Tipos DEF IInv, Plazos
<1>1. /\ rondas[r].fase = "elegido" /\ rondas' = [rondas EXCEPT ![r] = v]
      /\ UNCHANGED <<pcb, niveles, rnn, desalojo, en_io, hilos, programa, pc, hilo, mutex>>
      /\ UNCHANGED <<pcb, s_rdy>> /\ residente' = residente
  BY DEF NoHayEspacio
<1>2. v \in Ronda /\ v.fase = "busca" /\ v.pid = Nadie
  <2>1. rondas[r].pid \in Pids
    BY <1>0, <1>1 DEF RondaBien, Ronda
  <2> QED
    BY <1>0, <2>1 DEF Ronda
<1>3. s_rdy' \in Seq(Pids) /\ ListaSRdy'
  BY <1>1, <1>2, RondaSinLista
<1>4. residente' \in [Pids -> BOOLEAN] /\ \A q \in Pids : residente[q] => residente'[q]
  BY <1>0, <1>1, Tipos
<1> QED
  BY <1>1, <1>2, <1>3, <1>4, RondaQuieta

LEMMA PasoHayEspacio ==
    ASSUME IInv, NEW r \in Rondas, HayEspacio(r), UNCHANGED <<programa, pc, hilo, mutex>>
    PROVE  IInv'
<1> PICK v : v = [rondas[r] EXCEPT !.fase = "respondido"]
  OBVIOUS
<1>0. TypeOK /\ RondaBien(r) /\ rondas[r] \in Ronda
  BY Tipos DEF IInv, Plazos
<1>1. /\ rondas[r].fase = "elegido" /\ rondas' = [rondas EXCEPT ![r] = v]
      /\ UNCHANGED <<pcb, niveles, rnn, desalojo, en_io, hilos, programa, pc, hilo, mutex>>
      /\ UNCHANGED <<pcb, s_rdy>>
      /\ residente' = [residente EXCEPT ![rondas[r].pid] = TRUE]
  BY DEF HayEspacio
<1>2. /\ v \in Ronda /\ v.fase = "respondido" /\ v.pid = rondas[r].pid
      /\ rondas[r].pid \in Pids /\ v.pid # Nadie
  BY <1>0, <1>1 DEF RondaBien, Ronda
<1>3. s_rdy' \in Seq(Pids) /\ ListaSRdy'
  BY <1>1, <1>2, RondaSinLista
<1>4. /\ residente' \in [Pids -> BOOLEAN] /\ \A q \in Pids : residente[q] => residente'[q]
      /\ residente'[v.pid]
  BY <1>0, <1>1, <1>2, Tipos
<1>5. ~SuspensionEnCurso(v.pid) /\ Estado(v.pid) # "S_BCK"
  BY <1>0, <1>2 DEF RondaBien
<1> QED
  BY <1>1, <1>2, <1>3, <1>4, <1>5, RondaQuieta

LEMMA PasoElegirOrdenado ==
    ASSUME IInv, NEW r \in Rondas, ElegirOrdenado(r), UNCHANGED <<programa, pc, hilo, mutex>>
    PROVE  IInv'
<1>0. TypeOK /\ ListaSRdy /\ rondas[r] \in Ronda /\ s_rdy \in Seq(Pids)
  BY Tipos DEF IInv, Listas
<1> PICK i \in Elegidos(r) :
        rondas' = [rondas EXCEPT ![r].fase = "elegido", ![r].pid = s_rdy[i]]
  BY DEF ElegirOrdenado, ElegirSuspendido
<1> PICK v : v = [rondas[r] EXCEPT !.fase = "elegido", !.pid = s_rdy[i]]
  OBVIOUS
<1>1. /\ rondas[r].fase = "busca" /\ ~SuspensionEnCurso(s_rdy[i])
      /\ UNCHANGED <<pcb, niveles, rnn, desalojo, en_io, hilos, programa, pc, hilo, mutex>>
      /\ UNCHANGED <<pcb, s_rdy>> /\ residente' = residente
  BY DEF ElegirOrdenado, ElegirSuspendido
<1>2. i \in DOMAIN s_rdy /\ s_rdy[i] \in Pids /\ Estado(s_rdy[i]) = "S_RDY"
  <2>1. i \in DOMAIN s_rdy
    BY DEF Elegidos, Candidatos
  <2>2. s_rdy[i] \in Pids /\ s_rdy[i] \in ToSet(s_rdy)
    BY <1>0, <2>1 DEF ToSet
  <2> QED
    BY <1>0, <2>1, <2>2 DEF ListaSRdy
<1>3. /\ v \in Ronda /\ v.fase = "elegido" /\ v.pid = s_rdy[i] /\ v.pid # Nadie
      /\ rondas' = [rondas EXCEPT ![r] = v]
  BY <1>0, <1>2, MedianoPlazoAssumption DEF Ronda
<1>4. s_rdy' \in Seq(Pids) /\ ListaSRdy'
  BY <1>1, <1>3, RondaSinLista
<1>5. residente' \in [Pids -> BOOLEAN] /\ \A q \in Pids : residente[q] => residente'[q]
  BY <1>0, <1>1, Tipos
<1>6. ~SuspensionEnCurso(v.pid) /\ Estado(v.pid) # "S_BCK"
  BY <1>1, <1>2, <1>3
<1> QED
  BY <1>1, <1>3, <1>4, <1>5, <1>6, RondaQuieta

LEMMA PasoQuitarSuspendido ==
    ASSUME IInv, NEW r \in Rondas, QuitarSuspendido(r), UNCHANGED <<programa, pc, hilo, mutex>>
    PROVE  IInv'
<1> PICK p : p = rondas[r].pid
  OBVIOUS
<1> PICK v : v = IF p \in ToSet(s_rdy) THEN [rondas[r] EXCEPT !.fase = "quitado"]
                                       ELSE [rondas[r] EXCEPT !.fase = "busca", !.pid = Nadie]
  OBVIOUS
<1>0. TypeOK /\ ListaSRdy /\ RondaBien(r) /\ rondas[r] \in Ronda /\ s_rdy \in Seq(Pids)
  BY Tipos DEF IInv, Listas, Plazos
<1>1. /\ rondas[r].fase = "respondido" /\ rondas' = [rondas EXCEPT ![r] = v]
      /\ s_rdy' = Sin(s_rdy, p)
      /\ UNCHANGED <<pcb, niveles, rnn, desalojo, en_io, hilos, programa, pc, hilo, mutex>>
      /\ residente' = residente
  BY DEF QuitarSuspendido, Busca
<1>2. p \in Pids /\ p # Nadie
  BY <1>0, <1>1 DEF RondaBien, Ronda
<1>3. /\ v \in Ronda
      /\ p \in ToSet(s_rdy) => v.fase = "quitado" /\ v.pid = p
      /\ p \notin ToSet(s_rdy) => v.fase = "busca" /\ v.pid = Nadie
  BY <1>0 DEF Ronda
<1>4. /\ rondas'[r] = v /\ \A t \in Rondas \ {r} : rondas'[t] = rondas[t]
  BY <1>0, <1>1, <1>3, RondaPasa
<1>5. s_rdy' \in Seq(Pids) /\ SinRepetir(s_rdy') /\ ToSet(s_rdy') = ToSet(s_rdy) \ {p}
  <2>1. SinRepetir(s_rdy)
    BY <1>0 DEF ListaSRdy
  <2> QED
    BY <1>0, <1>1, <2>1, SinSaca
<1>6. ListaSRdy'
  <2>1. \A q \in Pids : Estado(q)' = Estado(q)
    BY <1>1 DEF Estado
  <2>2. \A t \in Rondas \ {r} : \A q \in Pids : Quitado(t, q)' <=> Quitado(t, q)
    BY <1>4 DEF Quitado
  <2>3. \A q \in Pids : ~Quitado(r, q) /\ (Quitado(r, q)' <=> q = p /\ p \in ToSet(s_rdy))
    BY <1>1, <1>2, <1>3, <1>4 DEF Quitado
  <2>4. ASSUME NEW q \in Pids
        PROVE  /\ Estado(q)' = "S_RDY" <=> q \in ToSet(s_rdy') \/ \E t \in Rondas : Quitado(t, q)'
               /\ q \in ToSet(s_rdy') => \A t \in Rondas : ~Quitado(t, q)'
               /\ \A s, t \in Rondas : Quitado(s, q)' /\ Quitado(t, q)' => s = t
    <3>1. /\ Estado(q) = "S_RDY" <=> q \in ToSet(s_rdy) \/ \E t \in Rondas : Quitado(t, q)
          /\ q \in ToSet(s_rdy) => \A t \in Rondas : ~Quitado(t, q)
          /\ \A s, t \in Rondas : Quitado(s, q) /\ Quitado(t, q) => s = t
      BY <1>0 DEF ListaSRdy
    <3>2. CASE q # p
      <4>1. \A t \in Rondas : Quitado(t, q)' <=> Quitado(t, q)
        BY <2>2, <2>3, <3>2
      <4> QED
        BY <1>5, <2>1, <3>1, <3>2, <4>1
    <3>3. CASE q = p /\ p \in ToSet(s_rdy)
      <4>1. \A t \in Rondas : Quitado(t, q)' <=> t = r
        BY <2>2, <2>3, <3>1, <3>3
      <4> QED
        BY <1>5, <2>1, <3>1, <3>3, <4>1
    <3>4. CASE q = p /\ p \notin ToSet(s_rdy)
      <4>1. \A t \in Rondas : Quitado(t, q)' <=> Quitado(t, q)
        BY <2>2, <2>3, <3>4
      <4> QED
        BY <1>5, <2>1, <3>1, <3>4, <4>1
    <3> QED
      BY <3>2, <3>3, <3>4
  <2> QED
    BY <1>5, <2>4 DEF ListaSRdy
<1>7. residente' \in [Pids -> BOOLEAN] /\ \A q \in Pids : residente[q] => residente'[q]
  BY <1>0, <1>1, Tipos
<1>8. v.pid = Nadie <=> v.fase = "busca"
  BY <1>2, <1>3
<1>9. v.pid # Nadie =>
        /\ ~SuspensionEnCurso(v.pid) /\ Estado(v.pid) # "S_BCK"
        /\ v.fase \in {"respondido", "quitado"} /\ Estado(v.pid) = "S_RDY" => residente'[v.pid]
  <2>1. /\ ~SuspensionEnCurso(p) /\ Estado(p) # "S_BCK"
        /\ Estado(p) = "S_RDY" => residente[p]
    BY <1>0, <1>1, <1>2 DEF RondaBien
  <2> QED
    BY <1>1, <1>3, <2>1
<1> QED
  BY <1>1, <1>3, <1>5, <1>6, <1>7, <1>8, <1>9, RondaQuieta

\* A process comes back to RAM lists, or goes back to BLOCK: what the threads still hold.
LEMMA PlazosAlVolver ==
    ASSUME IInv, NEW q \in Pids, residente[q], UNCHANGED residente,
           pcb'[q].estado \in {"BCK", "RDY"},
           \A p \in Pids \ {q} : pcb'[p].estado = pcb[p].estado,
           hilos' \subseteq hilos, \A h \in hilos' : Suspension(h) => h.pid # q,
           \A r \in Rondas : \/ rondas'[r] = rondas[r]
                             \/ rondas'[r].fase = "busca" /\ rondas'[r].pid = Nadie
    PROVE  Plazos'
<1>0. TypeOK /\ Plazos
  BY DEF IInv
<1>1. HilosBien'
  <2>1. \A h \in hilos : h.pid \in Pids
    BY <1>0, Tipos DEF Hilo
  <2> QED
    BY <1>0, <2>1 DEF Plazos, HilosBien, Estado, Suspension
<1>2. ASSUME NEW r \in Rondas PROVE RondaBien(r)'
  <2>1. CASE rondas'[r] = rondas[r]
    <3> PICK p : p = rondas[r].pid
      OBVIOUS
    <3>1. RondaBien(r) /\ p \in Pids \cup {Nadie}
      BY <1>0, Tipos DEF Plazos, Ronda
    <3>2. p # Nadie =>
            /\ \A h \in hilos' : Suspension(h) => \E g \in hilos : g.pid = h.pid /\ Suspension(g)
            /\ pcb'[p].estado # "S_BCK"
            /\ pcb'[p].estado = "S_RDY" =>
                   pcb[p].estado = "S_RDY" /\ (residente[p] => residente'[p])
      BY <3>1 DEF RondaBien, Estado
    <3> QED
      BY <2>1, <3>1, <3>2, RondaSigue
  <2>2. CASE rondas'[r].fase = "busca" /\ rondas'[r].pid = Nadie
    BY <2>2 DEF RondaBien
  <2> QED
    BY <2>1, <2>2
<1>3. EnRam'
  BY <1>0 DEF Plazos, EnRam, Estado
<1> QED
  BY <1>1, <1>2, <1>3 DEF Plazos

LEMMA PasoDeshacerSuspension ==
    ASSUME IInv, NEW h \in hilos, DeshacerSuspension(h), UNCHANGED <<programa, pc, hilo, mutex>>
    PROVE  IInv'
<1> PICK p : p = h.pid
  OBVIOUS
<1>0. /\ TypeOK /\ ListaNiveles /\ ListaSRdy /\ p \in Pids /\ h.fase = "deshace"
      /\ Estado(p) \in {"S_BCK", "S_RDY"} /\ residente[p] /\ pcb[p] \in TipoPcb
      /\ EsperaBien(p) /\ EnSuCpu(p)
      /\ \A x \in hilos : Suspension(x) /\ x.pid = p => x = h
      /\ \A r \in Rondas : rondas[r].pid # p
  BY HiloBien, Tipos DEF IInv, Listas, Esperas, Cpus, DeshacerSuspension, Suspension
<1>1. /\ hilos' = hilos \ {h}
      /\ \/ /\ Estado(p) = "S_RDY" /\ pcb' = [pcb EXCEPT ![p] = ConEstado(@, "RDY")]
            /\ s_rdy' = Sin(s_rdy, p)
            /\ niveles' = [niveles EXCEPT ![pcb[p].prioridad] = Append(@, p)]
            /\ desalojo' = desalojo \cup (IF Preemption THEN Victima(pcb, p) ELSE {})
         \/ /\ Estado(p) = "S_BCK" /\ pcb' = [pcb EXCEPT ![p] = ConEstado(@, "BCK")]
            /\ UNCHANGED <<niveles, s_rdy, desalojo>>
      /\ UNCHANGED <<rnn, en_io, rondas, residente>>
  BY <1>0 DEF DeshacerSuspension, Listo
<1>2. ~EnCpu(p)
  BY <1>0 DEF EnSuCpu
<1>3. ASSUME NEW x \in {"BCK", "RDY"}, pcb' = [pcb EXCEPT ![p] = ConEstado(@, x)]
      PROVE  /\ Estado(p)' = x /\ pcb'[p].estado = x
             /\ pcb'[p].prioridad = pcb[p].prioridad
             /\ \A q \in Pids \ {p} : pcb'[q] = pcb[q]
  <2> PICK v : v = ConEstado(pcb[p], x)
    OBVIOUS
  <2>1. v \in TipoPcb /\ v.estado = x /\ v.prioridad = pcb[p].prioridad
    BY <1>0, ConEstadoBien DEF Estados
  <2>2. pcb' = [pcb EXCEPT ![p] = v]
    BY <1>3
  <2> QED
    BY <1>0, <2>1, <2>2, PcbPasa DEF Estado
<1>4. /\ hilos' \subseteq Hilo /\ rondas' \in [Rondas -> Ronda]
      /\ residente' \in [Pids -> BOOLEAN] /\ rnn \in Seq(Pids)
      /\ hilos' \subseteq hilos /\ \A x \in hilos' : Suspension(x) => x.pid # p
  BY <1>0, <1>1, Tipos
<1>a. AvisosIguales
  BY <1>0, <1>1 DEF AvisosIguales
<1>5. CASE Estado(p) = "S_RDY"
  <2>1. /\ pcb' = [pcb EXCEPT ![p] = ConEstado(@, "RDY")]
        /\ s_rdy' = Sin(s_rdy, p)
        /\ niveles' = [niveles EXCEPT ![pcb[p].prioridad] = Append(@, p)]
        /\ desalojo' = desalojo \cup (IF Preemption THEN Victima(pcb, p) ELSE {})
        /\ UNCHANGED <<rnn, en_io, rondas, residente, programa, pc, hilo, mutex>>
    BY <1>1, <1>5
  <2>2. /\ Estado(p)' = "RDY" /\ pcb'[p].estado = "RDY"
        /\ pcb'[p].prioridad = pcb[p].prioridad
        /\ \A q \in Pids \ {p} : pcb'[q] = pcb[q] /\ Estado(q)' = Estado(q)
    BY <1>3, <2>1 DEF Estado
  <2>3. ListaNiveles' /\ niveles' \in [0 .. Niveles - 1 -> Seq(Pids)]
    <3>1. /\ ~EnReady(p) /\ EnReady(p)'
          /\ \A q \in Pids \ {p} : EnReady(q)' <=> EnReady(q)
      BY <1>0, <1>2, <1>5, <2>1, <2>2, FueraDeCpu
    <3> QED
      BY <1>0, <2>1, <2>2, <3>1, NivelesEntra
  <2>4. ListaSRdy' /\ s_rdy' \in Seq(Pids)
    <3>1. \A r \in Rondas : ~Quitado(r, p)
      BY <1>0 DEF Quitado
    <3>2. UNCHANGED rondas /\ Estado(p)' # "S_RDY"
      BY <2>1, <2>2
    <3> QED
      BY <1>0, <2>1, <2>2, <3>1, <3>2, SRdySale
  <2>5. ~pcb[p].esperando_io
    BY <1>0, <1>2, <1>5 DEF EsperaBien, EnCpu
  <2>6. Plazos'
    <3>1. UNCHANGED residente /\ \A r \in Rondas : rondas'[r] = rondas[r]
      BY <2>1
    <3> QED
      BY <1>0, <1>4, <2>2, <3>1, PlazosAlVolver
  <2>7. desalojo \subseteq desalojo' /\ desalojo' \subseteq Pids
    BY <1>0, <1>4, <2>1, VictimaBien, Tipos
  <2>8. /\ UNCHANGED <<rnn, en_io, programa, pc, hilo, mutex>>
        /\ "RDY" \in {"BCK", "S_BCK", "RDY"}
        /\ \/ Estado(p) \in {"BCK", "S_BCK"}
           \/ Estado(p) = "S_RDY" /\ "RDY" = "RDY"
    BY <1>5, <2>1
  <2> QED
    BY <1>0, <1>2, <1>4, <2>1, <2>3, <2>4, <2>5, <2>6, <2>7, <2>8, <1>a, PlanConEstado
<1>6. CASE Estado(p) = "S_BCK"
  <2>1. /\ pcb' = [pcb EXCEPT ![p] = ConEstado(@, "BCK")]
        /\ UNCHANGED <<niveles, s_rdy, desalojo>>
        /\ UNCHANGED <<rnn, en_io, rondas, residente, programa, pc, hilo, mutex>>
    BY <1>1, <1>6
  <2>2. /\ Estado(p)' = "BCK" /\ pcb'[p].estado = "BCK"
        /\ pcb'[p].prioridad = pcb[p].prioridad
        /\ \A q \in Pids \ {p} : pcb'[q] = pcb[q] /\ Estado(q)' = Estado(q)
    BY <1>3, <2>1 DEF Estado
  <2>3. ListaNiveles' /\ ListaSRdy'
    <3>1. \A q \in Pids : /\ Estado(q)' = "S_RDY" <=> Estado(q) = "S_RDY"
                          /\ pcb'[q].prioridad = pcb[q].prioridad
      BY <1>6, <2>2
    <3>2. \A q \in Pids : EnReady(q)' <=> EnReady(q)
      <4>1. /\ EnReady(p)' <=> EnReady(p)
            /\ \A q \in Pids \ {p} : EnReady(q)' <=> EnReady(q)
        BY <1>0, <1>2, <1>6, <2>1, <2>2, FueraDeCpu
      <4> QED
        BY <4>1
    <3> QED
      BY <1>0, <2>1, <3>1, <3>2, NivelesIguales, SRdyIgual, QuitadoIgual
  <2>4. Plazos'
    <3>1. UNCHANGED residente /\ \A r \in Rondas : rondas'[r] = rondas[r]
      BY <2>1
    <3> QED
      BY <1>0, <1>4, <2>2, <3>1, PlazosAlVolver
  <2>5. /\ niveles' \in [0 .. Niveles - 1 -> Seq(Pids)] /\ s_rdy' \in Seq(Pids)
        /\ desalojo \subseteq desalojo' /\ desalojo' \subseteq Pids
    BY <1>0, <2>1, Tipos
  <2>6. /\ UNCHANGED <<rnn, en_io, programa, pc, hilo, mutex>>
        /\ "BCK" \in {"BCK", "S_BCK", "RDY"} /\ ("BCK" = "RDY" => ~pcb[p].esperando_io)
        /\ \/ Estado(p) \in {"BCK", "S_BCK"}
           \/ Estado(p) = "S_RDY" /\ "BCK" = "RDY"
    BY <1>6, <2>1
  <2> QED
    BY <1>0, <1>2, <1>4, <2>1, <2>3, <2>4, <2>5, <2>6, <1>a, PlanConEstado
<1> QED
  BY <1>0, <1>5, <1>6

LEMMA PasoDesuspender ==
    ASSUME IInv, NEW r \in Rondas, Desuspender(r), UNCHANGED <<programa, pc, hilo, mutex>>
    PROVE  IInv'
<1> PICK p : p = rondas[r].pid
  OBVIOUS
<1> PICK w : w = [rondas[r] EXCEPT !.fase = "busca", !.pid = Nadie]
  OBVIOUS
<1> PICK v : v = ConEstado(pcb[p], "RDY")
  OBVIOUS
<1>0. /\ TypeOK /\ ListaNiveles /\ ListaSRdy /\ RondaBien(r) /\ rondas[r] \in Ronda
      /\ rondas[r].fase = "quitado"
  BY Tipos DEF IInv, Listas, Plazos, Desuspender
<1>1. /\ pcb' = [pcb EXCEPT ![p] = ConEstado(@, "RDY")] /\ pcb' = [pcb EXCEPT ![p] = v]
      /\ niveles' = [niveles EXCEPT ![pcb[p].prioridad] = Append(@, p)]
      /\ desalojo' = desalojo \cup (IF Preemption THEN Victima(pcb, p) ELSE {})
      /\ rondas' = [rondas EXCEPT ![r] = w]
      /\ UNCHANGED <<rnn, s_rdy, en_io, hilos, residente, programa, pc, hilo, mutex>>
  BY DEF Desuspender, Listo, Busca
<1>2. p \in Pids /\ p # Nadie /\ Quitado(r, p)
  BY <1>0 DEF RondaBien, Ronda, Quitado
<1>3. /\ Estado(p) = "S_RDY" /\ p \notin ToSet(s_rdy)
      /\ \A t \in Rondas \ {r} : ~Quitado(t, p)
  BY <1>0, <1>2 DEF ListaSRdy
<1>4. residente[p] /\ \A h \in hilos : Suspension(h) => h.pid # p
  BY <1>0, <1>2, <1>3 DEF RondaBien, SuspensionEnCurso, Suspension
<1>5. /\ pcb[p] \in TipoPcb /\ EsperaBien(p) /\ EnSuCpu(p)
  BY <1>0, <1>2, Tipos DEF IInv, Esperas, Cpus
<1>6. ~EnCpu(p) /\ ~pcb[p].esperando_io
  BY <1>3, <1>5 DEF EnSuCpu, EnCpu, EsperaBien
<1>7. /\ Estado(p)' = "RDY" /\ pcb'[p].estado = "RDY"
      /\ pcb'[p].prioridad = pcb[p].prioridad
      /\ \A q \in Pids \ {p} : pcb'[q] = pcb[q] /\ Estado(q)' = Estado(q)
  <2>1. v \in TipoPcb /\ v.estado = "RDY" /\ v.prioridad = pcb[p].prioridad
    BY <1>5, ConEstadoBien DEF Estados
  <2> QED
    BY <1>0, <1>1, <1>2, <2>1, PcbPasa DEF Estado
<1>8. w \in Ronda /\ w.fase = "busca" /\ w.pid = Nadie
  BY <1>0 DEF Ronda
<1>9. /\ rondas' \in [Rondas -> Ronda] /\ rondas'[r] = w
      /\ \A t \in Rondas \ {r} : rondas'[t] = rondas[t]
  BY <1>0, <1>1, <1>8, RondaPasa
<1>10. ListaNiveles' /\ niveles' \in [0 .. Niveles - 1 -> Seq(Pids)]
  <2>1. /\ ~EnReady(p) /\ EnReady(p)'
        /\ \A q \in Pids \ {p} : EnReady(q)' <=> EnReady(q)
    BY <1>1, <1>2, <1>3, <1>6, <1>7, FueraDeCpu
  <2> QED
    BY <1>0, <1>1, <1>2, <1>7, <2>1, NivelesEntra
<1>11. ListaSRdy' /\ s_rdy' \in Seq(Pids)
  <2>1. \A q \in Pids \ {p} : \A t \in Rondas : Quitado(t, q)' <=> Quitado(t, q)
    BY <1>2, <1>8, <1>9 DEF Quitado
  <2>2. \A t \in Rondas : ~Quitado(t, p)'
    BY <1>3, <1>8, <1>9 DEF Quitado
  <2>3. UNCHANGED s_rdy /\ s_rdy' \in Seq(Pids)
    BY <1>0, <1>1, Tipos
  <2> QED
    BY <1>0, <1>3, <1>7, <2>1, <2>2, <2>3 DEF ListaSRdy
<1>12. Plazos'
  <2>1. \A t \in Rondas : \/ rondas'[t] = rondas[t]
                          \/ rondas'[t].fase = "busca" /\ rondas'[t].pid = Nadie
    BY <1>8, <1>9
  <2>2. UNCHANGED residente /\ hilos' \subseteq hilos /\ \A h \in hilos' : Suspension(h) => h.pid # p
    BY <1>1, <1>4
  <2> QED
    BY <1>2, <1>4, <1>7, <2>1, <2>2, PlazosAlVolver
<1>13. /\ desalojo \subseteq desalojo' /\ desalojo' \subseteq Pids
       /\ hilos' \subseteq Hilo /\ residente' \in [Pids -> BOOLEAN]
  <2>1. rnn \in Seq(Pids) /\ desalojo \subseteq Pids
    BY <1>0, Tipos
  <2>2. Victima(pcb, p) \subseteq Pids
    BY <2>1, VictimaBien
  <2> QED
    BY <1>0, <1>1, <2>1, <2>2, Tipos
<1>14. /\ UNCHANGED <<rnn, en_io, programa, pc, hilo, mutex>>
       /\ "RDY" \in {"BCK", "S_BCK", "RDY"}
       /\ \/ Estado(p) \in {"BCK", "S_BCK"}
          \/ Estado(p) = "S_RDY" /\ "RDY" = "RDY"
  BY <1>1, <1>3
<1>15. AvisosIguales
  BY <1>1 DEF AvisosIguales
<1> QED
  BY <1>1, <1>2, <1>6, <1>9, <1>10, <1>11, <1>12, <1>13, <1>14, <1>15, PlanConEstado

\* A thread that has slept finds its process out of its CPU, and in no round.
LEMMA PasoVencerOrdenado ==
    ASSUME IInv, NEW h \in hilos, ~EnCpu(h.pid), VencerOrdenado(h),
           UNCHANGED <<programa, pc, hilo, mutex>>
    PROVE  IInv'
<1> PICK p : p = h.pid
  OBVIOUS
<1> PICK g : g = [h EXCEPT !.fase = "avisa"]
  OBVIOUS
<1>0. /\ TypeOK /\ Plazos /\ ListaNiveles /\ ListaSRdy /\ h \in Hilo /\ p \in Pids
      /\ h.fase = "duerme" /\ ~EnCpu(p) /\ \A r \in Rondas : rondas[r].pid # p
  BY HiloBien DEF IInv, Listas, VencerOrdenado, VencerTimer, EnManos
<1>1. /\ UNCHANGED <<niveles, rnn, s_rdy, desalojo, en_io, rondas, residente>>
      /\ UNCHANGED <<programa, pc, hilo, mutex>>
      /\ \/ /\ Estado(p) = "BCK" /\ pcb' = [pcb EXCEPT ![p] = ConEstado(@, "S_BCK")]
            /\ hilos' = (hilos \ {h}) \cup {g}
         \/ hilos' = hilos \ {h} /\ UNCHANGED pcb
  BY DEF VencerOrdenado, VencerTimer, Pasa
<1>2. g \in Hilo /\ g.pid = p /\ g.fase = "avisa" /\ Suspension(g)
  BY <1>0 DEF Hilo, Suspension
<1>3. /\ hilos' \subseteq Hilo /\ rondas' \in [Rondas -> Ronda] /\ s_rdy' \in Seq(Pids)
      /\ residente' \in [Pids -> BOOLEAN] /\ niveles' \in [0 .. Niveles - 1 -> Seq(Pids)]
      /\ desalojo \subseteq desalojo' /\ desalojo' \subseteq Pids
  BY <1>0, <1>1, <1>2, Tipos
<1>a. AvisosIguales
  BY <1>0, <1>1, <1>2 DEF AvisosIguales
<1>4. CASE Estado(p) = "BCK" /\ pcb' = [pcb EXCEPT ![p] = ConEstado(@, "S_BCK")]
           /\ hilos' = (hilos \ {h}) \cup {g}
  <2>1. /\ Estado(p)' = "S_BCK" /\ pcb'[p].estado = "S_BCK"
        /\ pcb'[p].prioridad = pcb[p].prioridad
        /\ \A q \in Pids \ {p} : pcb'[q] = pcb[q] /\ Estado(q)' = Estado(q)
    <3> PICK v : v = ConEstado(pcb[p], "S_BCK")
      OBVIOUS
    <3>1. pcb[p] \in TipoPcb
      BY <1>0, Tipos
    <3>2. v \in TipoPcb /\ v.estado = "S_BCK" /\ v.prioridad = pcb[p].prioridad
      BY <3>1, ConEstadoBien DEF Estados
    <3>3. pcb' = [pcb EXCEPT ![p] = v]
      BY <1>4
    <3> QED
      BY <1>0, <3>2, <3>3, PcbPasa DEF Estado
  <2>2. ListaNiveles' /\ ListaSRdy'
    <3>1. \A q \in Pids : /\ Estado(q)' = "S_RDY" <=> Estado(q) = "S_RDY"
                          /\ pcb'[q].prioridad = pcb[q].prioridad
      BY <1>4, <2>1
    <3>2. \A q \in Pids : EnReady(q)' <=> EnReady(q)
      <4>1. /\ EnReady(p)' <=> EnReady(p)
            /\ \A q \in Pids \ {p} : EnReady(q)' <=> EnReady(q)
        BY <1>0, <1>1, <1>4, <2>1, FueraDeCpu
      <4> QED
        BY <4>1
    <3> QED
      BY <1>0, <1>1, <3>1, <3>2, NivelesIguales, SRdyIgual, QuitadoIgual
  <2>3. residente[p] /\ \A x \in hilos : Suspension(x) => x.pid # p
    BY <1>0, <1>4 DEF Plazos, EnRam, HilosBien
  <2>4. HilosBien'
    <3>1. ASSUME NEW x \in hilos', Suspension(x)
          PROVE  pcb'[x.pid].estado \in {"S_BCK", "S_RDY"} /\ residente'[x.pid]
      <4>1. CASE x = g
        BY <1>1, <1>2, <2>1, <2>3, <4>1
      <4>2. CASE x # g
        <5>1. x \in hilos /\ x.pid \in Pids \ {p}
          BY <1>0, <1>4, <2>3, <3>1, <4>2, Tipos DEF Hilo
        <5>2. Estado(x.pid) \in {"S_BCK", "S_RDY"} /\ residente[x.pid]
          BY <1>0, <3>1, <5>1 DEF Plazos, HilosBien
        <5> QED
          BY <1>1, <2>1, <5>1, <5>2 DEF Estado
      <4> QED
        BY <4>1, <4>2
    <3>2. ASSUME NEW x \in hilos', NEW y \in hilos', Suspension(x), Suspension(y), x.pid = y.pid
          PROVE  x = y
      BY <1>0, <1>2, <1>4, <2>3, <3>2 DEF Plazos, HilosBien
    <3> QED
      BY <3>1, <3>2 DEF HilosBien, Estado, Suspension
  <2>5. ASSUME NEW r \in Rondas PROVE RondaBien(r)'
    <3> PICK q : q = rondas[r].pid
      OBVIOUS
    <3>1. q # p /\ RondaBien(r) /\ rondas'[r] = rondas[r] /\ q \in Pids \cup {Nadie}
      BY <1>0, <1>1, Tipos DEF Plazos, Ronda
    <3>2. ASSUME q # Nadie
          PROVE  /\ q \in Pids \ {p}
                 /\ ~\E x \in hilos : x.pid = q /\ x.fase \in {"avisa", "deshace"}
                 /\ pcb[q].estado # "S_BCK"
                 /\ rondas[r].fase \in {"respondido", "quitado"} /\ pcb[q].estado = "S_RDY" => residente[q]
      BY <3>1, <3>2 DEF RondaBien, SuspensionEnCurso, Estado
    <3>3. ASSUME q # Nadie
          PROVE  ~\E x \in hilos' : x.pid = q /\ x.fase \in {"avisa", "deshace"}
      BY <1>2, <1>4, <3>2, <3>3
    <3>4. q = Nadie <=> rondas[r].fase = "busca"
      BY <3>1 DEF RondaBien
    <3>5. q # Nadie => pcb'[q] = pcb[q] /\ residente'[q] = residente[q]
      BY <1>1, <2>1, <3>2
    <3>6. q = rondas'[r].pid
      BY <3>1
    <3> QED
      BY <3>1, <3>2, <3>3, <3>4, <3>5, <3>6 DEF RondaBien, SuspensionEnCurso, Estado
  <2>6. EnRam'
    BY <1>0, <1>1, <2>1 DEF Plazos, EnRam
  <2>7. Plazos'
    BY <2>4, <2>5, <2>6 DEF Plazos
  <2>8. /\ UNCHANGED <<rnn, en_io, programa, pc, hilo, mutex>>
        /\ "S_BCK" \in {"BCK", "S_BCK", "RDY"} /\ ("S_BCK" = "RDY" => ~pcb[p].esperando_io)
        /\ \/ Estado(p) \in {"BCK", "S_BCK"}
           \/ Estado(p) = "S_RDY" /\ "S_BCK" = "RDY"
    BY <1>1, <1>4
  <2> QED
    BY <1>0, <1>3, <1>4, <1>a, <2>2, <2>7, <2>8, PlanConEstado
<1>5. CASE hilos' = hilos \ {h} /\ UNCHANGED pcb
  <2>1. \A q \in Pids : Estado(q)' = Estado(q) /\ residente'[q] = residente[q]
    BY <1>1, <1>5 DEF Estado
  <2>2. UNCHANGED rondas /\ \A x \in hilos' : Suspension(x) => x \in hilos
    BY <1>1, <1>5
  <2>3. Plazos'
    BY <1>0, <2>1, <2>2, PlazosSiguen
  <2>4. ListaSRdy'
    BY <1>0, <1>1, <2>1, SRdyIgual, QuitadoIgual
  <2>5. UNCHANGED <<pcb, niveles, rnn, desalojo, en_io, programa, pc, hilo, mutex>>
    BY <1>1, <1>5
  <2> QED
    BY <1>3, <1>a, <2>3, <2>4, <2>5, PlanQuieto
<1> QED
  BY <1>1, <1>4, <1>5

-----------------------------------------------------------------------------
(* The invariant *)

LEMMA InicioIInv == Init => IInv
<1> SUFFICES ASSUME Init PROVE IInv
  OBVIOUS
<1>0. /\ pcb = [p \in Pids |-> [estado |-> "NEW", anterior |-> "NEW",
                                prioridad |-> PrioridadDe[p], version |-> 0,
                                esperando_io |-> FALSE]]
      /\ niveles = [n \in 0 .. Niveles - 1 |-> <<>>]
      /\ rnn = <<>> /\ s_rdy = <<>> /\ desalojo = {} /\ en_io = {} /\ hilos = {}
      /\ rondas = [r \in Rondas |-> RondaLibre]
      /\ residente = [p \in Pids |-> TRUE]
      /\ programa \in Programas
      /\ pc = [p \in Pids |-> 0]
      /\ hilo = [p \in Pids |-> HiloFuera]
      /\ mutex = [m \in Mutexes |-> [creado |-> FALSE, valor |-> 1, duenio |-> Nadie,
                                     cola |-> <<>>]]
  BY DEF Init, PlanInit
<1>1. ASSUME NEW p \in Pids
      PROVE  /\ Estado(p) = "NEW" /\ pcb[p].esperando_io = FALSE
             /\ pcb[p].prioridad = PrioridadDe[p]
             /\ hilo[p].paso = "fuera" /\ hilo[p].otro = Nadie /\ residente[p] = TRUE
  BY <1>0 DEF Estado, HiloFuera
<1>2. ASSUME NEW m \in Mutexes
      PROVE  mutex[m].valor = 1 /\ mutex[m].duenio = Nadie /\ mutex[m].cola = <<>>
  BY <1>0
<1>3. ASSUME NEW p PROVE p \notin ToSet(<<>>)
  BY DEF ToSet
<1>4. SinRepetir(<<>>)
  BY DEF SinRepetir
<1>5. TypeOK
  <2>1. pcb \in [Pids -> TipoPcb]
    BY <1>0, MedianoPlazoAssumption DEF TipoPcb, Estados
  <2>2. hilo \in [Pids -> TipoHilo]
    BY <1>0 DEF TipoHilo, Pasos, HiloFuera
  <2>3. mutex \in [Mutexes -> TipoMutex]
    BY <1>0 DEF TipoMutex
  <2>4. rondas \in [Rondas -> Ronda]
    BY <1>0 DEF Ronda, RondaLibre
  <2>5. /\ niveles \in [0 .. Niveles - 1 -> Seq(Pids)] /\ rnn \in Seq(Pids) /\ s_rdy \in Seq(Pids)
        /\ desalojo \subseteq Pids /\ en_io \subseteq Pids /\ hilos \subseteq Hilo
        /\ residente \in [Pids -> BOOLEAN] /\ programa \in Programas /\ pc \in [Pids -> Nat]
    BY <1>0
  <2> QED
    BY <2>1, <2>2, <2>3, <2>4, <2>5
       DEF TypeOK, PlanTypeOK, TipoPcb, TipoHilo, TipoMutex
<1>6. Nacen
  <2> SUFFICES ASSUME NEW p \in Pids, NEW k \in DOMAIN programa[p],
                      programa[p][k].op = "INIT_PROC"
               PROVE  Estado(programa[p][k].hijo) = "NEW"
    BY DEF Nacen
  <2>1. programa[p] \in Seq(Instruccion)
    BY <1>5, InstruccionBien
  <2>2. programa[p][k] \in Instruccion
    BY <2>1
  <2>3. programa[p][k].hijo \in Pids
    BY <2>2 DEF Instruccion
  <2> QED
    BY <1>1, <2>3
<1>7. Cpus
  BY <1>1 DEF Cpus, EnSuCpu, EnCpu
<1>8. \A p \in Pids : \A m \in Mutexes : ~EnCola(p, m)
  BY <1>2, <1>3 DEF EnCola
<1>9. Colas
  BY <1>2, <1>4, <1>8 DEF Colas
<1>10. Esperas
  <2>1. ASSUME NEW p \in Pids PROVE ~PorDespertar(p)
    <3>1. ASSUME NEW q \in Pids PROVE hilo[q] # [paso |-> "despierta", otro |-> p]
      <4>1. hilo[q].paso = "fuera"
        BY <1>1
      <4> QED
        BY <4>1
    <3>2. hilos = {}
      BY <1>0
    <3> QED
      BY <3>1, <3>2 DEF PorDespertar
  <2> QED
    BY <1>0, <1>1, <1>8, <2>1 DEF Esperas, EsperaBien
<1>11. Listas
  <2>1. \A r \in Rondas : \A p : ~Quitado(r, p)
    BY <1>0 DEF Quitado, RondaLibre
  <2>0. ASSUME NEW p \in Pids PROVE ~EnReady(p) /\ ~EnRunning(p)
    BY <1>1 DEF EnReady, EnRunning
  <2>2. ListaNiveles
    BY <1>0, <1>3, <1>4, <2>0 DEF ListaNiveles
  <2>3. ListaRnn
    BY <1>0, <1>3, <1>4, <2>0 DEF ListaRnn
  <2>4. ListaSRdy
    BY <1>0, <1>1, <1>3, <1>4, <2>1 DEF ListaSRdy
  <2> QED
    BY <2>2, <2>3, <2>4 DEF Listas
<1>12. Plazos
  <2>1. HilosBien /\ EnRam
    BY <1>0, <1>1 DEF HilosBien, EnRam
  <2>2. \A r \in Rondas : RondaBien(r)
    BY <1>0 DEF RondaBien, RondaLibre
  <2> QED
    BY <2>1, <2>2 DEF Plazos
<1>13. HerenciaJusta
  <2> SUFFICES ASSUME NEW p \in Pids PROVE HerenciaBien(p)
    BY HerenciaDeTodos
  <2>1. Tomados(p) = {}
    BY <1>2, MedianoPlazoAssumption DEF Tomados
  <2>2. Esperan(p) = {}
    BY <2>1 DEF Esperan
  <2>3. PrioridadDe[p] \in Nat
    BY MedianoPlazoAssumption
  <2>4. {PrioridadDe[q] : q \in Esperan(p) \cup {p}} = {PrioridadDe[p]}
    BY <2>2
  <2>5. pcb[p].prioridad = Min({PrioridadDe[q] : q \in Esperan(p) \cup {p}})
    BY <1>1, <2>3, <2>4, MinimoDeUno
  <2> QED
    BY <2>5 DEF HerenciaBien
<1> QED
  BY <1>5, <1>6, <1>7, <1>9, <1>10, <1>11, <1>12, <1>13 DEF IInv

LEMMA PasoDePlan ==
    ASSUME IInv, UNCHANGED <<programa, pc, hilo, mutex>>,
           \/ \E h \in hilos : PasoHilo(h) \/ (~EnCpu(h.pid) /\ VencerOrdenado(h))
           \/ \E r \in Rondas : PasoRonda(r) \/ HayEspacio(r) \/ ElegirOrdenado(r)
    PROVE  IInv'
<1>1. ASSUME NEW h \in hilos, PasoHilo(h) PROVE IInv'
  BY <1>1, PasoArrancarTimer, PasoAvisarSuspension, PasoDeshacerSuspension DEF PasoHilo
<1>2. ASSUME NEW h \in hilos, ~EnCpu(h.pid), VencerOrdenado(h) PROVE IInv'
  BY <1>2, PasoVencerOrdenado
<1>3. ASSUME NEW r \in Rondas, PasoRonda(r) PROVE IInv'
  BY <1>3, PasoTerminarRonda, PasoNoHayEspacio, PasoQuitarSuspendido, PasoDesuspender
     DEF PasoRonda
<1>4. ASSUME NEW r \in Rondas, HayEspacio(r) PROVE IInv'
  BY <1>4, PasoHayEspacio
<1>5. ASSUME NEW r \in Rondas, ElegirOrdenado(r) PROVE IInv'
  BY <1>5, PasoElegirOrdenado
<1> QED
  BY <1>1, <1>2, <1>3, <1>4, <1>5

LEMMA PasoQuieto ==
    ASSUME IInv, UNCHANGED vars
    PROVE  IInv'
<1>0. TypeOK /\ Plazos /\ ListaSRdy
  BY DEF IInv, Listas
<1>1. /\ UNCHANGED <<pcb, niveles, rnn, desalojo, en_io, programa, pc, hilo, mutex>>
      /\ UNCHANGED s_rdy /\ UNCHANGED rondas /\ hilos' = hilos /\ residente' = residente
  BY DEF vars, planVars
<1>2. /\ s_rdy' \in Seq(Pids) /\ hilos' \subseteq Hilo /\ rondas' \in [Rondas -> Ronda]
      /\ residente' \in [Pids -> BOOLEAN]
  BY <1>0, <1>1, Tipos
<1>3. \A q \in Pids : Estado(q)' = Estado(q) /\ residente'[q] = residente[q]
  BY <1>1 DEF Estado
<1>4. Plazos'
  BY <1>0, <1>1, <1>3, PlazosSiguen
<1>5. ListaSRdy'
  BY <1>0, <1>1, <1>3, SRdyIgual, QuitadoIgual
<1>6. AvisosIguales
  BY <1>1 DEF AvisosIguales
<1> QED
  BY <1>1, <1>2, <1>4, <1>5, <1>6, PlanQuieto

LEMMA PasoIInv == IInv /\ [PasoComun \/ PasoOrdenado \/ Terminado]_vars => IInv'
<1> SUFFICES ASSUME IInv, [PasoComun \/ PasoOrdenado \/ Terminado]_vars PROVE IInv'
  OBVIOUS
<1>1. CASE CrearInicial
  BY <1>1, PasoCrearInicial
<1>2. ASSUME NEW p \in Pids, Paso(p) PROVE IInv'
  <2>1. CASE \/ Noop(p) \/ LockInexistente(p) \/ UnlockInexistente(p) \/ UnlockAjeno(p)
             \/ MutexCreate(p) \/ MarcarAlTerminar(p) \/ Interrupt(p) \/ OkDesalojo(p)
    BY <2>1, PasosSinCambio
  <2>2. CASE Sleep(p)
    BY <2>2, PasoSleep
  <2>3. CASE InitProc(p)
    BY <2>3, PasoInitProc
  <2>4. CASE Exit(p)
    BY <2>4, PasoExit
  <2>5. CASE LockLibre(p)
    BY <2>5, PasoLockLibre
  <2>6. CASE LockTomado(p)
    BY <2>6, PasoLockTomado
  <2>7. CASE Bloquear(p) \/ Volver(p)
    BY <2>7, PasoBloquear
  <2>8. CASE UnlockSinEspera(p)
    BY <2>8, PasoUnlockSinEspera
  <2>9. CASE UnlockTraspaso(p)
    BY <2>9, PasoUnlockTraspaso
  <2>10. CASE Agregar(p)
    BY <2>10, PasoAgregar
  <2>11. CASE Eliminar(p)
    BY <2>11, PasoEliminar
  <2> QED
    BY <1>2, <2>1, <2>2, <2>3, <2>4, <2>5, <2>6, <2>7, <2>8, <2>9, <2>10, <2>11 DEF Paso
<1>3. ASSUME NEW p \in Pids, FinQuantum(p) PROVE IInv'
  BY <1>3, PasosSinCambio
<1>4. ASSUME NEW p \in Pids, FinDeIO(p) PROVE IInv'
  BY <1>4, PasoFinDeIO
<1>5. CASE PasoPlan
  BY <1>5, PasoDePlan DEF PasoPlan
<1>6. ASSUME NEW p \in Pids, ~PorDespertar(p), Despachar(p) PROVE IInv'
  BY <1>6, PasoDespachar
<1>7. CASE PlazoOrdenado
  BY <1>7, PasoDePlan DEF PlazoOrdenado
<1>8. CASE UNCHANGED vars
  BY <1>8, PasoQuieto
<1>9. ASSUME NEW p \in Pids, DespertarOrdenado(p) PROVE IInv'
  BY <1>9, PasoDespertar
<1> QED
  BY <1>1, <1>2, <1>3, <1>4, <1>5, <1>6, <1>7, <1>8, <1>9
     DEF PasoComun, PasoOrdenado, DespachoOrdenado, Terminado

THEOREM Invariante == SpecJusta => []IInv
BY InicioIInv, PasoIInv, PTL DEF SpecJusta

-----------------------------------------------------------------------------
(* The properties of the run *)

\* The variables keep their types.
THEOREM TiposCorrectos == SpecJusta => []TypeOK
<1>1. IInv => TypeOK
  BY DEF IInv
<1> QED
  BY <1>1, Invariante, PTL

LEMMA VecesEnLista ==
    ASSUME NEW s, NEW p, SinRepetir(s)
    PROVE  Cardinality({i \in DOMAIN s : s[i] = p}) = IF p \in ToSet(s) THEN 1 ELSE 0
<1>1. CASE p \in ToSet(s)
  <2>1. PICK i \in DOMAIN s : s[i] = p
    BY <1>1 DEF ToSet
  <2>2. {j \in DOMAIN s : s[j] = p} = {i}
    BY <2>1 DEF SinRepetir
  <2> QED
    BY <1>1, <2>2, FS_Singleton
<1>2. CASE p \notin ToSet(s)
  <2>1. {j \in DOMAIN s : s[j] = p} = {}
    BY <1>2 DEF ToSet
  <2> QED
    BY <1>2, <2>1, FS_EmptySet
<1> QED
  BY <1>1, <1>2

LEMMA VecesEnNiveles ==
    ASSUME TypeOK, ListaNiveles, NEW p \in Pids
    PROVE  /\ Cardinality(EnNiveles(p)) = IF EnReady(p) THEN 1 ELSE 0
           /\ \A x \in EnNiveles(p) : x[1] = pcb[p].prioridad
<1>1. DOMAIN niveles = 0 .. Niveles - 1
  BY Tipos
<1>2. ASSUME NEW x \in EnNiveles(p)
      PROVE  /\ x[1] \in 0 .. Niveles - 1 /\ x[2] \in DOMAIN niveles[x[1]] /\ x = <<x[1], x[2]>>
             /\ niveles[x[1]][x[2]] = p
             /\ EnReady(p) /\ x[1] = pcb[p].prioridad
  <2>1. PICK n \in DOMAIN niveles : x \in {n} \X DOMAIN niveles[n]
    BY DEF EnNiveles
  <2>2. /\ x[1] \in 0 .. Niveles - 1 /\ x[2] \in DOMAIN niveles[x[1]] /\ x = <<x[1], x[2]>>
        /\ niveles[x[1]][x[2]] = p
    BY <1>1, <2>1 DEF EnNiveles
  <2>3. p \in ToSet(niveles[x[1]])
    BY <2>2 DEF ToSet
  <2> QED
    BY <2>2, <2>3 DEF ListaNiveles
<1>3. CASE EnReady(p)
  <2> PICK n : n = pcb[p].prioridad
    OBVIOUS
  <2>1. n \in 0 .. Niveles - 1
    BY Tipos DEF TipoPcb
  <2>2. p \in ToSet(niveles[n]) /\ SinRepetir(niveles[n])
    BY <1>3, <2>1 DEF ListaNiveles
  <2>3. PICK i \in DOMAIN niveles[n] : niveles[n][i] = p
    BY <2>2 DEF ToSet
  <2>4. <<n, i>> \in EnNiveles(p)
    BY <1>1, <2>1, <2>3 DEF EnNiveles
  <2>5. ASSUME NEW x \in EnNiveles(p) PROVE x = <<n, i>>
    <3>1. x[1] = n /\ x[2] \in DOMAIN niveles[n] /\ niveles[n][x[2]] = p /\ x = <<x[1], x[2]>>
      BY <1>2
    <3>2. x[2] = i
      BY <2>2, <2>3, <3>1 DEF SinRepetir
    <3> QED
      BY <3>1, <3>2
  <2>6. EnNiveles(p) = {<<n, i>>}
    BY <2>4, <2>5
  <2>7. Cardinality(EnNiveles(p)) = 1
    BY <2>6, FS_Singleton
  <2> QED
    BY <1>2, <1>3, <2>7
<1>4. CASE ~EnReady(p)
  <2>1. EnNiveles(p) = {}
    BY <1>2, <1>4
  <2>2. Cardinality(EnNiveles(p)) = 0
    BY <2>1, FS_EmptySet
  <2> QED
    BY <1>2, <1>4, <2>2
<1> QED
  BY <1>3, <1>4

LEMMA VecesSuspendido ==
    ASSUME TypeOK, ListaSRdy, NEW p \in Pids
    PROVE  Cardinality({i \in DOMAIN s_rdy : s_rdy[i] = p})
             + Cardinality({r \in Rondas : rondas[r].fase = "quitado" /\ rondas[r].pid = p})
             = (IF Estado(p) = "S_RDY" THEN 1 ELSE 0)
<1> DEFINE suyas == {r \in Rondas : rondas[r].fase = "quitado" /\ rondas[r].pid = p}
           lugares == {i \in DOMAIN s_rdy : s_rdy[i] = p}
<1>1. suyas = {r \in Rondas : Quitado(r, p)}
  BY DEF Quitado
<1>2. Cardinality(lugares) = IF p \in ToSet(s_rdy) THEN 1 ELSE 0
  BY VecesEnLista DEF ListaSRdy
<1>3. /\ Estado(p) = "S_RDY" <=> p \in ToSet(s_rdy) \/ \E r \in Rondas : Quitado(r, p)
      /\ p \in ToSet(s_rdy) => \A r \in Rondas : ~Quitado(r, p)
      /\ \A r, t \in Rondas : Quitado(r, p) /\ Quitado(t, p) => r = t
  BY DEF ListaSRdy
<1>4. CASE \E r \in Rondas : Quitado(r, p)
  <2>1. PICK r \in Rondas : Quitado(r, p)
    BY <1>4
  <2>2. suyas = {r}
    BY <1>1, <1>3, <2>1
  <2>3. Cardinality(suyas) = 1
    BY <2>2, FS_Singleton
  <2>4. Cardinality(lugares) = 0
    BY <1>2, <1>3, <2>1
  <2> HIDE DEF suyas, lugares
  <2>5. Cardinality(lugares) + Cardinality(suyas) = IF Estado(p) = "S_RDY" THEN 1 ELSE 0
    BY <1>3, <1>4, <2>3, <2>4
  <2> QED
    BY <2>5 DEF suyas, lugares
<1>5. CASE \A r \in Rondas : ~Quitado(r, p)
  <2>1. suyas = {}
    BY <1>1, <1>5
  <2>2. Cardinality(suyas) = 0
    BY <2>1, FS_EmptySet
  <2> HIDE DEF suyas, lugares
  <2>3. Cardinality(lugares) + Cardinality(suyas) = IF Estado(p) = "S_RDY" THEN 1 ELSE 0
    BY <1>2, <1>3, <1>5, <2>2
  <2> QED
    BY <2>3 DEF suyas, lugares
<1> QED
  BY <1>4, <1>5

\* A process in READY is in one queue, that of its priority now, and only once, whatever
\* inherits, is rolled back or comes back from a suspension meanwhile; RUNNING and
\* SUSPENDED READY agree with the states too; and between a change of state and the calls
\* that follow from it, the lists are what those calls have still to do (ready_CMN,
\* actualizar_prioridad_pcb, nuevo_espacio, mediano_plazo_bck, mutex_lock and desalojo,
\* with no wake-up among the calls that block a process or take it to READY).
THEOREM ListasSiempreExactas == SpecJusta => []ListasExactas
<1>1. ASSUME IInv PROVE ListasExactas
  <2>0. TypeOK /\ ListaNiveles /\ ListaRnn /\ ListaSRdy
    BY <1>1 DEF IInv, Listas
  <2>1. ASSUME NEW p \in Pids
        PROVE  Cardinality({i \in DOMAIN rnn : rnn[i] = p}) = IF EnRunning(p) THEN 1 ELSE 0
    <3>1. SinRepetir(rnn) /\ (p \in ToSet(rnn) <=> EnRunning(p))
      BY <2>0 DEF ListaRnn
    <3> QED
      BY <3>1, VecesEnLista
  <2> QED
    BY <2>0, <2>1, VecesEnNiveles, VecesSuspendido DEF ListasExactas
<1> QED
  BY <1>1, Invariante, PTL

\* A process that may run has its segments in RAM: under the hypotheses on time, what the
\* scheduler believes of a suspension is what Kernel Memory did (mediano_plazo_bck,
\* nuevo_espacio).
THEOREM ResidenciaSiempreAcordada == SpecJusta => []ResidenciaAcordada
<1>1. ASSUME IInv PROVE ResidenciaAcordada
  BY <1>1 DEF IInv, Plazos, EnRam, ResidenciaAcordada
<1> QED
  BY <1>1, Invariante, PTL

\* Nobody is lost in the queue of a mutex: who is in it waits, and in no other; who waits
\* outside of all is about to be woken, or its own thread has not yet looked and will take
\* it to READY, wherever among the calls of mutex_lock the hand-off came (mutex_lock,
\* mutex_unlock and desalojo, with no wake-up among the calls that move a process).
THEOREM EsperaSiempreBien == SpecJusta => []EsperaSinPerderse
<1>1. ASSUME IInv PROVE EsperaSinPerderse
  <2> SUFFICES ASSUME NEW p \in Pids,
                      NEW colas, colas = {m \in Mutexes : p \in ToSet(mutex[m].cola)}
               PROVE  /\ Cardinality(colas) <= 1
                      /\ colas # {} => /\ pcb[p].esperando_io /\ p \notin en_io
                                       /\ \/ Estado(p) \in {"BCK", "S_BCK"}
                                          \/ hilo[p].paso = "encolado"
                      /\ Estado(p) \in {"BCK", "S_BCK"} /\ colas = {} /\ p \notin en_io =>
                             \/ PorDespertar(p)
                             \/ /\ Estado(p) = "BCK" /\ ~pcb[p].esperando_io
                                /\ \/ hilo[p].paso \in {"bloqueado", "agregado", "marca",
                                                      "guarda", "vuelve"}
                                   \/ hilo[p].paso = "interrupt" /\ p \in desalojo
    BY DEF EsperaSinPerderse
  <2>0. EsperaBien(p) /\ EnSuCpu(p) /\ Colas /\ TypeOK
    BY <1>1 DEF IInv, Esperas, Cpus
  <2>1. \A m \in Mutexes : m \in colas <=> EnCola(p, m)
    BY DEF EnCola
  <2>2. Cardinality(colas) <= 1
    <3>1. CASE colas = {}
      <4>1. Cardinality(colas) = 0
        BY <3>1, FS_EmptySet
      <4> QED
        BY <4>1
    <3>2. CASE colas # {}
      <4>1. PICK m : m \in colas
        BY <3>2
      <4>2. colas = {m}
        BY <2>0, <2>1, <4>1 DEF Colas
      <4>3. Cardinality(colas) = 1
        BY <4>2, FS_Singleton
      <4> QED
        BY <4>3
    <3> QED
      BY <3>1, <3>2
  <2>3. ASSUME colas # {}
        PROVE  /\ pcb[p].esperando_io /\ p \notin en_io
               /\ \/ Estado(p) \in {"BCK", "S_BCK"}
                  \/ hilo[p].paso = "encolado"
    <3>1. \E m \in Mutexes : EnCola(p, m)
      BY <2>1, <2>3
    <3> QED
      BY <2>0, <3>1 DEF EsperaBien
  <2>4. ASSUME Estado(p) \in {"BCK", "S_BCK"}, colas = {}, p \notin en_io
        PROVE  \/ PorDespertar(p)
               \/ /\ Estado(p) = "BCK" /\ ~pcb[p].esperando_io
                  /\ \/ hilo[p].paso \in {"bloqueado", "agregado", "marca", "guarda", "vuelve"}
                     \/ hilo[p].paso = "interrupt" /\ p \in desalojo
    <3>1. ~pcb[p].esperando_io
      BY <2>0, <2>1, <2>4 DEF EsperaBien
    <3>2. CASE EnCpu(p)
      <4>1. Estado(p) = "BCK"
        BY <2>0, <2>4, <3>2 DEF EnSuCpu
      <4>2. /\ hilo[p].paso \notin {"fuera", "fetch", "encolado", "despierta", "listo", "sale"}
            /\ hilo[p].paso = "interrupt" => p \in desalojo
        BY <2>0, <3>2, <4>1 DEF EnSuCpu, EnCpu
      <4>3. hilo[p].paso \in Pasos
        BY <2>0, Tipos DEF TipoHilo
      <4> QED
        BY <3>1, <4>1, <4>2, <4>3 DEF Pasos
    <3>3. CASE ~EnCpu(p)
      BY <2>0, <2>4, <3>1, <3>3 DEF EsperaBien
    <3> QED
      BY <3>2, <3>3
  <2> QED
    BY <2>2, <2>3, <2>4
<1> QED
  BY <1>1, Invariante, PTL

\* The owner of one mutex has the best of its own priority and those of the processes that
\* wait for it, as long as these hold none; and who holds no mutex has its own priority
\* back (actualizar_herencia, recalcular_prioridad).
THEOREM HerenciaSiempreJusta == SpecJusta => []HerenciaJusta
<1>1. IInv => HerenciaJusta
  BY DEF IInv
<1> QED
  BY <1>1, Invariante, PTL

=============================================================================

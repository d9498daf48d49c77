-------------------------- MODULE Exclusion_proofs --------------------------
(***************************************************************************)
(* The mutexes of the Kernel Scheduler (module MutexKS) are the locks of     *)
(* module Cerrojo, for any scripts, processes and mutexes, as long as no     *)
(* script asks for a mutex that does not exist or that it already has.       *)
(*                                                                         *)
(* A script is inside when it has passed its MUTEX_LOCK and not its          *)
(* MUTEX_UNLOCK; the scheduler keeps an owner and a queue.  The proof is     *)
(* that the two agree, whatever wakes, evicts or suspends the process.       *)
(***************************************************************************)
EXTENDS MutexKS_proofs

-----------------------------------------------------------------------------
(* The hypothesis, and the invariant *)

\* Whoever asks for a mutex finds it created, and does not own it.
Disciplina ==
    \A p \in Pids : Ejecuta(p, "MUTEX_LOCK") =>
        mutex[Actual(p).mutex].creado /\ mutex[Actual(p).mutex].duenio # p

LockDe(m) == [op |-> "MUTEX_LOCK", mutex |-> m]
UnlockDe(m) == [op |-> "MUTEX_UNLOCK", mutex |-> m]

\* In its first n instructions p has asked for m, and not given it back.
Pide(p, m, n) ==
    \E k \in 1 .. n :
        /\ programa[p][k] = LockDe(m)
        /\ \A j \in k + 1 .. n : programa[p][j] # UnlockDe(m)

\* Who has asked owns the mutex or is in its queue, and not both.
SeccionBien(p, m) ==
    /\ Pide(p, m, pc[p]) <=> mutex[m].duenio = p \/ EnCola(p, m)
    /\ mutex[m].duenio = p => ~EnCola(p, m)

Secciones ==
    \A m \in Mutexes :
        /\ ~mutex[m].creado => mutex[m].duenio = Nadie
        /\ \A p \in Pids : SeccionBien(p, m)

\* The two variables of Cerrojo, as Promesa of MutexKS reads them.
Dentro == [m \in Mutexes |-> {p \in Pids : EnSeccion(p, m)}]
Fila == [m \in Mutexes |-> mutex[m].cola]

-----------------------------------------------------------------------------
(* The scripts *)

LEMMA Seccion ==
    ASSUME NEW p \in Pids, NEW m \in Mutexes
    PROVE  EnSeccion(p, m) <=> Pide(p, m, pc[p]) /\ ~EnCola(p, m)
BY DEF EnSeccion, Pide, EnCola, LockDe, UnlockDe

\* One instruction more: it asks, or it gives back, or it changes nothing.
LEMMA PideUnaMas ==
    ASSUME NEW p \in Pids, NEW m \in Mutexes, NEW n \in Nat,
           NEW i, i = programa[p][n + 1]
    PROVE  Pide(p, m, n + 1) <=> i = LockDe(m) \/ (Pide(p, m, n) /\ i # UnlockDe(m))
<1>1. ASSUME Pide(p, m, n + 1), i # LockDe(m) PROVE Pide(p, m, n) /\ i # UnlockDe(m)
  <2>1. PICK k \in 1 .. n + 1 :
            /\ programa[p][k] = LockDe(m)
            /\ \A j \in k + 1 .. n + 1 : programa[p][j] # UnlockDe(m)
    BY <1>1 DEF Pide
  <2>2. k # n + 1
    BY <1>1, <2>1
  <2>3. k \in 1 .. n /\ n + 1 \in k + 1 .. n + 1 /\ \A j \in k + 1 .. n : j \in k + 1 .. n + 1
    BY <2>2
  <2> QED
    BY <2>1, <2>3 DEF Pide
<1>2. ASSUME i = LockDe(m) PROVE Pide(p, m, n + 1)
  <2>1. n + 1 \in 1 .. n + 1 /\ (n + 1) + 1 .. n + 1 = {}
    OBVIOUS
  <2> QED
    BY <1>2, <2>1 DEF Pide
<1>3. ASSUME Pide(p, m, n), i # UnlockDe(m) PROVE Pide(p, m, n + 1)
  <2>1. PICK k \in 1 .. n :
            /\ programa[p][k] = LockDe(m)
            /\ \A j \in k + 1 .. n : programa[p][j] # UnlockDe(m)
    BY <1>3 DEF Pide
  <2>2. ASSUME NEW j \in k + 1 .. n + 1 PROVE programa[p][j] # UnlockDe(m)
    <3>1. j = n + 1 \/ j \in k + 1 .. n
      OBVIOUS
    <3> QED
      BY <1>3, <2>1, <3>1
  <2>3. k \in 1 .. n + 1
    OBVIOUS
  <2> QED
    BY <2>1, <2>2, <2>3 DEF Pide
<1>4. LockDe(m) # UnlockDe(m)
  BY DEF LockDe, UnlockDe
<1> QED
  BY <1>1, <1>2, <1>3, <1>4

LEMMA ActualEs ==
    ASSUME TypeOK, NEW p \in Pids, NEW m \in Mutexes, Actual(p).op # "EXIT"
    PROVE  /\ Actual(p) = programa[p][pc[p] + 1]
           /\ Actual(p) = LockDe(m) <=> Actual(p).op = "MUTEX_LOCK" /\ Actual(p).mutex = m
           /\ Actual(p) = UnlockDe(m) <=> Actual(p).op = "MUTEX_UNLOCK" /\ Actual(p).mutex = m
<1>1. programa[p] \in Seq(Instruccion) /\ pc[p] \in Nat
  BY InstruccionBien
<1>2. pc[p] < Len(programa[p])
  BY DEF Actual
<1>3. Actual(p) = programa[p][pc[p] + 1] /\ pc[p] + 1 \in 1 .. Len(programa[p])
  BY <1>1, <1>2 DEF Actual
<1>4. Actual(p) \in Instruccion
  BY <1>1, <1>3
<1> QED
  BY <1>3, <1>4 DEF Instruccion, LockDe, UnlockDe

\* The instruction of p is behind it: what the scripts have asked for now.
LEMMA PideDespues ==
    ASSUME TypeOK, NEW p \in Pids, Actual(p).op # "EXIT",
           pc' = [pc EXCEPT ![p] = @ + 1], UNCHANGED programa,
           NEW q \in Pids, NEW m \in Mutexes
    PROVE  Pide(q, m, pc[q])' <=>
               \/ /\ q = p
                  /\ \/ Actual(p).op = "MUTEX_LOCK" /\ Actual(p).mutex = m
                     \/ /\ Pide(p, m, pc[p])
                        /\ ~(Actual(p).op = "MUTEX_UNLOCK" /\ Actual(p).mutex = m)
               \/ q # p /\ Pide(q, m, pc[q])
<1>1. pc \in [Pids -> Nat]
  BY DEF TypeOK
<1>2. pc'[q] = IF q = p THEN pc[p] + 1 ELSE pc[q]
  BY <1>1
<1>3. Pide(q, m, pc[q])' <=> Pide(q, m, pc'[q])
  BY DEF Pide
<1>4. Pide(p, m, pc[p] + 1) <=>
          Actual(p) = LockDe(m) \/ (Pide(p, m, pc[p]) /\ Actual(p) # UnlockDe(m))
  BY <1>1, ActualEs, PideUnaMas
<1>5. CASE q = p
  <2>1. pc'[q] = pc[p] + 1
    BY <1>2, <1>5
  <2>2. Pide(q, m, pc[q])' <=> Pide(p, m, pc[p] + 1)
    BY <1>3, <1>5, <2>1
  <2> QED
    BY <1>4, <1>5, <2>2, ActualEs
<1>6. CASE q # p
  BY <1>2, <1>3, <1>6
<1> QED
  BY <1>5, <1>6

-----------------------------------------------------------------------------
(* The steps that take and give no mutex *)

LEMMA SeccionesQuietas ==
    ASSUME Secciones, UNCHANGED <<programa, pc, mutex>>
    PROVE  Secciones'
BY DEF Secciones, SeccionBien, Pide, EnCola

\* An instruction that is no MUTEX_LOCK, nor the MUTEX_UNLOCK of an owner.
LEMMA SeccionesSinMutex ==
    ASSUME IInv, Secciones, NEW p \in Pids, hilo[p].paso = "fetch",
           Actual(p).op \notin {"MUTEX_LOCK", "EXIT"},
           Actual(p).op = "MUTEX_UNLOCK" => mutex[Actual(p).mutex].duenio # p,
           pc' = [pc EXCEPT ![p] = @ + 1], UNCHANGED programa,
           \A m \in Mutexes : /\ mutex'[m].duenio = mutex[m].duenio
                              /\ mutex'[m].cola = mutex[m].cola
                              /\ mutex[m].creado => mutex'[m].creado
    PROVE  Secciones'
<1>0. TypeOK
  BY DEF IInv
<1> SUFFICES ASSUME NEW m \in Mutexes, NEW q \in Pids PROVE SeccionBien(q, m)'
  BY DEF Secciones
<1>1. EnCola(q, m)' <=> EnCola(q, m)
  BY DEF EnCola
<1>2. SeccionBien(q, m) /\ SeccionBien(p, m) /\ ~EnCola(p, m)
  BY DuenioEspera DEF Secciones
<1>3. Pide(q, m, pc[q])' <=> Pide(q, m, pc[q])
  <2>1. CASE q = p
    <3>1. Pide(p, m, pc[p]) => ~(Actual(p).op = "MUTEX_UNLOCK" /\ Actual(p).mutex = m)
      BY <1>2 DEF SeccionBien
    <3> QED
      BY <1>0, <2>1, <3>1, PideDespues
  <2>2. CASE q # p
    BY <1>0, <2>2, PideDespues
  <2> QED
    BY <2>1, <2>2
<1> QED
  BY <1>1, <1>2, <1>3 DEF SeccionBien

-----------------------------------------------------------------------------
(* What Cerrojo sees *)

LEMMA Dentros == Secciones => \A m \in Mutexes : Dentro[m] = {p \in Pids : mutex[m].duenio = p}
<1> SUFFICES ASSUME Secciones, NEW m \in Mutexes
             PROVE  Dentro[m] = {p \in Pids : mutex[m].duenio = p}
  OBVIOUS
<1>1. ASSUME NEW p \in Pids PROVE EnSeccion(p, m) <=> mutex[m].duenio = p
  BY Seccion DEF Secciones, SeccionBien
<1> QED
  BY <1>1 DEF Dentro

LEMMA DentrosDespues ==
    Secciones' => \A m \in Mutexes : Dentro'[m] = {p \in Pids : mutex'[m].duenio = p}
<1> SUFFICES ASSUME Secciones', NEW m \in Mutexes
             PROVE  Dentro'[m] = {p \in Pids : mutex'[m].duenio = p}
  OBVIOUS
<1>1. ASSUME NEW p \in Pids PROVE EnSeccion(p, m)' <=> mutex'[m].duenio = p
  <2>1. SeccionBien(p, m)'
    BY DEF Secciones
  <2>2. EnSeccion(p, m)' <=> Pide(p, m, pc[p])' /\ ~EnCola(p, m)'
    BY DEF EnSeccion, Pide, EnCola, LockDe, UnlockDe
  <2> QED
    BY <2>1, <2>2 DEF SeccionBien
<1> QED
  BY <1>1 DEF Dentro

\* The same owners and queues: Cerrojo does not move.
LEMMA CerrojoQuieto ==
    ASSUME Secciones, Secciones',
           \A m \in Mutexes : /\ mutex'[m].duenio = mutex[m].duenio
                              /\ mutex'[m].cola = mutex[m].cola
    PROVE  Dentro' = Dentro /\ Fila' = Fila
<1>1. ASSUME NEW m \in Mutexes PROVE Dentro'[m] = Dentro[m]
  <2>1. Dentro[m] = {p \in Pids : mutex[m].duenio = p}
    BY Dentros
  <2>2. Dentro'[m] = {p \in Pids : mutex'[m].duenio = p}
    BY DentrosDespues
  <2> QED
    BY <2>1, <2>2
<1>2. Dentro = [m \in Mutexes |-> Dentro[m]] /\ Dentro' = [m \in Mutexes |-> Dentro'[m]]
  BY DEF Dentro
<1> QED
  BY <1>1, <1>2 DEF Fila

\* One mutex changes its owner, or its queue.
LEMMA CerrojoPasa ==
    ASSUME Secciones, Secciones', NEW m \in Mutexes, NEW d, NEW c,
           {p \in Pids : mutex'[m].duenio = p} = d, mutex'[m].cola = c,
           \A n \in Mutexes \ {m} : mutex'[n] = mutex[n]
    PROVE  Dentro' = [Dentro EXCEPT ![m] = d] /\ Fila' = [Fila EXCEPT ![m] = c]
<1>1. ASSUME NEW n \in Mutexes PROVE Dentro'[n] = IF n = m THEN d ELSE Dentro[n]
  <2>1. Dentro[n] = {p \in Pids : mutex[n].duenio = p}
    BY Dentros
  <2>2. Dentro'[n] = {p \in Pids : mutex'[n].duenio = p}
    BY DentrosDespues
  <2>3. CASE n = m
    BY <2>2, <2>3
  <2>4. CASE n # m
    BY <2>1, <2>2, <2>4
  <2> QED
    BY <2>3, <2>4
<1>2. Dentro = [n \in Mutexes |-> Dentro[n]] /\ Dentro' = [n \in Mutexes |-> Dentro'[n]]
  BY DEF Dentro
<1>3. Dentro' = [Dentro EXCEPT ![m] = d]
  BY <1>1, <1>2
<1>4. Fila' = [Fila EXCEPT ![m] = c]
  BY DEF Fila
<1> QED
  BY <1>3, <1>4

-----------------------------------------------------------------------------
(* The steps of the mutexes *)

\* A free mutex: the process enters.
LEMMA CerrojoEntra ==
    ASSUME IInv, Secciones, NEW p \in Pids, LockLibre(p), NEW m, m = Actual(p).mutex
    PROVE  Secciones' /\ m \in Mutexes /\ Promesa!Entrar(m, p)
<1> DEFINE v == [mutex[m] EXCEPT !.valor = 0, !.duenio = p]
<1>0. TypeOK /\ Colas
  BY DEF IInv
<1>1. /\ hilo[p].paso = "fetch" /\ Actual(p).op = "MUTEX_LOCK"
      /\ mutex[m].creado /\ mutex[m].valor = 1
      /\ mutex' = [mutex EXCEPT ![m] = v]
      /\ pc' = [pc EXCEPT ![p] = @ + 1] /\ UNCHANGED programa
  BY DEF LockLibre, Ejecuta, Cumplida
<1>2. m \in Mutexes
  BY <1>0, <1>1, InstruccionBien
<1>3. mutex[m].duenio = Nadie /\ mutex[m].cola = <<>> /\ mutex[m] \in TipoMutex
  BY <1>0, <1>1, <1>2, MutexBien, Tipos
<1>4. v \in TipoMutex /\ v.duenio = p /\ v.cola = <<>> /\ v.creado
  BY <1>1, <1>3 DEF TipoMutex
<1> HIDE DEF v
<1>5. mutex'[m] = v /\ \A n \in Mutexes \ {m} : mutex'[n] = mutex[n]
  BY <1>0, <1>1, <1>2, <1>4, MutexPasa
<1>6. ToSet(<<>>) = {} /\ \A q \in Pids : ~EnCola(q, m) /\ ~EnCola(q, m)'
  BY <1>3, <1>4, <1>5 DEF EnCola, ToSet
<1>7. ASSUME NEW n \in Mutexes, NEW q \in Pids PROVE SeccionBien(q, n)'
  <2>1. SeccionBien(q, n)
    BY DEF Secciones
  <2>2. Pide(q, n, pc[q])' <=> (q = p /\ n = m) \/ Pide(q, n, pc[q])
    BY <1>0, <1>1, PideDespues
  <2>3. CASE n = m
    <3>1. ~Pide(q, m, pc[q])
      BY <1>3, <1>6, <2>1, <2>3, MutexAssumption, MedianoPlazoAssumption DEF SeccionBien
    <3>2. mutex'[m].duenio = p
      BY <1>4, <1>5
    <3> QED
      BY <1>6, <2>2, <2>3, <3>1, <3>2 DEF SeccionBien
  <2>4. CASE n # m
    <3>1. mutex'[n] = mutex[n]
      BY <1>5, <2>4
    <3> QED
      BY <2>1, <2>2, <2>4, <3>1 DEF SeccionBien, EnCola
  <2> QED
    BY <2>3, <2>4
<1>8. ASSUME NEW n \in Mutexes, ~mutex'[n].creado PROVE mutex'[n].duenio = Nadie
  BY <1>4, <1>5, <1>8 DEF Secciones
<1>9. Secciones'
  BY <1>7, <1>8 DEF Secciones
<1>10. Dentro' = [Dentro EXCEPT ![m] = {p}] /\ Fila' = [Fila EXCEPT ![m] = <<>>]
  <2>1. {q \in Pids : mutex'[m].duenio = q} = {p} /\ mutex'[m].cola = <<>>
    BY <1>4, <1>5
  <2> QED
    BY <1>2, <1>5, <1>9, <2>1, CerrojoPasa
<1>11. Dentro[m] = {} /\ Fila[m] = <<>>
  <2>1. Dentro[m] = {q \in Pids : mutex[m].duenio = q}
    BY <1>2, Dentros
  <2> QED
    BY <1>2, <1>3, <2>1, MedianoPlazoAssumption DEF Fila
<1>12. Fila' = Fila
  BY <1>10, <1>11 DEF Fila
<1> QED
  BY <1>2, <1>9, <1>10, <1>11, <1>12 DEF Promesa!Entrar, Dentro, Fila

\* A mutex of another: the process joins the queue.
LEMMA CerrojoEspera ==
    ASSUME IInv, Secciones, Disciplina, NEW p \in Pids, LockTomado(p),
           NEW m, m = Actual(p).mutex
    PROVE  Secciones' /\ m \in Mutexes /\ Promesa!Esperar(m, p)
<1> DEFINE c == Append(mutex[m].cola, p)
           v == [mutex[m] EXCEPT !.cola = c]
<1>0. TypeOK /\ Colas
  BY DEF IInv
<1>1. /\ hilo[p].paso = "fetch" /\ Actual(p).op = "MUTEX_LOCK"
      /\ mutex[m].creado /\ mutex[m].valor = 0
      /\ mutex' = [mutex EXCEPT ![m] = v]
      /\ pc' = [pc EXCEPT ![p] = @ + 1] /\ UNCHANGED programa
  BY DEF LockTomado, Ejecuta
<1>2. m \in Mutexes
  BY <1>0, <1>1, InstruccionBien
<1>3. /\ mutex[m].duenio \in Pids /\ mutex[m].duenio # p
      /\ mutex[m].cola \in Seq(Pids) /\ mutex[m] \in TipoMutex
  <2>1. mutex[m].duenio # p
    BY <1>1 DEF Disciplina, Ejecuta
  <2> QED
    BY <1>0, <1>1, <1>2, <2>1, MutexBien, Tipos
<1>4. c \in Seq(Pids) /\ ToSet(c) = ToSet(mutex[m].cola) \cup {p}
  BY <1>3, AgregarAlFinal
<1> HIDE DEF c
<1>5. v \in TipoMutex /\ v.duenio = mutex[m].duenio /\ v.cola = c /\ v.creado = mutex[m].creado
  BY <1>3, <1>4 DEF TipoMutex
<1> HIDE DEF v
<1>6. mutex'[m] = v /\ \A n \in Mutexes \ {m} : mutex'[n] = mutex[n]
  BY <1>0, <1>1, <1>2, <1>5, MutexPasa
<1>7. \A n \in Mutexes : ~EnCola(p, n)
  BY <1>1, DuenioEspera
<1>8. ASSUME NEW n \in Mutexes, NEW q \in Pids PROVE SeccionBien(q, n)'
  <2>1. SeccionBien(q, n)
    BY DEF Secciones
  <2>2. Pide(q, n, pc[q])' <=> (q = p /\ n = m) \/ Pide(q, n, pc[q])
    BY <1>0, <1>1, PideDespues
  <2>3. CASE n = m
    <3>1. EnCola(q, m)' <=> q = p \/ EnCola(q, m)
      BY <1>4, <1>5, <1>6 DEF EnCola
    <3>2. mutex'[m].duenio = mutex[m].duenio
      BY <1>5, <1>6
    <3> QED
      BY <1>3, <2>1, <2>2, <2>3, <3>1, <3>2 DEF SeccionBien
  <2>4. CASE n # m
    <3>1. mutex'[n] = mutex[n]
      BY <1>6, <2>4
    <3> QED
      BY <2>1, <2>2, <2>4, <3>1 DEF SeccionBien, EnCola
  <2> QED
    BY <2>3, <2>4
<1>9. ASSUME NEW n \in Mutexes, ~mutex'[n].creado PROVE mutex'[n].duenio = Nadie
  BY <1>1, <1>5, <1>6, <1>9 DEF Secciones
<1>10. Secciones'
  BY <1>8, <1>9 DEF Secciones
<1>11. Dentro[m] = {mutex[m].duenio}
  <2>1. Dentro[m] = {q \in Pids : mutex[m].duenio = q}
    BY <1>2, Dentros
  <2> QED
    BY <1>3, <2>1
<1>12. Dentro' = [Dentro EXCEPT ![m] = Dentro[m]] /\ Fila' = [Fila EXCEPT ![m] = c]
  <2>1. {q \in Pids : mutex'[m].duenio = q} = Dentro[m] /\ mutex'[m].cola = c
    BY <1>3, <1>5, <1>6, <1>11
  <2> QED
    BY <1>2, <1>6, <1>10, <2>1, CerrojoPasa
<1>13. Dentro' = Dentro
  BY <1>12 DEF Dentro
<1>14. /\ Dentro[m] # {} /\ c = Append(Fila[m], p)
       /\ p \notin Dentro[m] \cup Promesa!ToSet(Fila[m])
  <2>1. Fila[m] = mutex[m].cola
    BY <1>2 DEF Fila
  <2>2. Promesa!ToSet(Fila[m]) = ToSet(Fila[m])
    BY DEF Promesa!ToSet, ToSet
  <2> QED
    BY <1>2, <1>3, <1>7, <1>11, <2>1, <2>2 DEF EnCola, c
<1>15. Promesa!Esperar(m, p)
  BY <1>12, <1>13, <1>14 DEF Promesa!Esperar, Dentro, Fila
<1> QED
  BY <1>2, <1>10, <1>15

\* The owner leaves, and the first of the queue enters in the same step.
LEMMA CerrojoSale ==
    ASSUME IInv, Secciones, NEW p \in Pids, UnlockSinEspera(p) \/ UnlockTraspaso(p),
           NEW m, m = Actual(p).mutex
    PROVE  Secciones' /\ m \in Mutexes /\ Promesa!Salir(m)
<1> DEFINE v == MutexSoltado(m)
<1>0. TypeOK /\ Colas
  BY DEF IInv
<1>1. /\ hilo[p].paso = "fetch" /\ Actual(p).op = "MUTEX_UNLOCK"
      /\ mutex[m].creado /\ mutex[m].duenio = p
      /\ mutex' = [mutex EXCEPT ![m] = v]
      /\ pc' = [pc EXCEPT ![p] = @ + 1] /\ UNCHANGED programa
  BY DEF UnlockSinEspera, UnlockTraspaso, Ejecuta, Cumplida
<1>2. m \in Mutexes
  BY <1>0, <1>1, InstruccionBien
<1>3. /\ mutex[m].cola \in Seq(Pids) /\ mutex[m] \in TipoMutex /\ SinRepetir(mutex[m].cola)
  BY <1>0, <1>2, MutexBien, Tipos DEF Colas
<1>4. /\ v \in TipoMutex /\ v.creado
      /\ mutex[m].cola = <<>> => v.duenio = Nadie /\ v.cola = <<>>
      /\ mutex[m].cola # <<>> =>
             v.duenio = Head(mutex[m].cola) /\ v.cola = Tail(mutex[m].cola)
  <2>1. CASE mutex[m].cola = <<>>
    BY <1>1, <1>3, <2>1 DEF MutexSoltado, TipoMutex
  <2>2. CASE mutex[m].cola # <<>>
    <3>1. Head(mutex[m].cola) \in Pids /\ Tail(mutex[m].cola) \in Seq(Pids)
      BY <1>3, <2>2, SacarPrimero
    <3> QED
      BY <1>1, <1>3, <2>2, <3>1 DEF MutexSoltado, TipoMutex
  <2> QED
    BY <2>1, <2>2
<1> HIDE DEF v
<1>5. mutex'[m] = v /\ \A n \in Mutexes \ {m} : mutex'[n] = mutex[n]
  BY <1>0, <1>1, <1>2, <1>4, MutexPasa
<1>6. \A n \in Mutexes : ~EnCola(p, n)
  BY <1>1, DuenioEspera
\* Of those that wait, the first owns the mutex now and the others wait still.
<1>7. ASSUME NEW q \in Pids
      PROVE  /\ v.duenio = q \/ q \in ToSet(v.cola) <=> EnCola(q, m)
             /\ v.duenio = q => q \notin ToSet(v.cola)
  <2>1. CASE mutex[m].cola = <<>>
    BY <1>4, <2>1, MedianoPlazoAssumption DEF EnCola, ToSet
  <2>2. CASE mutex[m].cola # <<>>
    <3>1. /\ Head(mutex[m].cola) \in ToSet(mutex[m].cola)
          /\ ToSet(Tail(mutex[m].cola)) = ToSet(mutex[m].cola) \ {Head(mutex[m].cola)}
      BY <1>3, <2>2, SacarPrimero
    <3> QED
      BY <1>4, <2>2, <3>1 DEF EnCola
  <2> QED
    BY <2>1, <2>2
<1>8. ASSUME NEW n \in Mutexes, NEW q \in Pids PROVE SeccionBien(q, n)'
  <2>1. SeccionBien(q, n)
    BY DEF Secciones
  <2>2. Pide(q, n, pc[q])' <=> Pide(q, n, pc[q]) /\ ~(q = p /\ n = m)
    BY <1>0, <1>1, PideDespues
  <2>3. CASE n = m
    <3>1. EnCola(q, m)' <=> q \in ToSet(v.cola)
      BY <1>5 DEF EnCola
    <3>2. mutex'[m].duenio = v.duenio
      BY <1>5
    <3>3. q # p => (Pide(q, m, pc[q]) <=> EnCola(q, m))
      BY <1>1, <2>1, <2>3 DEF SeccionBien
    <3> QED
      BY <1>6, <1>7, <2>2, <2>3, <3>1, <3>2, <3>3 DEF SeccionBien
  <2>4. CASE n # m
    <3>1. mutex'[n] = mutex[n]
      BY <1>5, <2>4
    <3> QED
      BY <2>1, <2>2, <2>4, <3>1 DEF SeccionBien, EnCola
  <2> QED
    BY <2>3, <2>4
<1>9. ASSUME NEW n \in Mutexes, ~mutex'[n].creado PROVE mutex'[n].duenio = Nadie
  BY <1>4, <1>5, <1>9 DEF Secciones
<1>10. Secciones'
  BY <1>8, <1>9 DEF Secciones
<1>11. Dentro[m] = {p} /\ Fila[m] = mutex[m].cola
  <2>1. Dentro[m] = {q \in Pids : mutex[m].duenio = q}
    BY <1>2, Dentros
  <2> QED
    BY <1>1, <1>2, <2>1 DEF Fila
<1>12. CASE mutex[m].cola = <<>>
  <2>1. Dentro' = [Dentro EXCEPT ![m] = {}] /\ Fila' = [Fila EXCEPT ![m] = <<>>]
    <3>1. {q \in Pids : mutex'[m].duenio = q} = {} /\ mutex'[m].cola = <<>>
      BY <1>4, <1>5, <1>12, MedianoPlazoAssumption
    <3> DEFINE d == {}
               c == <<>>
    <3>2. {q \in Pids : mutex'[m].duenio = q} = d /\ mutex'[m].cola = c
      BY <3>1
    <3> HIDE DEF d, c
    <3>3. Dentro' = [Dentro EXCEPT ![m] = d] /\ Fila' = [Fila EXCEPT ![m] = c]
      BY <1>2, <1>5, <1>10, <3>2, CerrojoPasa
    <3> QED
      BY <3>3 DEF d, c
  <2>2. Fila' = Fila
    BY <1>11, <1>12, <2>1 DEF Fila
  <2> QED
    BY <1>2, <1>10, <1>11, <1>12, <2>1, <2>2 DEF Promesa!Salir, Dentro, Fila
<1>13. CASE mutex[m].cola # <<>>
  <2> DEFINE d == {Head(mutex[m].cola)}
             c == Tail(mutex[m].cola)
  <2>0. {q \in Pids : mutex'[m].duenio = q} = d /\ mutex'[m].cola = c
    <3>1. Head(mutex[m].cola) \in Pids
      BY <1>3, <1>13, SacarPrimero
    <3> QED
      BY <1>4, <1>5, <1>13, <3>1
  <2> HIDE DEF d, c
  <2>1. Dentro' = [Dentro EXCEPT ![m] = d] /\ Fila' = [Fila EXCEPT ![m] = c]
    BY <1>2, <1>5, <1>10, <2>0, CerrojoPasa
  <2> QED
    BY <1>2, <1>10, <1>11, <1>13, <2>1 DEF Promesa!Salir, Dentro, Fila, d, c
<1> QED
  BY <1>12, <1>13

\* The instructions that leave every owner and every queue as they are.
LEMMA CerrojoIgual ==
    ASSUME IInv, Secciones, NEW p \in Pids,
           \/ Noop(p) \/ Sleep(p) \/ InitProc(p) \/ MutexCreate(p)
           \/ UnlockInexistente(p) \/ UnlockAjeno(p)
    PROVE  Secciones' /\ Dentro' = Dentro /\ Fila' = Fila
<1>0. TypeOK
  BY DEF IInv
<1>1. /\ hilo[p].paso = "fetch" /\ Actual(p).op \notin {"MUTEX_LOCK", "EXIT"}
      /\ pc' = [pc EXCEPT ![p] = @ + 1] /\ UNCHANGED programa
  BY DEF Noop, Sleep, InitProc, MutexCreate, UnlockInexistente, UnlockAjeno, Ejecuta, Cumplida
<1>2. \A m \in Mutexes : /\ mutex'[m].duenio = mutex[m].duenio
                         /\ mutex'[m].cola = mutex[m].cola
                         /\ mutex[m].creado => mutex'[m].creado
  <2>1. CASE MutexCreate(p)
    <3> DEFINE m == Actual(p).mutex
               v == [mutex[m] EXCEPT !.creado = TRUE]
    <3>1. mutex' = [mutex EXCEPT ![m] = v] /\ Actual(p).op = "MUTEX_CREATE"
      BY <2>1 DEF MutexCreate, Ejecuta
    <3>2. m \in Mutexes
      BY <1>0, <3>1, InstruccionBien
    <3> HIDE DEF m
    <3>3. mutex[m] \in TipoMutex
      BY <1>0, <3>2, Tipos
    <3>4. /\ v \in TipoMutex /\ v.duenio = mutex[m].duenio /\ v.cola = mutex[m].cola
          /\ v.creado
      BY <3>3 DEF TipoMutex
    <3> HIDE DEF v
    <3>5. mutex'[m] = v /\ \A n \in Mutexes \ {m} : mutex'[n] = mutex[n]
      BY <1>0, <3>1, <3>2, <3>4, MutexPasa
    <3> QED
      BY <3>4, <3>5
  <2>2. CASE \/ Noop(p) \/ Sleep(p) \/ InitProc(p) \/ UnlockInexistente(p) \/ UnlockAjeno(p)
    BY <2>2 DEF Noop, Sleep, InitProc, UnlockInexistente, UnlockAjeno
  <2> QED
    BY <2>1, <2>2
<1>3. Actual(p).op = "MUTEX_UNLOCK" => mutex[Actual(p).mutex].duenio # p
  <2>1. CASE UnlockInexistente(p)
    <3>1. Actual(p).mutex \in Mutexes /\ ~mutex[Actual(p).mutex].creado
      BY <1>0, <2>1, InstruccionBien DEF UnlockInexistente, Ejecuta
    <3>2. mutex[Actual(p).mutex].duenio = Nadie
      BY <3>1 DEF Secciones
    <3> QED
      BY <3>2, MedianoPlazoAssumption
  <2>2. CASE UnlockAjeno(p)
    BY <2>2 DEF UnlockAjeno
  <2>3. CASE Noop(p) \/ Sleep(p) \/ InitProc(p) \/ MutexCreate(p)
    BY <2>3 DEF Noop, Sleep, InitProc, MutexCreate, Ejecuta
  <2> QED
    BY <2>1, <2>2, <2>3
<1>4. Secciones'
  BY <1>1, <1>2, <1>3, SeccionesSinMutex
<1> QED
  BY <1>2, <1>4, CerrojoQuieto

\* The steps of the scheduler that carry out no instruction.
LEMMA CerrojoSinPaso ==
    ASSUME Secciones, UNCHANGED <<programa, pc, mutex>>
    PROVE  Secciones' /\ Dentro' = Dentro /\ Fila' = Fila
<1>1. Secciones'
  BY SeccionesQuietas
<1> QED
  BY <1>1, CerrojoQuieto

-----------------------------------------------------------------------------
(* The refinement *)

LEMMA PasoCerrojo ==
    ASSUME IInv, Secciones, Disciplina, [PasoComun \/ PasoOrdenado \/ Terminado]_vars
    PROVE  Secciones' /\ (Promesa!Next \/ (Dentro' = Dentro /\ Fila' = Fila))
<1>1. ASSUME NEW p \in Pids, Paso(p)
      PROVE  Secciones' /\ (Promesa!Next \/ (Dentro' = Dentro /\ Fila' = Fila))
  <2>1. CASE \/ Noop(p) \/ Sleep(p) \/ InitProc(p) \/ MutexCreate(p)
             \/ UnlockInexistente(p) \/ UnlockAjeno(p)
    BY <2>1, CerrojoIgual
  <2>2. CASE LockLibre(p)
    BY <2>2, CerrojoEntra DEF Promesa!Next
  <2>3. CASE LockTomado(p)
    BY <2>3, CerrojoEspera DEF Promesa!Next
  <2>4. CASE UnlockSinEspera(p) \/ UnlockTraspaso(p)
    BY <2>4, CerrojoSale DEF Promesa!Next
  <2>5. ~LockInexistente(p)
    BY DEF LockInexistente, Disciplina
  <2>6. CASE \/ Exit(p) \/ Bloquear(p) \/ MarcarAlTerminar(p) \/ Interrupt(p)
             \/ OkDesalojo(p) \/ Volver(p) \/ Agregar(p) \/ Eliminar(p)
    <3>1. UNCHANGED <<programa, pc, mutex>>
      BY <2>6 DEF Exit, Bloquear, MarcarAlTerminar, Interrupt, OkDesalojo, Volver,
                  Agregar, Eliminar
    <3> QED
      BY <3>1, CerrojoSinPaso
  <2> QED
    BY <1>1, <2>1, <2>2, <2>3, <2>4, <2>5, <2>6 DEF Paso
<1>2. CASE \/ CrearInicial \/ PasoPlan \/ PasoOrdenado \/ UNCHANGED vars
           \/ \E p \in Pids : FinQuantum(p) \/ FinDeIO(p)
  <2>1. CASE PasoOrdenado
    <3>1. ASSUME NEW p \in Pids, DespertarOrdenado(p) PROVE UNCHANGED <<programa, pc, mutex>>
      BY <3>1 DEF DespertarOrdenado, Despertado, Despertar
    <3>2. DespachoOrdenado \/ PlazoOrdenado => UNCHANGED <<programa, pc, mutex>>
      BY DEF DespachoOrdenado, Despachar, PlazoOrdenado
    <3> QED
      BY <2>1, <3>1, <3>2, CerrojoSinPaso DEF PasoOrdenado
  <2>2. CASE \/ CrearInicial \/ PasoPlan \/ UNCHANGED vars
             \/ \E p \in Pids : FinQuantum(p) \/ FinDeIO(p)
    <3>1. UNCHANGED <<programa, pc, mutex>>
      BY <2>2 DEF CrearInicial, PasoPlan, FinQuantum, FinDeIO, vars
    <3> QED
      BY <3>1, CerrojoSinPaso
  <2> QED
    BY <1>2, <2>1, <2>2
<1> QED
  BY <1>1, <1>2 DEF PasoComun, Terminado

LEMMA SeccionesAlEmpezar == Init => Secciones
<1> SUFFICES ASSUME Init PROVE Secciones
  OBVIOUS
<1>1. ASSUME NEW m \in Mutexes
      PROVE  mutex[m].duenio = Nadie /\ mutex[m].cola = <<>>
  BY DEF Init
<1>2. ASSUME NEW m \in Mutexes, NEW p \in Pids PROVE SeccionBien(p, m)
  <2>1. pc[p] = 0 /\ 1 .. 0 = {}
    BY DEF Init
  <2>2. ~Pide(p, m, pc[p])
    BY <2>1 DEF Pide
  <2>3. ~EnCola(p, m) /\ mutex[m].duenio # p
    BY <1>1, MedianoPlazoAssumption DEF EnCola, ToSet
  <2> QED
    BY <2>2, <2>3 DEF SeccionBien
<1> QED
  BY <1>1, <1>2 DEF Secciones

\* Who has passed its MUTEX_LOCK of a mutex and not its MUTEX_UNLOCK owns it or is in its
\* queue, never both: what the scheduler keeps is what the scripts have done (mutex_lock,
\* mutex_unlock).
THEOREM SeccionesSiempreBien == SpecJusta /\ []Disciplina => []Secciones
<1>1. IInv /\ Disciplina /\ Secciones /\ [PasoComun \/ PasoOrdenado \/ Terminado]_vars
          => Secciones'
  BY PasoCerrojo
<1> QED
  BY <1>1, SeccionesAlEmpezar, Invariante, PTL DEF SpecJusta

\* To the scripts a mutex is a lock: one of them inside, the others in the order they
\* asked, and nobody in between, whatever evicts, suspends or wakes them (mutex_lock
\* 2255-2327, mutex_unlock 2330-2415), as long as every mutex asked for exists and is not
\* of who asks.
THEOREM ImplementaCerrojo == SpecJusta /\ []Disciplina => Exclusion
<1>1. Init => Promesa!Init
  <2> SUFFICES ASSUME Init PROVE Promesa!Init
    OBVIOUS
  <2>1. Secciones
    BY SeccionesAlEmpezar
  <2>2. ASSUME NEW m \in Mutexes PROVE Dentro[m] = {} /\ Fila[m] = <<>>
    <3>1. Dentro[m] = {p \in Pids : mutex[m].duenio = p}
      BY <2>1, Dentros
    <3>2. mutex[m].duenio = Nadie /\ mutex[m].cola = <<>>
      BY DEF Init
    <3> QED
      BY <3>1, <3>2, MedianoPlazoAssumption DEF Fila
  <2>3. Dentro = [m \in Mutexes |-> {}] /\ Fila = [m \in Mutexes |-> <<>>]
    BY <2>2 DEF Dentro, Fila
  <2> QED
    BY <2>3 DEF Promesa!Init, Dentro, Fila
<1>2. /\ IInv /\ Secciones /\ Disciplina
      /\ [PasoComun \/ PasoOrdenado \/ Terminado]_vars
      => [Promesa!Next]_<<Dentro, Fila>>
  BY PasoCerrojo
<1>3. [Promesa!Next]_<<Dentro, Fila>> =>
          [Promesa!Next]_<<[m \in Mutexes |-> {p \in Pids : EnSeccion(p, m)}],
                          [m \in Mutexes |-> mutex[m].cola]>>
  BY DEF Dentro, Fila
<1> QED
  BY <1>1, <1>2, <1>3, Invariante, SeccionesSiempreBien, PTL
     DEF SpecJusta, Exclusion, Promesa!Spec

=============================================================================

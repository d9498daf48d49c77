--------------------------- MODULE ColaIO_proofs ---------------------------
(***************************************************************************)
(* Theorems about ColaIO under the two hypotheses of SpecOrdenada, for     *)
(* every number of processes, of syscalls and of devices of each class.    *)
(***************************************************************************)
EXTENDS ColaIO, TLAPS, FiniteSetTheorems

-----------------------------------------------------------------------------
(* The inductive invariant *)

\* The processes whose jobs are in the queue s, and that none has two there.
Duenos(s) == {s[i][1] : i \in DOMAIN s}
SinRepetir(s) == \A i, j \in DOMAIN s : s[i][1] = s[j][1] => i = j

\* Device d has a job that it has not answered.
Trabajando(d) == dispositivo[d] = "trabaja" /\ hilo[d].pc # "liberar"

\* The process p has a job in the queue of class c, in the hand of the thread of d, or
\* in d itself.
EnCola(p, c) == p \in Duenos(lista_bck_io[c])
EnHilo(p, d) == hilo[d].trabajo # Nada /\ hilo[d].trabajo[1] = p
EnIo(p, d) == Trabajando(d) /\ io[d].pid_ejec[1] = p

TieneLugar(p) ==
    \/ \E c \in Clases : EnCola(p, c)
    \/ \E d \in Ios : EnHilo(p, d) \/ EnIo(p, d)

\* No process has two places.
LugaresDistintos ==
    /\ \A c \in Clases : SinRepetir(lista_bck_io[c])
    /\ \A p \in Pids :
           /\ \A b, c \in Clases : EnCola(p, b) /\ EnCola(p, c) => b = c
           /\ \A d, e \in Ios : /\ EnHilo(p, d) /\ EnHilo(p, e) => d = e
                                /\ EnIo(p, d) /\ EnIo(p, e) => d = e
                                /\ ~(EnHilo(p, d) /\ EnIo(p, e))
           /\ \A c \in Clases, d \in Ios : EnCola(p, c) => ~EnHilo(p, d) /\ ~EnIo(p, d)

\* A process has a place exactly while it waits and its syscall has ended.
LugarSiEspera ==
    \A p \in Pids : /\ TieneLugar(p) <=> Bloqueado(p) /\ syscall[p].paso = "nada"
                    /\ syscall[p].paso # "nada" => estado_pcb[p] = "BCK"

\* The job of a process is where the devices of the class it asked for look for it.
ClasePedida ==
    \A p \in Pids : /\ \A c \in Clases : EnCola(p, c) => syscall[p].clase = c
                    /\ \A d \in Ios : EnHilo(p, d) => syscall[p].clase = Clase[d]

\* What the device is doing, what its entry says and where its thread is.
PasoDelHilo ==
    \A d \in Ios :
        /\ hilo[d].trabajo # Nada <=> hilo[d].pc = "enviar"
        /\ hilo[d].pc \in {"sem_wait", "tomar", "postear", "enviar"} => dispositivo[d] = "espera"
        /\ hilo[d].pc \in {"buscar", "mediano_plazo_rdy", "liberar"} => dispositivo[d] = "trabaja"
        /\ dispositivo[d] = "finaliza" => hilo[d].pc = "recv"
        /\ io[d].pid_ejec # Nada <=> dispositivo[d] \in {"trabaja", "finaliza"}
        /\ io[d].pid_ejec # Nada => viva[d]
        /\ io[d].enUso <=> hilo[d].pc = "enviar" \/ dispositivo[d] \in {"trabaja", "finaliza"}
        /\ hilo[d].pc = "sin_hilo" => dispositivo[d] = "apagado"
        /\ hilo[d].pc = "desconectar" => ~viva[d]

IInv ==
    /\ TypeOK
    /\ FichasJustas
    /\ PasoDelHilo
    /\ LugaresDistintos
    /\ LugarSiEspera
    /\ ClasePedida

-----------------------------------------------------------------------------
(* Queues: who is in a queue after a job enters at its end, enters at its    *)
(* front or leaves.                                                          *)

LEMMA AgregarAlFinal ==
    ASSUME NEW s \in Seq(Trabajo), NEW t \in Trabajo
    PROVE  /\ Append(s, t) \in Seq(Trabajo) /\ Len(Append(s, t)) = Len(s) + 1
           /\ Duenos(Append(s, t)) = Duenos(s) \cup {t[1]}
           /\ SinRepetir(s) /\ t[1] \notin Duenos(s) => SinRepetir(Append(s, t))
<1> DEFINE r == Append(s, t)
<1>1. /\ r \in Seq(Trabajo) /\ Len(r) = Len(s) + 1
      /\ DOMAIN r = DOMAIN s \cup {Len(s) + 1} /\ Len(s) + 1 \notin DOMAIN s
      /\ \A i \in DOMAIN s : r[i] = s[i]
      /\ r[Len(s) + 1] = t
  OBVIOUS
<1>2. Duenos(r) = Duenos(s) \cup {t[1]}
  BY <1>1 DEF Duenos
<1>3. SinRepetir(s) /\ t[1] \notin Duenos(s) => SinRepetir(r)
  BY <1>1 DEF Duenos, SinRepetir
<1>4. QED BY <1>1, <1>2, <1>3

LEMMA AgregarAlFrente ==
    ASSUME NEW s \in Seq(Trabajo), NEW t \in Trabajo
    PROVE  /\ <<t>> \o s \in Seq(Trabajo) /\ Len(<<t>> \o s) = Len(s) + 1
           /\ Duenos(<<t>> \o s) = Duenos(s) \cup {t[1]}
           /\ SinRepetir(s) /\ t[1] \notin Duenos(s) => SinRepetir(<<t>> \o s)
<1> DEFINE r == <<t>> \o s
<1>1. /\ r \in Seq(Trabajo) /\ Len(r) = Len(s) + 1
      /\ \A i \in DOMAIN r : r[i] = IF i = 1 THEN t ELSE s[i - 1]
      /\ DOMAIN r = 1..Len(s) + 1 /\ DOMAIN s = 1..Len(s) /\ Len(s) \in Nat
  OBVIOUS
<1>2. /\ 1 \in DOMAIN r /\ r[1] = t
      /\ \A i \in DOMAIN s : i + 1 \in DOMAIN r /\ r[i + 1] = s[i]
      /\ \A i \in DOMAIN r : i # 1 => i - 1 \in DOMAIN s /\ r[i] = s[i - 1]
  BY <1>1
<1> HIDE DEF r
<1>3. Duenos(r) = Duenos(s) \cup {t[1]}
  <2>1. ASSUME NEW p \in Duenos(r) PROVE p \in Duenos(s) \cup {t[1]}
    <3>1. PICK i \in DOMAIN r : p = r[i][1]
      BY <2>1 DEF Duenos
    <3>2. QED BY <1>2, <3>1 DEF Duenos
  <2>2. ASSUME NEW p \in Duenos(s) PROVE p \in Duenos(r)
    <3>1. PICK i \in DOMAIN s : p = s[i][1]
      BY <2>2 DEF Duenos
    <3>2. QED BY <1>2, <3>1 DEF Duenos
  <2>3. t[1] \in Duenos(r)
    BY <1>2 DEF Duenos
  <2>4. QED BY <2>1, <2>2, <2>3
<1>4. ASSUME SinRepetir(s), t[1] \notin Duenos(s), NEW i \in DOMAIN r, NEW j \in DOMAIN r,
             r[i][1] = r[j][1]
      PROVE i = j
  <2>1. CASE i = 1 \/ j = 1
    BY <1>2, <1>4, <2>1 DEF Duenos
  <2>2. CASE i # 1 /\ j # 1
    <3>1. i - 1 = j - 1
      BY <1>2, <1>4, <2>2 DEF SinRepetir
    <3>2. QED BY <1>1, <1>4, <3>1
  <2>3. QED BY <2>1, <2>2
<1>5. QED BY <1>1, <1>3, <1>4 DEF SinRepetir, r

LEMMA SacarDelFrente ==
    ASSUME NEW s \in Seq(Trabajo), s # <<>>
    PROVE  /\ Tail(s) \in Seq(Trabajo) /\ Len(Tail(s)) = Len(s) - 1
           /\ Head(s) \in Trabajo /\ Head(s)[1] \in Duenos(s)
           /\ SinRepetir(s) => /\ Duenos(Tail(s)) = Duenos(s) \ {Head(s)[1]}
                               /\ SinRepetir(Tail(s))
<1> DEFINE r == Tail(s)
<1>1. /\ r \in Seq(Trabajo) /\ Len(r) = Len(s) - 1 /\ Len(s) \in Nat /\ Len(s) > 0
      /\ Head(s) = s[1] /\ 1 \in DOMAIN s /\ DOMAIN s = 1..Len(s)
      /\ DOMAIN r = 1..Len(s) - 1
      /\ \A i \in DOMAIN r : r[i] = s[i + 1]
  OBVIOUS
<1>2. /\ \A i \in DOMAIN r : i + 1 \in DOMAIN s /\ r[i] = s[i + 1] /\ i + 1 # 1
      /\ \A i \in DOMAIN s : i # 1 => i - 1 \in DOMAIN r /\ r[i - 1] = s[i]
  BY <1>1
<1>3. Head(s) \in Trabajo /\ Head(s)[1] \in Duenos(s)
  BY <1>1 DEF Duenos
<1>4. SinRepetir(s) => Duenos(r) = Duenos(s) \ {s[1][1]}
  BY <1>1, <1>2 DEF Duenos, SinRepetir
<1>5. ASSUME SinRepetir(s), NEW i \in DOMAIN r, NEW j \in DOMAIN r, r[i][1] = r[j][1]
      PROVE i = j
  <2>1. i + 1 = j + 1
    BY <1>2, <1>5 DEF SinRepetir
  <2>2. QED BY <1>1, <1>5, <2>1
<1>6. QED BY <1>1, <1>3, <1>4, <1>5 DEF SinRepetir

-----------------------------------------------------------------------------
(* What a step keeps that leaves the places of the jobs alone. *)

LEMMA LugaresQuietos ==
    ASSUME LugaresDistintos, ClasePedida, syscall' = syscall,
           \A c \in Clases : SinRepetir(lista_bck_io[c])' = SinRepetir(lista_bck_io[c]),
           \A p \in Pids, c \in Clases : EnCola(p, c)' <=> EnCola(p, c),
           \A p \in Pids, d \in Ios : /\ EnHilo(p, d)' <=> EnHilo(p, d)
                                      /\ EnIo(p, d)' <=> EnIo(p, d)
    PROVE  /\ LugaresDistintos' /\ ClasePedida'
           /\ \A p \in Pids : TieneLugar(p)' <=> TieneLugar(p)
<1>1. LugaresDistintos'
  BY DEF LugaresDistintos
<1>2. ClasePedida'
  BY DEF ClasePedida
<1>3. \A p \in Pids : TieneLugar(p)' <=> TieneLugar(p)
  BY DEF TieneLugar
<1>4. QED BY <1>1, <1>2, <1>3

\* The tokens stay just when no queue, no post and no thread with a token changes.
LEMMA FichasQuietas ==
    ASSUME FichasJustas, UNCHANGED colas,
           \A d \in Ios : hilo'[d].pc \in {"tomar", "postear"} <=> hilo[d].pc \in {"tomar", "postear"}
    PROVE  FichasJustas'
<1>1. \A c \in Clases : ConFicha(c)' = ConFicha(c)
  BY DEF ConFicha
<1>2. QED BY <1>1 DEF FichasJustas, colas

-----------------------------------------------------------------------------
(* The steps of processes: syscalls and suspensions. *)

LEMMA PasoDeProceso ==
    ASSUME IInv, UNCHANGED <<colas, ios>>
    PROVE  /\ FichasJustas' /\ PasoDelHilo' /\ LugaresDistintos'
           /\ \A p \in Pids : /\ TieneLugar(p)' <=> TieneLugar(p)
                              /\ \A c \in Clases : EnCola(p, c)' <=> EnCola(p, c)
                              /\ \A d \in Ios : EnHilo(p, d)' <=> EnHilo(p, d)
<1>1. /\ \A c \in Clases : SinRepetir(lista_bck_io[c])' = SinRepetir(lista_bck_io[c])
      /\ \A p \in Pids, c \in Clases : EnCola(p, c)' <=> EnCola(p, c)
      /\ \A p \in Pids, d \in Ios : /\ EnHilo(p, d)' <=> EnHilo(p, d)
                                    /\ EnIo(p, d)' <=> EnIo(p, d)
  BY DEF colas, ios, EnCola, EnHilo, EnIo, Trabajando
<1>2. FichasJustas'
  BY FichasQuietas DEF IInv, ios
<1>3. PasoDelHilo'
  BY DEF IInv, PasoDelHilo, ios
<1>4. LugaresDistintos'
  BY <1>1 DEF IInv, LugaresDistintos
<1>5. \A p \in Pids : TieneLugar(p)' <=> TieneLugar(p)
  BY <1>1 DEF TieneLugar
<1>6. QED BY <1>1, <1>2, <1>3, <1>4, <1>5

LEMMA BloquearIInv ==
    ASSUME IInv, NEW p \in Pids, NEW c \in Clases, Bloquear(p, c)
    PROVE  IInv'
<1> USE DEF Bloquear
<1>1. TypeOK'
  BY DEF IInv, TypeOK, colas, ios
<1>2. /\ FichasJustas' /\ PasoDelHilo' /\ LugaresDistintos'
      /\ \A q \in Pids : /\ TieneLugar(q)' <=> TieneLugar(q)
                         /\ \A b \in Clases : EnCola(q, b)' <=> EnCola(q, b)
                         /\ \A d \in Ios : EnHilo(q, d)' <=> EnHilo(q, d)
  BY PasoDeProceso
<1>3. ~TieneLugar(p)
  BY DEF IInv, LugarSiEspera, Bloqueado
<1>4. LugarSiEspera'
  BY <1>2, <1>3 DEF IInv, TypeOK, LugarSiEspera, Bloqueado
<1>5. ClasePedida'
  BY <1>2, <1>3 DEF IInv, TypeOK, ClasePedida, TieneLugar
<1>6. QED BY <1>1, <1>2, <1>4, <1>5 DEF IInv

LEMMA AgregarABlockIInv ==
    ASSUME IInv, NEW p \in Pids, AgregarABlock(p)
    PROVE  IInv'
<1> USE DEF AgregarABlock
<1>1. TypeOK'
  BY ZenonT(60) DEF IInv, TypeOK, colas, ios
<1>2. /\ FichasJustas' /\ PasoDelHilo' /\ LugaresDistintos'
      /\ \A q \in Pids : /\ TieneLugar(q)' <=> TieneLugar(q)
                         /\ \A b \in Clases : EnCola(q, b)' <=> EnCola(q, b)
                         /\ \A d \in Ios : EnHilo(q, d)' <=> EnHilo(q, d)
  BY PasoDeProceso
<1>3. ~TieneLugar(p)
  BY DEF IInv, LugarSiEspera
<1>4. LugarSiEspera'
  BY <1>2, <1>3 DEF IInv, TypeOK, LugarSiEspera, Bloqueado
<1>5. ClasePedida'
  BY <1>2, <1>3 DEF IInv, TypeOK, ClasePedida, TieneLugar
<1>6. QED BY <1>1, <1>2, <1>4, <1>5 DEF IInv

\* The steps of suspension and of its rollback: no syscall has begun and no process
\* starts or stops waiting.
LEMMA SuspensionIInv ==
    ASSUME IInv, NEW p \in Pids,
           \/ Suspender(p) \/ AgregarDeSuspension(p) \/ RespuestaSuspension(p)
           \/ Deshacer(p) \/ Reanudar(p)
    PROVE  /\ IInv' /\ UNCHANGED <<syscall, colas, ios>>
           /\ \A q \in Pids : Bloqueado(q)' <=> Bloqueado(q)
<1>1. TypeOK' /\ UNCHANGED <<syscall, colas, ios>>
  <2>1. CASE Suspender(p)
    BY <2>1 DEF IInv, TypeOK, Suspender, colas, ios
  <2>2. CASE AgregarDeSuspension(p)
    BY <2>2 DEF IInv, TypeOK, AgregarDeSuspension, colas, ios
  <2>3. CASE RespuestaSuspension(p)
    BY <2>3 DEF IInv, TypeOK, RespuestaSuspension, colas, ios
  <2>4. CASE Deshacer(p)
    BY <2>4 DEF IInv, TypeOK, Deshacer, colas, ios
  <2>5. CASE Reanudar(p)
    BY <2>5 DEF IInv, TypeOK, Reanudar, colas, ios
  <2>6. QED BY <2>1, <2>2, <2>3, <2>4, <2>5
<1>2. /\ FichasJustas' /\ PasoDelHilo' /\ LugaresDistintos'
      /\ \A q \in Pids : /\ TieneLugar(q)' <=> TieneLugar(q)
                         /\ \A b \in Clases : EnCola(q, b)' <=> EnCola(q, b)
                         /\ \A d \in Ios : EnHilo(q, d)' <=> EnHilo(q, d)
  BY <1>1, PasoDeProceso
<1>3. \A q \in Pids : /\ Bloqueado(q)' <=> Bloqueado(q)
                      /\ syscall[q].paso # "nada" /\ estado_pcb[q] = "BCK" => estado_pcb'[q] = "BCK"
  BY DEF IInv, TypeOK, LugarSiEspera, Bloqueado, Suspender, AgregarDeSuspension,
         RespuestaSuspension, Deshacer, Reanudar
<1>4. LugarSiEspera'
  BY <1>1, <1>2, <1>3 DEF IInv, LugarSiEspera
<1>5. ClasePedida'
  BY <1>1, <1>2 DEF IInv, ClasePedida
<1>6. QED BY <1>1, <1>2, <1>3, <1>4, <1>5 DEF IInv

-----------------------------------------------------------------------------
(* Jobs enter the queue, tokens are posted and taken. *)

LEMMA CardinalConFicha ==
    \A c \in Clases : IsFiniteSet(ConFicha(c)) /\ Cardinality(ConFicha(c)) \in Nat
BY FS_Subset, FS_CardinalityType, ColaAssumption DEF ConFicha

LEMMA EncolarIInv ==
    ASSUME IInv, NEW p \in Pids, Encolar(p)
    PROVE  IInv'
<1> DEFINE c == syscall[p].clase
           t == <<p, pedidos[p]>>
<1>1. /\ c \in Clases /\ t \in Trabajo /\ t[1] = p /\ lista_bck_io[c] \in Seq(Trabajo)
      /\ syscall[p].paso = "encolar" /\ UNCHANGED <<ios, estado_pcb>>
      /\ lista_bck_io' = [lista_bck_io EXCEPT ![c] = Append(@, t)]
      /\ por_postear' = [por_postear EXCEPT ![c] = @ + 1] /\ UNCHANGED sem_io_vacio
      /\ syscall' = [syscall EXCEPT ![p].paso = "nada"]
  BY DEF IInv, TypeOK, Encolar, Trabajo
<1> HIDE DEF c, t
<1>2. /\ lista_bck_io'[c] \in Seq(Trabajo) /\ Len(lista_bck_io'[c]) = Len(lista_bck_io[c]) + 1
      /\ Duenos(lista_bck_io'[c]) = Duenos(lista_bck_io[c]) \cup {p}
      /\ SinRepetir(lista_bck_io[c]) /\ p \notin Duenos(lista_bck_io[c])
         => SinRepetir(lista_bck_io'[c])
      /\ \A b \in Clases \ {c} : lista_bck_io'[b] = lista_bck_io[b]
  BY <1>1, AgregarAlFinal DEF IInv, TypeOK
<1>3. TypeOK'
  <2>1. lista_bck_io' \in [Clases -> Seq(Trabajo)]
    BY <1>1, <1>2 DEF IInv, TypeOK
  <2>2. por_postear' \in [Clases -> Nat]
    BY <1>1 DEF IInv, TypeOK
  <2>3. syscall' \in [Pids -> [paso : {"nada", "agregar", "encolar"}, clase : Clases]]
    <3>1. syscall \in [Pids -> [paso : {"nada", "agregar", "encolar"}, clase : Clases]]
      BY DEF IInv, TypeOK
    <3>2. QED BY <1>1, <3>1
  <2>4. suspension' \in [Pids -> {"no", "timer", "agregar", "km", "deshacer", "reagregar"}]
    BY DEF IInv, TypeOK, Encolar
  <2>5. UNCHANGED <<estado_pcb, en_lista, pedidos, transiciones, sem_io_vacio, ios>>
    BY DEF Encolar
  <2>6. QED BY <2>1, <2>2, <2>3, <2>4, <2>5 DEF IInv, TypeOK, ios
<1>4. FichasJustas'
  <2> SUFFICES ASSUME NEW b \in Clases
               PROVE  sem_io_vacio'[b] + por_postear'[b] + Cardinality(ConFicha(b)')
                      = Len(lista_bck_io'[b])
    BY DEF FichasJustas
  <2>1. ConFicha(b)' = ConFicha(b)
    BY <1>1 DEF ConFicha, ios
  <2>2. /\ sem_io_vacio[b] \in Nat /\ por_postear[b] \in Nat /\ Len(lista_bck_io[b]) \in Nat
        /\ sem_io_vacio'[b] = sem_io_vacio[b]
        /\ b = c => /\ por_postear'[b] = por_postear[b] + 1
                    /\ Len(lista_bck_io'[b]) = Len(lista_bck_io[b]) + 1
        /\ b # c => /\ por_postear'[b] = por_postear[b]
                    /\ Len(lista_bck_io'[b]) = Len(lista_bck_io[b])
    BY <1>1, <1>2 DEF IInv, TypeOK
  <2>3. sem_io_vacio[b] + por_postear[b] + Cardinality(ConFicha(b)) = Len(lista_bck_io[b])
    BY DEF IInv, FichasJustas
  <2>4. Cardinality(ConFicha(b)) \in Nat
    BY CardinalConFicha
  <2>5. QED BY <2>1, <2>2, <2>3, <2>4, SMTT(30)
<1>5. PasoDelHilo'
  BY <1>1 DEF IInv, PasoDelHilo, ios
<1>6. ~TieneLugar(p) /\ estado_pcb[p] = "BCK"
  BY <1>1 DEF IInv, LugarSiEspera
<1>7. /\ \A q \in Pids, b \in Clases : EnCola(q, b)' <=> EnCola(q, b) \/ (q = p /\ b = c)
      /\ \A q \in Pids, d \in Ios : /\ EnHilo(q, d)' <=> EnHilo(q, d)
                                    /\ EnIo(q, d)' <=> EnIo(q, d)
  <2>1. \A q \in Pids, b \in Clases : EnCola(q, b)' <=> EnCola(q, b) \/ (q = p /\ b = c)
    <3> SUFFICES ASSUME NEW q \in Pids, NEW b \in Clases
                 PROVE  q \in Duenos(lista_bck_io'[b])
                        <=> q \in Duenos(lista_bck_io[b]) \/ (q = p /\ b = c)
      BY DEF EnCola
    <3>1. CASE b = c
      BY <1>2, <3>1
    <3>2. CASE b # c
      BY <1>2, <3>2
    <3>3. QED BY <3>1, <3>2
  <2>2. QED BY <1>1, <2>1 DEF EnHilo, EnIo, Trabajando, ios
<1>8. LugaresDistintos'
  <2>1. \A b \in Clases : SinRepetir(lista_bck_io[b])'
    BY <1>2, <1>6 DEF IInv, LugaresDistintos, TieneLugar, EnCola
  <2>2. QED BY <1>6, <1>7, <2>1 DEF IInv, LugaresDistintos, TieneLugar
<1>9. LugarSiEspera'
  <2>1. \A q \in Pids : TieneLugar(q)' <=> TieneLugar(q) \/ q = p
    BY <1>1, <1>7 DEF TieneLugar
  <2>2. QED BY <1>1, <1>6, <2>1 DEF IInv, TypeOK, LugarSiEspera, Bloqueado
<1>10. ClasePedida'
  <2>1. \A q \in Pids : syscall'[q].clase = syscall[q].clase
    BY <1>1 DEF IInv, TypeOK
  <2>2. QED BY <1>7, <2>1 DEF IInv, ClasePedida, c
<1>11. QED BY <1>3, <1>4, <1>5, <1>8, <1>9, <1>10 DEF IInv

\* A step that moves no job and waits for none leaves all but the tokens.
LEMMA SinTrabajos ==
    ASSUME IInv, UNCHANGED <<procesos, lista_bck_io>>,
           \A d \in Ios : /\ hilo'[d].trabajo = hilo[d].trabajo
                          /\ Trabajando(d)' <=> Trabajando(d)
                          /\ Trabajando(d) => io'[d].pid_ejec = io[d].pid_ejec
    PROVE  LugaresDistintos' /\ LugarSiEspera' /\ ClasePedida'
<1>1. /\ \A c \in Clases : SinRepetir(lista_bck_io[c])' = SinRepetir(lista_bck_io[c])
      /\ \A p \in Pids, c \in Clases : EnCola(p, c)' <=> EnCola(p, c)
      /\ \A p \in Pids, d \in Ios : /\ EnHilo(p, d)' <=> EnHilo(p, d)
                                    /\ EnIo(p, d)' <=> EnIo(p, d)
  BY DEF EnCola, EnHilo, EnIo
<1>2. /\ LugaresDistintos' /\ ClasePedida'
      /\ \A p \in Pids : TieneLugar(p)' <=> TieneLugar(p)
  BY <1>1, LugaresQuietos DEF IInv, procesos
<1>3. LugarSiEspera'
  BY <1>2 DEF IInv, LugarSiEspera, Bloqueado, procesos
<1>4. QED BY <1>2, <1>3

LEMMA PostearIInv ==
    ASSUME IInv, NEW c \in Clases, Postear(c)
    PROVE  IInv'
<1> USE DEF Postear
<1>1. TypeOK'
  BY DEF IInv, TypeOK, procesos, ios
<1>2. FichasJustas'
  <2>1. \A b \in Clases : ConFicha(b)' = ConFicha(b)
    BY DEF ConFicha, ios
  <2>2. \A b \in Clases : Cardinality(ConFicha(b)) \in Nat
    BY CardinalConFicha
  <2>3. \A b \in Clases : /\ sem_io_vacio[b] \in Nat /\ por_postear[b] \in Nat
                          /\ sem_io_vacio'[b] + por_postear'[b] = sem_io_vacio[b] + por_postear[b]
    BY DEF IInv, TypeOK
  <2>4. QED BY <2>1, <2>2, <2>3 DEF IInv, FichasJustas
<1>3. PasoDelHilo'
  BY DEF IInv, PasoDelHilo, ios
<1>4. LugaresDistintos' /\ LugarSiEspera' /\ ClasePedida'
  BY SinTrabajos DEF Trabajando, ios
<1>5. QED BY <1>1, <1>2, <1>3, <1>4 DEF IInv

\* The threads of a class with a token, when one more has it or has it no more.
LEMMA FichaDeMas ==
    ASSUME NEW d \in Ios, hilo[d].pc \notin {"tomar", "postear"},
           hilo'[d].pc \in {"tomar", "postear"},
           \A e \in Ios \ {d} : hilo'[e] = hilo[e]
    PROVE  \A c \in Clases :
               /\ c = Clase[d] => Cardinality(ConFicha(c)') = Cardinality(ConFicha(c)) + 1
               /\ c # Clase[d] => ConFicha(c)' = ConFicha(c)
<1> TAKE c \in Clases
<1>1. IsFiniteSet(ConFicha(c)) /\ Cardinality(ConFicha(c)) \in Nat
  BY CardinalConFicha
<1>2. CASE c = Clase[d]
  <2>1. ConFicha(c)' = ConFicha(c) \cup {d} /\ d \notin ConFicha(c)
    BY <1>2 DEF ConFicha
  <2>2. QED BY <1>1, <1>2, <2>1, FS_AddElement, ZenonT(60)
<1>3. CASE c # Clase[d]
  <2>1. ConFicha(c)' = ConFicha(c)
    BY <1>3 DEF ConFicha
  <2>2. QED BY <1>1, <1>3, <2>1
<1>4. QED BY <1>2, <1>3

LEMMA FichaDeMenos ==
    ASSUME NEW d \in Ios, hilo[d].pc \in {"tomar", "postear"},
           hilo'[d].pc \notin {"tomar", "postear"},
           \A e \in Ios \ {d} : hilo'[e] = hilo[e]
    PROVE  \A c \in Clases :
               /\ c = Clase[d] => Cardinality(ConFicha(c)') = Cardinality(ConFicha(c)) - 1
               /\ c # Clase[d] => ConFicha(c)' = ConFicha(c)
<1> TAKE c \in Clases
<1>1. IsFiniteSet(ConFicha(c)) /\ Cardinality(ConFicha(c)) \in Nat
  BY CardinalConFicha
<1>2. CASE c = Clase[d]
  <2>1. ConFicha(c)' = ConFicha(c) \ {d} /\ d \in ConFicha(c)
    BY <1>2 DEF ConFicha
  <2>2. QED BY <1>1, <1>2, <2>1, FS_RemoveElement, ZenonT(60)
<1>3. CASE c # Clase[d]
  <2>1. ConFicha(c)' = ConFicha(c)
    BY <1>3 DEF ConFicha
  <2>2. QED BY <1>1, <1>3, <2>1
<1>4. QED BY <1>2, <1>3

-----------------------------------------------------------------------------
(* The steps of the threads of the devices that move no job and no token. *)

\* The steps after which the device goes on with the same job, or with none.
HiloSinTrabajos(d) ==
    \/ NuevaIO(d) \/ IoLibre(d) \/ Responder(d) \/ EncontrarPcb(d) \/ LiberarIO(d)
    \/ CaidaOciosa(d) \/ Desconexion(d) \/ QuitarIO(d)

LEMMA HiloSinTrabajosIInv ==
    ASSUME IInv, NEW d \in Ios, HiloSinTrabajos(d)
    PROVE  /\ IInv' /\ UNCHANGED procesos
           /\ \A e \in Ios : /\ Trabajando(e)' <=> Trabajando(e)
                             /\ Trabajando(e) => io'[e].pid_ejec = io[e].pid_ejec
<1> USE DEF Ir
<1>0. Clase[d] \in Clases
  BY ColaAssumption
<1>1. TypeOK
  BY DEF IInv
<1>2. PasoDelHilo
  BY DEF IInv
<1>3. hilo[d].pc # "enviar" => hilo[d].trabajo = Nada
  BY <1>2 DEF PasoDelHilo
<1>4. Desconexion(d) => hilo' = [hilo EXCEPT ![d] = [pc |-> "desconectar", trabajo |-> Nada]]
  BY <1>2 DEF PasoDelHilo, Desconexion
<1>5. QuitarIO(d) => lista_bck_io' = lista_bck_io
  BY <1>3 DEF QuitarIO
<1>6. /\ TypeOK' /\ UNCHANGED <<procesos, colas>>
      /\ \A e \in Ios \ {d} : /\ hilo'[e] = hilo[e] /\ io'[e] = io[e]
                              /\ dispositivo'[e] = dispositivo[e] /\ viva'[e] = viva[e]
      /\ hilo'[d].trabajo = hilo[d].trabajo
      /\ hilo[d].pc \notin {"tomar", "postear"} \/ hilo'[d].pc = hilo[d].pc
      /\ hilo'[d].pc \notin {"tomar", "postear"} \/ hilo'[d].pc = hilo[d].pc
  <2>1. CASE NuevaIO(d)
    <3>1. init_sem' \in [Clases -> Nat]
      BY <1>0, <1>1, <2>1 DEF TypeOK, NuevaIO
    <3>2. QED BY <1>1, <2>1, <3>1 DEF TypeOK, NuevaIO, procesos, colas
  <2>2. CASE IoLibre(d)
    BY <1>1, <2>2 DEF TypeOK, IoLibre, procesos, colas
  <2>3. CASE Responder(d)
    BY <1>1, <2>3 DEF TypeOK, Responder, procesos, colas
  <2>4. CASE EncontrarPcb(d)
    BY <1>1, <2>4 DEF TypeOK, EncontrarPcb, procesos, colas
  <2>5. CASE LiberarIO(d)
    BY <1>1, <2>5, ZenonT(60) DEF TypeOK, LiberarIO, procesos, colas
  <2>6. CASE CaidaOciosa(d)
    BY <1>1, <2>6 DEF TypeOK, CaidaOciosa, Caida, procesos, colas
  <2>7. CASE Desconexion(d)
    BY <1>1, <1>3, <1>4, <2>7 DEF TypeOK, Desconexion, procesos, colas
  <2>8. CASE QuitarIO(d)
    <3>1. init_sem' \in [Clases -> Nat]
      BY <1>0, <1>1, <2>8 DEF TypeOK, QuitarIO
    <3>2. QED BY <1>1, <1>3, <1>5, <2>8, <3>1 DEF TypeOK, QuitarIO, procesos, colas
  <2>9. QED BY <2>1, <2>2, <2>3, <2>4, <2>5, <2>6, <2>7, <2>8 DEF HiloSinTrabajos
<1>7. PasoDelHilo'
  <2>1. CASE NuevaIO(d)
    BY <1>1, <1>2, <2>1 DEF TypeOK, PasoDelHilo, NuevaIO
  <2>2. CASE IoLibre(d)
    BY <1>1, <1>2, <2>2 DEF TypeOK, PasoDelHilo, IoLibre
  <2>3. CASE Responder(d)
    BY <1>1, <1>2, <2>3 DEF TypeOK, PasoDelHilo, Responder
  <2>4. CASE EncontrarPcb(d)
    BY <1>1, <1>2, <2>4 DEF TypeOK, PasoDelHilo, EncontrarPcb
  <2>5. CASE LiberarIO(d)
    BY <1>1, <1>2, <2>5 DEF TypeOK, PasoDelHilo, LiberarIO
  <2>6. CASE CaidaOciosa(d)
    BY <1>1, <1>2, <2>6 DEF TypeOK, PasoDelHilo, CaidaOciosa, Caida
  <2>7. CASE Desconexion(d)
    BY <1>1, <1>2, <1>4, <2>7 DEF TypeOK, PasoDelHilo, Desconexion
  <2>8. CASE QuitarIO(d)
    BY <1>1, <1>2, <2>8 DEF TypeOK, PasoDelHilo, QuitarIO
  <2>9. QED BY <2>1, <2>2, <2>3, <2>4, <2>5, <2>6, <2>7, <2>8 DEF HiloSinTrabajos
<1>8. FichasJustas'
  BY <1>6, FichasQuietas DEF IInv
<1>9. \A e \in Ios : /\ hilo'[e].trabajo = hilo[e].trabajo
                     /\ Trabajando(e)' <=> Trabajando(e)
                     /\ Trabajando(e) => io'[e].pid_ejec = io[e].pid_ejec
  <2>1. \A e \in Ios \ {d} : /\ hilo'[e].trabajo = hilo[e].trabajo
                             /\ Trabajando(e)' <=> Trabajando(e)
                             /\ io'[e].pid_ejec = io[e].pid_ejec
    BY <1>6 DEF Trabajando
  <2>2. /\ Trabajando(d)' <=> Trabajando(d)
        /\ Trabajando(d) => io'[d].pid_ejec = io[d].pid_ejec
    <3>1. CASE NuevaIO(d) \/ IoLibre(d) \/ Responder(d) \/ EncontrarPcb(d)
      BY <1>1, <1>2, <3>1 DEF TypeOK, PasoDelHilo, Trabajando, NuevaIO, IoLibre, Responder,
                              EncontrarPcb
    <3>2. CASE LiberarIO(d)
      <4>1. ~Trabajando(d)
        BY <3>2 DEF Trabajando, LiberarIO
      <4>2. dispositivo'[d] = "libre"
        BY <1>1, <3>2 DEF TypeOK, LiberarIO
      <4>3. QED BY <4>1, <4>2 DEF Trabajando
    <3>3. CASE CaidaOciosa(d)
      BY <3>3 DEF Trabajando, CaidaOciosa, Caida
    <3>4. CASE Desconexion(d) \/ QuitarIO(d)
      BY <1>1, <1>2, <3>4 DEF TypeOK, PasoDelHilo, Trabajando, Desconexion, QuitarIO
    <3>5. QED BY <3>1, <3>2, <3>3, <3>4 DEF HiloSinTrabajos
  <2>3. QED BY <1>6, <2>1, <2>2
<1>10. LugaresDistintos' /\ LugarSiEspera' /\ ClasePedida'
  BY <1>6, <1>9, SinTrabajos DEF colas
<1>11. QED BY <1>6, <1>7, <1>8, <1>9, <1>10 DEF IInv

-----------------------------------------------------------------------------
(* The steps of the threads of the devices that move a token or a job. *)

\* A thread goes on to its next step, with the same job in hand.
PasosDeHilo == {"sin_hilo", "recv", "sem_wait", "tomar", "enviar", "postear", "buscar",
                "mediano_plazo_rdy", "liberar", "desconectar"}
TipoHilo == [pc : PasosDeHilo, trabajo : Trabajo \cup {Nada}]

LEMMA IrBien ==
    ASSUME TypeOK, NEW d \in Ios, NEW e \in PasosDeHilo, Ir(d, e)
    PROVE  /\ hilo' \in [Ios -> TipoHilo]
           /\ hilo'[d].pc = e /\ hilo'[d].trabajo = hilo[d].trabajo
           /\ \A x \in Ios \ {d} : hilo'[x] = hilo[x]
<1>1. hilo \in [Ios -> TipoHilo]
  BY DEF TypeOK, TipoHilo, PasosDeHilo
<1>2. hilo' = [hilo EXCEPT ![d] = [hilo[d] EXCEPT !.pc = e]]
  BY DEF Ir
<1>3. PICK h : h = [hilo[d] EXCEPT !.pc = e]
  OBVIOUS
<1>4. hilo[d] \in TipoHilo
  BY <1>1
<1>5. h \in TipoHilo /\ h.pc = e /\ h.trabajo = hilo[d].trabajo
  BY <1>3, <1>4 DEF TipoHilo
<1>6. hilo'[d] = h /\ \A x \in Ios \ {d} : hilo'[x] = hilo[x]
  BY <1>1, <1>2, <1>3
<1>7. hilo' \in [Ios -> TipoHilo]
  BY <1>1, <1>2, <1>3, <1>5
<1>8. QED BY <1>5, <1>6, <1>7

LEMMA TomarFichaIInv ==
    ASSUME IInv, NEW d \in Ios, TomarFicha(d)
    PROVE  IInv'
<1>1. /\ Clase[d] \in Clases /\ hilo[d].pc = "sem_wait" /\ hilo'[d].pc = "tomar"
      /\ hilo'[d].trabajo = hilo[d].trabajo
      /\ \A e \in Ios \ {d} : hilo'[e] = hilo[e]
      /\ UNCHANGED <<procesos, lista_bck_io, por_postear, init_sem, viva, dispositivo, io>>
      /\ hilo' \in [Ios -> TipoHilo]
  <2>1. /\ hilo[d].pc = "sem_wait" /\ Ir(d, "tomar")
        /\ UNCHANGED <<procesos, lista_bck_io, por_postear, init_sem, viva, dispositivo, io>>
    BY DEF TomarFicha
  <2>2. Clase[d] \in Clases
    BY ColaAssumption
  <2>3. "tomar" \in PasosDeHilo /\ TypeOK
    BY DEF PasosDeHilo, IInv
  <2>4. QED BY <2>1, <2>2, <2>3, IrBien
<1>2. /\ sem_io_vacio \in [Clases -> Nat] /\ sem_io_vacio[Clase[d]] > 0
      /\ sem_io_vacio' = [sem_io_vacio EXCEPT ![Clase[d]] = @ - 1]
  BY DEF IInv, TypeOK, TomarFicha
<1>3. TypeOK'
  <2>1. sem_io_vacio' \in [Clases -> Nat]
    BY <1>1, <1>2
  <2>2. TypeOK
    BY DEF IInv
  <2>3. QED BY <1>1, <2>1, <2>2 DEF TypeOK, procesos, TipoHilo, PasosDeHilo
<1>4. FichasJustas'
  <2> SUFFICES ASSUME NEW c \in Clases
               PROVE  sem_io_vacio'[c] + por_postear'[c] + Cardinality(ConFicha(c)')
                      = Len(lista_bck_io'[c])
    BY DEF FichasJustas
  <2>1. /\ Cardinality(ConFicha(c)) \in Nat /\ sem_io_vacio[c] \in Nat /\ por_postear[c] \in Nat
    BY CardinalConFicha DEF IInv, TypeOK
  <2>2. sem_io_vacio[c] + por_postear[c] + Cardinality(ConFicha(c)) = Len(lista_bck_io[c])
    BY DEF IInv, FichasJustas
  <2>3. CASE c = Clase[d]
    <3>1. Cardinality(ConFicha(c)') = Cardinality(ConFicha(c)) + 1
      BY <1>1, <2>3, FichaDeMas
    <3>2. /\ sem_io_vacio'[c] = sem_io_vacio[c] - 1 /\ por_postear'[c] = por_postear[c]
          /\ lista_bck_io'[c] = lista_bck_io[c]
      BY <1>1, <1>2, <2>3
    <3>3. QED BY <2>1, <2>2, <3>1, <3>2
  <2>4. CASE c # Clase[d]
    <3>1. ConFicha(c)' = ConFicha(c)
      BY <1>1, <2>4, FichaDeMas
    <3>2. /\ sem_io_vacio'[c] = sem_io_vacio[c] /\ por_postear'[c] = por_postear[c]
          /\ lista_bck_io'[c] = lista_bck_io[c]
      BY <1>1, <1>2, <2>4
    <3>3. QED BY <2>2, <3>1, <3>2
  <2>5. QED BY <2>3, <2>4
<1>5. PasoDelHilo'
  BY <1>1 DEF IInv, PasoDelHilo
<1>6. LugaresDistintos' /\ LugarSiEspera' /\ ClasePedida'
  BY <1>1, SinTrabajos DEF Trabajando
<1>7. QED BY <1>3, <1>4, <1>5, <1>6 DEF IInv

LEMMA DevolverFichaIInv ==
    ASSUME IInv, NEW d \in Ios, DevolverFicha(d)
    PROVE  IInv'
<1>1. /\ Clase[d] \in Clases /\ hilo[d].pc = "postear" /\ hilo'[d].pc = "recv"
      /\ hilo'[d].trabajo = hilo[d].trabajo
      /\ \A e \in Ios \ {d} : hilo'[e] = hilo[e]
      /\ UNCHANGED <<procesos, lista_bck_io, por_postear, init_sem, viva, dispositivo, io>>
      /\ hilo' \in [Ios -> TipoHilo]
  <2>1. /\ hilo[d].pc = "postear" /\ Ir(d, "recv")
        /\ UNCHANGED <<procesos, lista_bck_io, por_postear, init_sem, viva, dispositivo, io>>
    BY DEF DevolverFicha
  <2>2. Clase[d] \in Clases
    BY ColaAssumption
  <2>3. "recv" \in PasosDeHilo /\ TypeOK
    BY DEF PasosDeHilo, IInv
  <2>4. QED BY <2>1, <2>2, <2>3, IrBien
<1>2. /\ sem_io_vacio \in [Clases -> Nat]
      /\ sem_io_vacio' = [sem_io_vacio EXCEPT ![Clase[d]] = @ + 1]
  BY DEF IInv, TypeOK, DevolverFicha
<1>3. TypeOK'
  <2>1. sem_io_vacio' \in [Clases -> Nat]
    BY <1>1, <1>2
  <2>2. TypeOK
    BY DEF IInv
  <2>3. QED BY <1>1, <2>1, <2>2 DEF TypeOK, procesos, TipoHilo, PasosDeHilo
<1>4. FichasJustas'
  <2> SUFFICES ASSUME NEW c \in Clases
               PROVE  sem_io_vacio'[c] + por_postear'[c] + Cardinality(ConFicha(c)')
                      = Len(lista_bck_io'[c])
    BY DEF FichasJustas
  <2>1. /\ Cardinality(ConFicha(c)) \in Nat /\ sem_io_vacio[c] \in Nat /\ por_postear[c] \in Nat
    BY CardinalConFicha DEF IInv, TypeOK
  <2>2. sem_io_vacio[c] + por_postear[c] + Cardinality(ConFicha(c)) = Len(lista_bck_io[c])
    BY DEF IInv, FichasJustas
  <2>3. CASE c = Clase[d]
    <3>1. Cardinality(ConFicha(c)') = Cardinality(ConFicha(c)) - 1
      BY <1>1, <2>3, FichaDeMenos
    <3>2. /\ sem_io_vacio'[c] = sem_io_vacio[c] + 1 /\ por_postear'[c] = por_postear[c]
          /\ lista_bck_io'[c] = lista_bck_io[c]
      BY <1>1, <1>2, <2>3
    <3>3. QED BY <2>1, <2>2, <3>1, <3>2, SMTT(30)
  <2>4. CASE c # Clase[d]
    <3>1. ConFicha(c)' = ConFicha(c)
      BY <1>1, <2>4, FichaDeMenos
    <3>2. /\ sem_io_vacio'[c] = sem_io_vacio[c] /\ por_postear'[c] = por_postear[c]
          /\ lista_bck_io'[c] = lista_bck_io[c]
      BY <1>1, <1>2, <2>4
    <3>3. QED BY <2>2, <3>1, <3>2
  <2>5. QED BY <2>3, <2>4
<1>5. PasoDelHilo'
  BY <1>1 DEF IInv, PasoDelHilo
<1>6. LugaresDistintos' /\ LugarSiEspera' /\ ClasePedida'
  BY <1>1, SinTrabajos DEF Trabajando
<1>7. QED BY <1>3, <1>4, <1>5, <1>6 DEF IInv

\* A thread that took a token finds a job, and its device free.
LEMMA FichaConTrabajo ==
    ASSUME IInv, NEW d \in Ios, hilo[d].pc = "tomar"
    PROVE  lista_bck_io[Clase[d]] # <<>> /\ ~io[d].enUso
<1> DEFINE c == Clase[d]
<1>1. c \in Clases /\ d \in ConFicha(c)
  BY ColaAssumption DEF ConFicha
<1>2. IsFiniteSet(ConFicha(c)) /\ Cardinality(ConFicha(c)) \in Nat
  BY <1>1, CardinalConFicha
<1>3. Cardinality(ConFicha(c)) # 0
  BY <1>1, <1>2, FS_EmptySet
<1>4. sem_io_vacio[c] \in Nat /\ por_postear[c] \in Nat
  BY <1>1 DEF IInv, TypeOK
<1>5. sem_io_vacio[c] + por_postear[c] + Cardinality(ConFicha(c)) = Len(lista_bck_io[c])
  BY <1>1 DEF IInv, FichasJustas
<1>6. Len(lista_bck_io[c]) # 0
  BY <1>2, <1>3, <1>4, <1>5
<1>7. ~io[d].enUso
  BY DEF IInv, PasoDelHilo
<1>8. QED BY <1>6, <1>7

LEMMA TomarTrabajoIInv ==
    ASSUME IInv, NEW d \in Ios, TomarTrabajo(d)
    PROVE  IInv'
<1> DEFINE c == Clase[d]
           s == lista_bck_io[c]
           t == Head(s)
           q == t[1]
<1>1. c \in Clases /\ s \in Seq(Trabajo) /\ hilo[d].pc = "tomar" /\ hilo[d].trabajo = Nada
  BY ColaAssumption DEF IInv, TypeOK, PasoDelHilo, TomarTrabajo
<1>2. /\ s # <<>> /\ ~io[d].enUso
      /\ io' = [io EXCEPT ![d].enUso = TRUE]
      /\ lista_bck_io' = [lista_bck_io EXCEPT ![c] = Tail(@)]
      /\ hilo' = [hilo EXCEPT ![d] = [pc |-> "enviar", trabajo |-> t]]
      /\ UNCHANGED <<procesos, sem_io_vacio, por_postear, init_sem, viva, dispositivo>>
  BY <1>1, FichaConTrabajo DEF TomarTrabajo
<1>3. /\ Tail(s) \in Seq(Trabajo) /\ Len(Tail(s)) = Len(s) - 1 /\ t \in Trabajo
      /\ Duenos(Tail(s)) = Duenos(s) \ {q} /\ q \in Duenos(s)
      /\ SinRepetir(Tail(s))
  BY <1>1, <1>2, SacarDelFrente DEF IInv, LugaresDistintos
<1>4. q \in Pids /\ t # Nada
  BY <1>3, ColaAssumption DEF Trabajo
<1> HIDE DEF s, t, q
<1>5. /\ lista_bck_io' \in [Clases -> Seq(Trabajo)]
      /\ lista_bck_io'[c] = Tail(s) /\ lista_bck_io[c] = s
      /\ \A b \in Clases \ {c} : lista_bck_io'[b] = lista_bck_io[b]
  BY <1>1, <1>2, <1>3 DEF IInv, TypeOK, s
<1>6. /\ hilo'[d] = [pc |-> "enviar", trabajo |-> t]
      /\ io'[d].enUso /\ io'[d].pid_ejec = io[d].pid_ejec
      /\ \A e \in Ios \ {d} : hilo'[e] = hilo[e] /\ io'[e] = io[e]
  BY <1>2 DEF IInv, TypeOK
<1>7. TypeOK'
  BY <1>2, <1>3, <1>5, ZenonT(60) DEF IInv, TypeOK, procesos
<1>8. FichasJustas'
  <2> SUFFICES ASSUME NEW b \in Clases
               PROVE  sem_io_vacio'[b] + por_postear'[b] + Cardinality(ConFicha(b)')
                      = Len(lista_bck_io'[b])
    BY DEF FichasJustas
  <2>1. /\ Cardinality(ConFicha(b)) \in Nat /\ sem_io_vacio[b] \in Nat /\ por_postear[b] \in Nat
    BY CardinalConFicha DEF IInv, TypeOK
  <2>2. sem_io_vacio[b] + por_postear[b] + Cardinality(ConFicha(b)) = Len(lista_bck_io[b])
    BY DEF IInv, FichasJustas
  <2>3. CASE b = c
    <3>1. Cardinality(ConFicha(b)') = Cardinality(ConFicha(b)) - 1
      BY <1>1, <1>6, <2>3, FichaDeMenos
    <3>2. Len(lista_bck_io'[b]) = Len(lista_bck_io[b]) - 1
      BY <1>3, <1>5, <2>3
    <3>3. sem_io_vacio'[b] = sem_io_vacio[b] /\ por_postear'[b] = por_postear[b]
      BY <1>2
    <3>4. QED BY <2>1, <2>2, <3>1, <3>2, <3>3, SMTT(30)
  <2>4. CASE b # c
    <3>1. ConFicha(b)' = ConFicha(b)
      BY <1>1, <1>6, <2>4, FichaDeMenos
    <3>2. /\ sem_io_vacio'[b] = sem_io_vacio[b] /\ por_postear'[b] = por_postear[b]
          /\ lista_bck_io'[b] = lista_bck_io[b]
      BY <1>2, <1>5, <2>4
    <3>3. QED BY <2>2, <3>1, <3>2
  <2>5. QED BY <2>3, <2>4
<1>9. PasoDelHilo'
  BY <1>1, <1>2, <1>4, <1>6 DEF IInv, PasoDelHilo
<1>10. \A p \in Pids :
          /\ \A b \in Clases : EnCola(p, b)' <=> EnCola(p, b) /\ ~(p = q /\ b = c)
          /\ \A e \in Ios : /\ EnHilo(p, e)' <=> EnHilo(p, e) \/ (p = q /\ e = d)
                            /\ EnIo(p, e)' <=> EnIo(p, e)
  <2> TAKE p \in Pids
  <2>1. \A b \in Clases : EnCola(p, b)' <=> EnCola(p, b) /\ ~(p = q /\ b = c)
    <3> TAKE b \in Clases
    <3>1. CASE b = c
      BY <1>3, <1>5, <3>1 DEF EnCola
    <3>2. CASE b # c
      BY <1>5, <3>2 DEF EnCola
    <3>3. QED BY <3>1, <3>2
  <2>2. \A e \in Ios : EnHilo(p, e)' <=> EnHilo(p, e) \/ (p = q /\ e = d)
    BY <1>1, <1>4, <1>6 DEF EnHilo, q
  <2>3. \A e \in Ios : EnIo(p, e)' <=> EnIo(p, e)
    BY <1>1, <1>2, <1>6 DEF IInv, PasoDelHilo, EnIo, Trabajando
  <2>4. QED BY <2>1, <2>2, <2>3
<1>11. EnCola(q, c)
  BY <1>3, <1>5 DEF EnCola
<1>12. LugaresDistintos'
  <2>1. \A b \in Clases : SinRepetir(lista_bck_io[b])'
    BY <1>3, <1>5 DEF IInv, LugaresDistintos
  <2>2. QED BY <1>1, <1>4, <1>10, <1>11, <2>1 DEF IInv, LugaresDistintos
<1>13. LugarSiEspera'
  <2>1. \A p \in Pids : TieneLugar(p)' <=> TieneLugar(p)
    BY <1>1, <1>10, <1>11 DEF TieneLugar
  <2>2. QED BY <1>2, <2>1 DEF IInv, LugarSiEspera, Bloqueado, procesos
<1>14. ClasePedida'
  BY <1>1, <1>2, <1>4, <1>10, <1>11 DEF IInv, ClasePedida, procesos
<1>15. QED BY <1>7, <1>8, <1>9, <1>12, <1>13, <1>14 DEF IInv

LEMMA EntregarTrabajoIInv ==
    ASSUME IInv, NEW d \in Ios, EntregarTrabajo(d)
    PROVE  IInv'
<1> DEFINE c == Clase[d]
           s == lista_bck_io[c]
           t == hilo[d].trabajo
           q == t[1]
<1>1. /\ c \in Clases /\ s \in Seq(Trabajo) /\ hilo[d].pc = "enviar"
      /\ t \in Trabajo /\ t # Nada /\ q \in Pids
      /\ dispositivo[d] = "espera" /\ io[d].pid_ejec = Nada
  BY ColaAssumption DEF IInv, TypeOK, PasoDelHilo, EntregarTrabajo, Trabajo
<1>2. EnHilo(q, d)
  BY <1>1 DEF EnHilo
<1>3. \A p \in Pids : ~EnIo(p, d)
  BY <1>1 DEF EnIo, Trabajando
<1> HIDE DEF s, t, q
<1>4. CASE viva[d]
  <2>1. /\ io' = [io EXCEPT ![d].pid_ejec = t]
        /\ dispositivo' = [dispositivo EXCEPT ![d] = "trabaja"]
        /\ hilo' = [hilo EXCEPT ![d] = [pc |-> "recv", trabajo |-> Nada]]
        /\ UNCHANGED <<procesos, colas, init_sem, viva>>
    BY <1>4 DEF EntregarTrabajo, colas, t
  <2>2. /\ hilo'[d] = [pc |-> "recv", trabajo |-> Nada] /\ dispositivo'[d] = "trabaja"
        /\ io'[d].pid_ejec = t /\ io'[d].enUso = io[d].enUso
        /\ \A e \in Ios \ {d} : /\ hilo'[e] = hilo[e] /\ io'[e] = io[e]
                                /\ dispositivo'[e] = dispositivo[e]
    BY <2>1 DEF IInv, TypeOK
  <2>3. TypeOK'
    <3>1. io' \in [Ios -> [enUso : BOOLEAN, pid_ejec : Trabajo \cup {Nada}]]
      <4>1. io \in [Ios -> [enUso : BOOLEAN, pid_ejec : Trabajo \cup {Nada}]]
        BY DEF IInv, TypeOK
      <4>2. QED BY <1>1, <2>1, <4>1
    <3>2. QED BY <2>1, <3>1 DEF IInv, TypeOK, procesos, colas
  <2>4. FichasJustas'
    BY <1>1, <2>1, <2>2, FichasQuietas DEF IInv
  <2>5. PasoDelHilo'
    BY <1>1, <1>4, <2>1, <2>2 DEF IInv, PasoDelHilo
  <2>6. \A p \in Pids :
           /\ \A b \in Clases : EnCola(p, b)' <=> EnCola(p, b)
           /\ \A e \in Ios : /\ EnHilo(p, e)' <=> EnHilo(p, e) /\ ~(p = q /\ e = d)
                             /\ EnIo(p, e)' <=> EnIo(p, e) \/ (p = q /\ e = d)
    <3> TAKE p \in Pids
    <3>1. \A b \in Clases : EnCola(p, b)' <=> EnCola(p, b)
      BY <2>1 DEF EnCola, colas
    <3>2. \A e \in Ios : EnHilo(p, e)' <=> EnHilo(p, e) /\ ~(p = q /\ e = d)
      BY <2>2 DEF EnHilo, q, t
    <3>3. \A e \in Ios : EnIo(p, e)' <=> EnIo(p, e) \/ (p = q /\ e = d)
      BY <1>3, <2>2 DEF EnIo, Trabajando, q
    <3>4. QED BY <3>1, <3>2, <3>3
  <2>7. LugaresDistintos'
    <3>1. \A b \in Clases : SinRepetir(lista_bck_io[b])'
      BY <2>1 DEF IInv, LugaresDistintos, colas
    <3>2. QED BY <1>1, <1>2, <2>6, <3>1 DEF IInv, LugaresDistintos
  <2>8. LugarSiEspera'
    <3>1. \A p \in Pids : TieneLugar(p)' <=> TieneLugar(p)
      BY <1>2, <2>6 DEF TieneLugar
    <3>2. QED BY <2>1, <3>1 DEF IInv, LugarSiEspera, Bloqueado, procesos
  <2>9. ClasePedida'
    BY <2>1, <2>6 DEF IInv, ClasePedida, procesos
  <2>10. QED BY <2>3, <2>4, <2>5, <2>7, <2>8, <2>9 DEF IInv
<1>5. CASE ~viva[d]
  <2>1. /\ io' = [io EXCEPT ![d].enUso = FALSE]
        /\ lista_bck_io' = [lista_bck_io EXCEPT ![c] = <<t>> \o @]
        /\ hilo' = [hilo EXCEPT ![d] = [pc |-> "postear", trabajo |-> Nada]]
        /\ UNCHANGED <<procesos, dispositivo, sem_io_vacio, por_postear, init_sem, viva>>
    BY <1>5 DEF EntregarTrabajo, t
  <2>2. /\ <<t>> \o s \in Seq(Trabajo) /\ Len(<<t>> \o s) = Len(s) + 1
        /\ Duenos(<<t>> \o s) = Duenos(s) \cup {q}
        /\ SinRepetir(s) /\ q \notin Duenos(s) => SinRepetir(<<t>> \o s)
    BY <1>1, AgregarAlFrente DEF q
  <2>3. /\ lista_bck_io' \in [Clases -> Seq(Trabajo)]
        /\ lista_bck_io'[c] = <<t>> \o s /\ lista_bck_io[c] = s
        /\ \A b \in Clases \ {c} : lista_bck_io'[b] = lista_bck_io[b]
    BY <1>1, <2>1, <2>2 DEF IInv, TypeOK, s
  <2>4. /\ hilo'[d] = [pc |-> "postear", trabajo |-> Nada]
        /\ ~io'[d].enUso /\ io'[d].pid_ejec = io[d].pid_ejec
        /\ \A e \in Ios \ {d} : hilo'[e] = hilo[e] /\ io'[e] = io[e]
    BY <2>1 DEF IInv, TypeOK
  <2>5. TypeOK'
    BY <2>1, <2>3, ZenonT(60) DEF IInv, TypeOK, procesos
  <2>6. FichasJustas'
    <3> SUFFICES ASSUME NEW b \in Clases
                 PROVE  sem_io_vacio'[b] + por_postear'[b] + Cardinality(ConFicha(b)')
                        = Len(lista_bck_io'[b])
      BY DEF FichasJustas
    <3>1. /\ Cardinality(ConFicha(b)) \in Nat /\ sem_io_vacio[b] \in Nat /\ por_postear[b] \in Nat
      BY CardinalConFicha DEF IInv, TypeOK
    <3>2. sem_io_vacio[b] + por_postear[b] + Cardinality(ConFicha(b)) = Len(lista_bck_io[b])
      BY DEF IInv, FichasJustas
    <3>3. sem_io_vacio'[b] = sem_io_vacio[b] /\ por_postear'[b] = por_postear[b]
      BY <2>1
    <3>4. CASE b = c
      <4>1. Cardinality(ConFicha(b)') = Cardinality(ConFicha(b)) + 1
        BY <1>1, <2>4, <3>4, FichaDeMas
      <4>2. Len(lista_bck_io'[b]) = Len(lista_bck_io[b]) + 1
        BY <2>2, <2>3, <3>4
      <4>3. QED BY <3>1, <3>2, <3>3, <4>1, <4>2
    <3>5. CASE b # c
      <4>1. ConFicha(b)' = ConFicha(b)
        BY <1>1, <2>4, <3>5, FichaDeMas
      <4>2. lista_bck_io'[b] = lista_bck_io[b]
        BY <2>3, <3>5
      <4>3. QED BY <3>2, <3>3, <4>1, <4>2
    <3>6. QED BY <3>4, <3>5
  <2>7. PasoDelHilo'
    BY <1>1, <2>1, <2>4 DEF IInv, PasoDelHilo
  <2>8. \A p \in Pids :
           /\ \A b \in Clases : EnCola(p, b)' <=> EnCola(p, b) \/ (p = q /\ b = c)
           /\ \A e \in Ios : /\ EnHilo(p, e)' <=> EnHilo(p, e) /\ ~(p = q /\ e = d)
                             /\ EnIo(p, e)' <=> EnIo(p, e)
    <3> TAKE p \in Pids
    <3>1. \A b \in Clases : EnCola(p, b)' <=> EnCola(p, b) \/ (p = q /\ b = c)
      <4> TAKE b \in Clases
      <4>1. CASE b = c
        BY <2>2, <2>3, <4>1 DEF EnCola
      <4>2. CASE b # c
        BY <2>3, <4>2 DEF EnCola
      <4>3. QED BY <4>1, <4>2
    <3>2. \A e \in Ios : EnHilo(p, e)' <=> EnHilo(p, e) /\ ~(p = q /\ e = d)
      BY <2>4 DEF EnHilo, q, t
    <3>3. \A e \in Ios : EnIo(p, e)' <=> EnIo(p, e)
      BY <1>1, <2>1, <2>4 DEF EnIo, Trabajando
    <3>4. QED BY <3>1, <3>2, <3>3
  <2>9. ~EnCola(q, c)
    BY <1>1, <1>2 DEF IInv, LugaresDistintos
  <2>10. LugaresDistintos'
    <3>1. SinRepetir(lista_bck_io'[c])
      BY <1>1, <2>2, <2>3, <2>9 DEF IInv, LugaresDistintos, EnCola
    <3>2. \A b \in Clases : SinRepetir(lista_bck_io[b])'
      BY <2>3, <3>1 DEF IInv, LugaresDistintos
    <3>3. QED BY <1>1, <1>2, <2>8, <3>2 DEF IInv, LugaresDistintos
  <2>11. LugarSiEspera'
    <3>1. \A p \in Pids : TieneLugar(p)' <=> TieneLugar(p)
      BY <1>1, <1>2, <2>8 DEF TieneLugar
    <3>2. QED BY <2>1, <3>1 DEF IInv, LugarSiEspera, Bloqueado, procesos
  <2>12. ClasePedida'
    BY <1>1, <1>2, <2>1, <2>8 DEF IInv, ClasePedida, procesos
  <2>13. QED BY <2>5, <2>6, <2>7, <2>10, <2>11, <2>12 DEF IInv
<1>6. QED BY <1>4, <1>5

LEMMA MedianoPlazoRdyIInv ==
    ASSUME IInv, NEW d \in Ios, MedianoPlazoRdy(d)
    PROVE  IInv'
<1>1. /\ hilo[d].pc = "mediano_plazo_rdy" /\ hilo[d].trabajo = Nada
      /\ dispositivo[d] = "trabaja" /\ io[d].pid_ejec \in Trabajo /\ io[d].pid_ejec # Nada
  BY DEF IInv, TypeOK, PasoDelHilo, MedianoPlazoRdy
<1> PICK q \in Pids : q = io[d].pid_ejec[1]
  BY <1>1 DEF Trabajo
<1>2. EnIo(q, d)
  BY <1>1 DEF EnIo, Trabajando
<1>3. Bloqueado(q) /\ syscall[q].paso = "nada"
  BY <1>1, <1>2 DEF IInv, LugarSiEspera, TieneLugar
<1>4. /\ estado_pcb' \in [Pids -> {"listo", "BCK", "S_BCK", "S_RDY"}]
      /\ estado_pcb'[q] \in {"listo", "S_RDY"}
      /\ \A p \in Pids \ {q} : estado_pcb'[p] = estado_pcb[p]
  BY <1>1, <1>3 DEF IInv, TypeOK, MedianoPlazoRdy, Bloqueado
<1>5. /\ hilo'[d].trabajo = Nada
      /\ \/ hilo'[d].pc = "recv" /\ dispositivo'[d] = "finaliza"
         \/ hilo'[d].pc = "liberar" /\ dispositivo'[d] = "trabaja"
      /\ \A e \in Ios \ {d} : hilo'[e] = hilo[e] /\ dispositivo'[e] = dispositivo[e]
      /\ UNCHANGED <<en_lista, pedidos, syscall, suspension, transiciones, colas, init_sem, viva, io>>
  BY <1>1 DEF IInv, TypeOK, MedianoPlazoRdy, Ir
<1>6. TypeOK'
  <2>1. /\ dispositivo' = dispositivo \/ dispositivo' = [dispositivo EXCEPT ![d] = "finaliza"]
        /\ \/ hilo' = [hilo EXCEPT ![d].pc = "recv"]
           \/ hilo' = [hilo EXCEPT ![d].pc = "liberar"]
    BY DEF MedianoPlazoRdy, Ir
  <2>2. dispositivo' \in [Ios -> {"apagado", "libre", "espera", "trabaja", "finaliza"}]
    BY <2>1 DEF IInv, TypeOK
  <2>3. hilo' \in [Ios -> [pc : {"sin_hilo", "recv", "sem_wait", "tomar", "enviar",
                               "postear", "buscar", "mediano_plazo_rdy", "liberar",
                               "desconectar"},
                         trabajo : Trabajo \cup {Nada}]]
    <3>1. PICK v \in {"recv", "liberar"} : hilo' = [hilo EXCEPT ![d].pc = v]
      BY <2>1
    <3>2. DOMAIN hilo = Ios /\ hilo[d].trabajo \in Trabajo \cup {Nada} /\ DOMAIN hilo[d] = {"pc", "trabajo"}
      BY DEF IInv, TypeOK
    <3>3. QED BY <3>1, <3>2 DEF IInv, TypeOK
  <2>4. QED BY <1>4, <1>5, <2>2, <2>3 DEF IInv, TypeOK, colas
<1>7. FichasJustas'
  BY <1>1, <1>5, FichasQuietas DEF IInv
<1>8. PasoDelHilo'
  BY <1>1, <1>5 DEF IInv, PasoDelHilo
<1>9. \A p \in Pids :
         /\ \A b \in Clases : EnCola(p, b)' <=> EnCola(p, b)
         /\ \A e \in Ios : /\ EnHilo(p, e)' <=> EnHilo(p, e)
                           /\ EnIo(p, e)' <=> EnIo(p, e) /\ ~(p = q /\ e = d)
  <2> TAKE p \in Pids
  <2>1. \A b \in Clases : EnCola(p, b)' <=> EnCola(p, b)
    BY <1>5 DEF EnCola, colas
  <2>2. \A e \in Ios : EnHilo(p, e)' <=> EnHilo(p, e)
    BY <1>1, <1>5 DEF EnHilo
  <2>3. \A e \in Ios : EnIo(p, e)' <=> EnIo(p, e) /\ ~(p = q /\ e = d)
    BY <1>5 DEF EnIo, Trabajando
  <2>4. QED BY <2>1, <2>2, <2>3
<1>10. LugaresDistintos'
  <2>1. \A b \in Clases : SinRepetir(lista_bck_io[b])'
    BY <1>5 DEF IInv, LugaresDistintos, colas
  <2>2. QED BY <1>9, <2>1 DEF IInv, LugaresDistintos
<1>11. LugarSiEspera'
  <2>1. ~TieneLugar(q)'
    <3>1. /\ \A c \in Clases : ~EnCola(q, c)
          /\ \A e \in Ios : ~EnHilo(q, e) /\ (EnIo(q, e) => e = d)
      BY <1>1, <1>2 DEF IInv, LugaresDistintos
    <3>2. QED BY <1>1, <1>9, <3>1 DEF TieneLugar
  <2>2. \A p \in Pids \ {q} : TieneLugar(p)' <=> TieneLugar(p)
    BY <1>9 DEF TieneLugar
  <2>3. ~Bloqueado(q)' /\ syscall'[q].paso = "nada"
    BY <1>3, <1>4, <1>5 DEF Bloqueado
  <2>4. \A p \in Pids \ {q} : /\ Bloqueado(p)' <=> Bloqueado(p)
                              /\ estado_pcb'[p] = estado_pcb[p] /\ syscall'[p] = syscall[p]
    BY <1>4, <1>5 DEF Bloqueado
  <2>5. QED BY <2>1, <2>2, <2>3, <2>4 DEF IInv, LugarSiEspera
<1>12. ClasePedida'
  BY <1>5, <1>9 DEF IInv, ClasePedida
<1>13. QED BY <1>6, <1>7, <1>8, <1>10, <1>11, <1>12 DEF IInv

-----------------------------------------------------------------------------
(* The theorems *)

LEMMA InicioIInv == Init => IInv
<1> SUFFICES ASSUME Init PROVE IInv
  OBVIOUS
<1> USE DEF Init
<1>1. TypeOK
  BY DEF TypeOK, Clases
<1>2. FichasJustas
  <2> SUFFICES ASSUME NEW c \in Clases
               PROVE  sem_io_vacio[c] + por_postear[c] + Cardinality(ConFicha(c))
                      = Len(lista_bck_io[c])
    BY DEF FichasJustas
  <2>1. ConFicha(c) = {}
    BY DEF ConFicha
  <2>2. Cardinality(ConFicha(c)) = 0
    BY <2>1, FS_EmptySet
  <2>3. sem_io_vacio[c] = 0 /\ por_postear[c] = 0 /\ lista_bck_io[c] = <<>>
    OBVIOUS
  <2>4. QED BY <2>2, <2>3
<1>3. PasoDelHilo
  BY DEF PasoDelHilo
<1>4. \A p \in Pids : /\ \A c \in Clases : ~EnCola(p, c)
                      /\ \A d \in Ios : ~EnHilo(p, d) /\ ~EnIo(p, d)
  BY DEF EnCola, Duenos, EnHilo, EnIo, Trabajando
<1>5. LugaresDistintos
  BY <1>4 DEF LugaresDistintos, SinRepetir
<1>6. LugarSiEspera /\ ClasePedida
  BY <1>4 DEF LugarSiEspera, ClasePedida, TieneLugar, Bloqueado
<1>7. QED BY <1>1, <1>2, <1>3, <1>5, <1>6 DEF IInv

LEMMA PasoIInv == IInv /\ [NextOrdenada]_vars => IInv'
<1> SUFFICES ASSUME IInv, [NextOrdenada]_vars PROVE IInv'
  OBVIOUS
<1>1. ASSUME NEW p \in Pids, NEW d \in Firmes, Bloquear(p, Clase[d]) PROVE IInv'
  BY <1>1, BloquearIInv, ColaAssumption
<1>2. ASSUME NEW p \in Pids,
             SeguirSyscall(p) \/ Suspender(p) \/ SeguirSuspension(p) \/ Reanudar(p)
      PROVE IInv'
  BY <1>2, AgregarABlockIInv, EncolarIInv, SuspensionIInv DEF SeguirSyscall, SeguirSuspension
<1>3. ASSUME NEW c \in Clases, Postear(c) PROVE IInv'
  BY <1>3, PostearIInv
<1>4. ASSUME NEW d \in Ios,
             SeguirHilo(d) \/ TomarFicha(d) \/ EncontrarPcb(d) \/ CaidaOciosa(d) \/ Desconexion(d)
      PROVE IInv'
  BY <1>4, HiloSinTrabajosIInv, TomarFichaIInv, DevolverFichaIInv, TomarTrabajoIInv,
     EntregarTrabajoIInv, MedianoPlazoRdyIInv DEF SeguirHilo, HiloSinTrabajos
<1>5. CASE UNCHANGED vars
  <2>1. TypeOK' /\ UNCHANGED <<procesos, colas, ios>>
    BY <1>5 DEF IInv, TypeOK, vars, procesos, colas, ios
  <2>2. FichasJustas' /\ PasoDelHilo'
    BY <2>1, PasoDeProceso
  <2>3. LugaresDistintos' /\ LugarSiEspera' /\ ClasePedida'
    BY <2>1, SinTrabajos DEF colas, ios, Trabajando
  <2>4. QED BY <2>1, <2>2, <2>3 DEF IInv
<1>6. QED BY <1>1, <1>2, <1>3, <1>4, <1>5 DEF NextOrdenada

\* The inductive invariant holds of every behaviour of SpecOrdenada.
THEOREM Invariante == SpecOrdenada => []IInv
<1>1. QED BY InicioIInv, PasoIInv, PTL DEF SpecOrdenada

\* Every variable keeps its type.
THEOREM TiposCorrectos == SpecOrdenada => []TypeOK
<1>1. IInv => TypeOK
  BY DEF IInv
<1>2. QED BY <1>1, Invariante, PTL

\* No token is lost or forged: each queued job has one, in the semaphore, about to be
\* posted or in the hand of a thread (io_libre, io_sleep and its like).
THEOREM FichasSiempreJustas == SpecOrdenada => []FichasJustas
<1>1. IInv => FichasJustas
  BY DEF IInv
<1>2. QED BY <1>1, Invariante, PTL

\* A device counts as in use only while a job is being given to it, or it works.
THEOREM IoOcupadaSoloSiTrabaja == SpecOrdenada => []IoOcupadaTrabaja
<1>1. IInv => IoOcupadaTrabaja
  BY DEF IInv, PasoDelHilo, IoOcupadaTrabaja
<1>2. QED BY <1>1, Invariante, PTL

\* Lugares(p), which counts places by their position, has an element exactly when
\* the process has a place, and never two.
LEMMA LugaresDeUno ==
    ASSUME IInv, NEW p \in Pids
    PROVE  /\ TieneLugar(p) <=> Lugares(p) # {}
           /\ \A x, y \in Lugares(p) : x = y
<1>1. \A x : x \in Lugares(p) <=>
                \/ \E c \in Clases : \E i \in DOMAIN lista_bck_io[c] :
                       x = <<c, i>> /\ lista_bck_io[c][i][1] = p
                \/ \E d \in Ios : x = <<d, "hilo">> /\ EnHilo(p, d)
                \/ \E d \in Ios : x = <<d, "io">> /\ EnIo(p, d)
  <2>1. \A c \in Clases : \A x : x \in LugaresEnCola(p, c) <=>
            \E i \in DOMAIN lista_bck_io[c] : x = <<c, i>> /\ lista_bck_io[c][i][1] = p
    BY DEF LugaresEnCola
  <2>2. \A x : x \in LugaresEnHilo(p) <=> \E d \in Ios : x = <<d, "hilo">> /\ EnHilo(p, d)
    BY DEF LugaresEnHilo, EnHilo
  <2>3. \A x : x \in LugaresEnIo(p) <=> \E d \in Ios : x = <<d, "io">> /\ EnIo(p, d)
    BY DEF LugaresEnIo, EnIo, Trabajando
  <2>4. \A x : x \in Lugares(p) <=>
                  \/ \E c \in Clases : x \in LugaresEnCola(p, c)
                  \/ x \in LugaresEnHilo(p) \/ x \in LugaresEnIo(p)
    BY DEF Lugares
  <2>5. \A x : (\E c \in Clases : x \in LugaresEnCola(p, c)) <=>
                 \E c \in Clases : \E i \in DOMAIN lista_bck_io[c] :
                     x = <<c, i>> /\ lista_bck_io[c][i][1] = p
    BY <2>1
  <2>6. QED BY <2>2, <2>3, <2>4, <2>5
<1>2. \A c \in Clases : \A i \in DOMAIN lista_bck_io[c] :
          lista_bck_io[c][i][1] = p => EnCola(p, c)
  BY DEF EnCola, Duenos
<1>3. \A c \in Clases : EnCola(p, c) => \E i \in DOMAIN lista_bck_io[c] : lista_bck_io[c][i][1] = p
  BY DEF EnCola, Duenos
<1>4. TieneLugar(p) <=> \E x : x \in Lugares(p)
  <2>1. ASSUME TieneLugar(p) PROVE \E x : x \in Lugares(p)
    <3>1. CASE \E c \in Clases : EnCola(p, c)
      BY <1>1, <1>3, <3>1, ZenonT(60)
    <3>2. CASE \E d \in Ios : EnHilo(p, d) \/ EnIo(p, d)
      BY <1>1, <3>2
    <3>3. QED BY <2>1, <3>1, <3>2 DEF TieneLugar
  <2>2. ASSUME NEW x \in Lugares(p) PROVE TieneLugar(p)
    BY <1>1, <1>2, <2>2 DEF TieneLugar
  <2>3. QED BY <2>1, <2>2
<1>5. ASSUME NEW x \in Lugares(p), NEW y \in Lugares(p) PROVE x = y
  <2>1. CASE \E c \in Clases : \E i \in DOMAIN lista_bck_io[c] :
                 x = <<c, i>> /\ lista_bck_io[c][i][1] = p
    <3>1. PICK c \in Clases : \E i \in DOMAIN lista_bck_io[c] :
                 x = <<c, i>> /\ lista_bck_io[c][i][1] = p
      BY <2>1
    <3>2. PICK i \in DOMAIN lista_bck_io[c] : x = <<c, i>> /\ lista_bck_io[c][i][1] = p
      BY <3>1
    <3>3. EnCola(p, c)
      BY <1>2, <3>2
    <3>4. PICK b \in Clases : \E j \in DOMAIN lista_bck_io[b] :
                 y = <<b, j>> /\ lista_bck_io[b][j][1] = p
      BY <1>1, <1>5, <3>3 DEF IInv, LugaresDistintos
    <3>5. b = c
      BY <1>2, <3>3, <3>4 DEF IInv, LugaresDistintos
    <3>6. PICK j \in DOMAIN lista_bck_io[c] : y = <<c, j>> /\ lista_bck_io[c][j][1] = p
      BY <3>4, <3>5
    <3>7. i = j
      BY <3>2, <3>6 DEF IInv, LugaresDistintos, SinRepetir
    <3>8. QED BY <3>2, <3>6, <3>7
  <2>2. CASE \E d \in Ios : x = <<d, "hilo">> /\ EnHilo(p, d)
    <3>1. PICK d \in Ios : x = <<d, "hilo">> /\ EnHilo(p, d)
      BY <2>2
    <3>2. \E e \in Ios : y = <<e, "hilo">> /\ EnHilo(p, e)
      BY <1>1, <1>2, <1>5, <3>1 DEF IInv, LugaresDistintos
    <3>3. QED BY <3>1, <3>2 DEF IInv, LugaresDistintos
  <2>3. CASE \E d \in Ios : x = <<d, "io">> /\ EnIo(p, d)
    <3>1. PICK d \in Ios : x = <<d, "io">> /\ EnIo(p, d)
      BY <2>3
    <3>2. \E e \in Ios : y = <<e, "io">> /\ EnIo(p, e)
      BY <1>1, <1>2, <1>5, <3>1 DEF IInv, LugaresDistintos
    <3>3. QED BY <3>1, <3>2 DEF IInv, LugaresDistintos
  <2>4. QED BY <1>1, <1>5, <2>1, <2>2, <2>3
<1>6. QED BY <1>4, <1>5

\* A process that waits for IO has one job in one place, and none otherwise.
THEOREM CadaTrabajoUnico == SpecOrdenada => []TrabajoUnico
<1>1. IInv => TrabajoUnico
  <2> SUFFICES ASSUME IInv, NEW p \in Pids
               PROVE  Cardinality(Lugares(p)) =
                          IF Bloqueado(p) /\ syscall[p].paso = "nada" THEN 1 ELSE 0
    BY DEF TrabajoUnico
  <2>1. TieneLugar(p) <=> Bloqueado(p) /\ syscall[p].paso = "nada"
    BY DEF IInv, LugarSiEspera
  <2>2. CASE TieneLugar(p)
    <3>1. \E x : Lugares(p) = {x}
      BY <2>2, LugaresDeUno
    <3>2. Cardinality(Lugares(p)) = 1
      BY <3>1, FS_Singleton
    <3>3. QED BY <2>1, <2>2, <3>2
  <2>3. CASE ~TieneLugar(p)
    <3>1. Lugares(p) = {}
      BY <2>3, LugaresDeUno
    <3>2. Cardinality(Lugares(p)) = 0
      BY <3>1, FS_EmptySet
    <3>3. QED BY <2>1, <2>3, <3>2
  <2>4. QED BY <2>2, <2>3
<1>2. QED BY <1>1, Invariante, PTL

-----------------------------------------------------------------------------
(* ServicioIO is implemented: every step is a step of the service or a       *)
(* stutter.                                                                  *)

PedidoDe(p) == IF Bloqueado(p) THEN syscall[p].clase ELSE Nada
TrabajaPara(d) == IF Trabajando(d) THEN io[d].pid_ejec[1] ELSE Nada

\* The variables of the service.
pedido == [p \in Pids |-> PedidoDe(p)]
trabaja == [d \in Ios |-> TrabajaPara(d)]

LEMMA PasoServicio ==
    /\ Servicio!Init <=> /\ pedido = [p \in Pids |-> Nada]
                         /\ trabaja = [d \in Ios |-> Nada]
    /\ [Servicio!Next]_<<pedido, trabaja>> <=>
           \/ \E p \in Pids, d \in Ios :
                  /\ pedido[p] = Nada
                  /\ pedido' = [pedido EXCEPT ![p] = Clase[d]]
                  /\ UNCHANGED trabaja
           \/ \E p \in Pids, d \in Ios :
                  /\ trabaja[d] = Nada /\ pedido[p] = Clase[d]
                  /\ \A e \in Ios : trabaja[e] # p
                  /\ trabaja' = [trabaja EXCEPT ![d] = p]
                  /\ UNCHANGED pedido
           \/ \E d \in Ios :
                  /\ trabaja[d] # Nada
                  /\ pedido' = [pedido EXCEPT ![trabaja[d]] = Nada]
                  /\ trabaja' = [trabaja EXCEPT ![d] = Nada]
           \/ UNCHANGED <<pedido, trabaja>>
BY DEF Servicio!Init, Servicio!Next, Servicio!Pedir, Servicio!Comenzar, Servicio!Responder,
       pedido, trabaja, PedidoDe, TrabajaPara, Trabajando

\* Nobody starts or stops waiting or working: the service does not move.
LEMMA ServicioQuieto ==
    ASSUME \A p \in Pids : /\ Bloqueado(p)' <=> Bloqueado(p)
                           /\ syscall'[p].clase = syscall[p].clase,
           \A d \in Ios : /\ Trabajando(d)' <=> Trabajando(d)
                          /\ Trabajando(d) => io'[d].pid_ejec = io[d].pid_ejec
    PROVE  [Servicio!Next]_<<pedido, trabaja>>
<1>1. \A p \in Pids : PedidoDe(p)' = PedidoDe(p)
  BY DEF PedidoDe
<1>2. \A d \in Ios : TrabajaPara(d)' = TrabajaPara(d)
  BY DEF TrabajaPara
<1>3. UNCHANGED <<pedido, trabaja>>
  BY <1>1, <1>2 DEF pedido, trabaja
<1>4. QED BY <1>3, PasoServicio

LEMMA BloquearPide ==
    ASSUME IInv, NEW p \in Pids, NEW d \in Ios, Bloquear(p, Clase[d])
    PROVE  [Servicio!Next]_<<pedido, trabaja>>
<1>1. /\ ~Bloqueado(p) /\ Bloqueado(p)' /\ syscall'[p].clase = Clase[d]
      /\ \A q \in Pids \ {p} : /\ Bloqueado(q)' <=> Bloqueado(q)
                               /\ syscall'[q] = syscall[q]
      /\ UNCHANGED ios
  BY DEF IInv, TypeOK, Bloquear, Bloqueado
<1>2. PedidoDe(p) = Nada /\ PedidoDe(p)' = Clase[d]
  BY <1>1 DEF PedidoDe
<1>3. \A q \in Pids \ {p} : PedidoDe(q)' = PedidoDe(q)
  BY <1>1 DEF PedidoDe
<1>4. \A e \in Ios : TrabajaPara(e)' = TrabajaPara(e)
  BY <1>1 DEF TrabajaPara, Trabajando, ios
<1>5. pedido' = [pedido EXCEPT ![p] = Clase[d]] /\ pedido[p] = Nada
  BY <1>2, <1>3 DEF pedido
<1>6. UNCHANGED trabaja
  BY <1>4 DEF trabaja
<1>7. QED BY <1>5, <1>6, PasoServicio

LEMMA EntregarComienza ==
    ASSUME IInv, NEW d \in Ios, EntregarTrabajo(d)
    PROVE  [Servicio!Next]_<<pedido, trabaja>>
<1>1. /\ hilo[d].pc = "enviar" /\ dispositivo[d] = "espera"
      /\ hilo[d].trabajo \in Trabajo /\ hilo[d].trabajo # Nada
      /\ UNCHANGED procesos
      /\ \A e \in Ios \ {d} : hilo'[e] = hilo[e] /\ io'[e] = io[e] /\ dispositivo'[e] = dispositivo[e]
  BY DEF IInv, TypeOK, PasoDelHilo, EntregarTrabajo
<1> PICK p \in Pids : p = hilo[d].trabajo[1]
  BY <1>1 DEF Trabajo
<1>2. EnHilo(p, d) /\ ~Trabajando(d)
  BY <1>1 DEF EnHilo, Trabajando
<1>3. \A q \in Pids : PedidoDe(q)' = PedidoDe(q)
  BY <1>1 DEF PedidoDe, Bloqueado, procesos
<1>4. \A e \in Ios \ {d} : TrabajaPara(e)' = TrabajaPara(e)
  BY <1>1 DEF TrabajaPara, Trabajando
<1>5. UNCHANGED pedido
  BY <1>3 DEF pedido
<1>6. CASE viva[d]
  <2>1. TrabajaPara(d) = Nada /\ TrabajaPara(d)' = p
    BY <1>1, <1>2, <1>6 DEF IInv, TypeOK, EntregarTrabajo, TrabajaPara, Trabajando
  <2>2. trabaja[d] = Nada /\ trabaja' = [trabaja EXCEPT ![d] = p]
    BY <1>4, <2>1 DEF trabaja
  <2>3. PedidoDe(p) = Clase[d]
    BY <1>2 DEF IInv, LugarSiEspera, TieneLugar, ClasePedida, PedidoDe
  <2>4. pedido[p] = Clase[d]
    BY <2>3 DEF pedido
  <2>5. \A e \in Ios : trabaja[e] # p
    BY <1>2, ColaAssumption DEF IInv, LugaresDistintos, EnIo, trabaja, TrabajaPara
  <2>6. QED BY <1>5, <2>2, <2>4, <2>5, PasoServicio
<1>7. CASE ~viva[d]
  <2>1. TrabajaPara(d)' = TrabajaPara(d)
    BY <1>1, <1>7 DEF EntregarTrabajo, TrabajaPara, Trabajando
  <2>2. UNCHANGED trabaja
    BY <1>4, <2>1 DEF trabaja
  <2>3. QED BY <1>5, <2>2, PasoServicio
<1>8. QED BY <1>6, <1>7

LEMMA MedianoPlazoRdyResponde ==
    ASSUME IInv, NEW d \in Ios, MedianoPlazoRdy(d)
    PROVE  [Servicio!Next]_<<pedido, trabaja>>
<1>1. /\ hilo[d].pc = "mediano_plazo_rdy" /\ dispositivo[d] = "trabaja"
      /\ io[d].pid_ejec \in Trabajo
      /\ UNCHANGED <<syscall, io>>
      /\ \A e \in Ios \ {d} : hilo'[e] = hilo[e] /\ dispositivo'[e] = dispositivo[e]
      /\ hilo'[d].pc = "liberar" \/ dispositivo'[d] = "finaliza"
  BY DEF IInv, TypeOK, PasoDelHilo, MedianoPlazoRdy, Ir
<1> PICK p \in Pids : p = io[d].pid_ejec[1]
  BY <1>1 DEF Trabajo
<1>2. Trabajando(d) /\ EnIo(p, d) /\ ~Trabajando(d)'
  BY <1>1 DEF Trabajando, EnIo
<1>3. Bloqueado(p)
  BY <1>2 DEF IInv, LugarSiEspera, TieneLugar
<1>4. ~Bloqueado(p)' /\ \A q \in Pids \ {p} : Bloqueado(q)' <=> Bloqueado(q)
  BY <1>3 DEF IInv, TypeOK, MedianoPlazoRdy, Bloqueado
<1>5. PedidoDe(p)' = Nada /\ \A q \in Pids \ {p} : PedidoDe(q)' = PedidoDe(q)
  BY <1>1, <1>4 DEF PedidoDe
<1>6. /\ TrabajaPara(d) = p /\ TrabajaPara(d)' = Nada
      /\ \A e \in Ios \ {d} : TrabajaPara(e)' = TrabajaPara(e)
  BY <1>1, <1>2 DEF TrabajaPara, Trabajando
<1>7. pedido' = [pedido EXCEPT ![p] = Nada]
  BY <1>5 DEF pedido
<1>8. trabaja[d] = p /\ trabaja' = [trabaja EXCEPT ![d] = Nada]
  BY <1>6 DEF trabaja
<1>9. p # Nada
  BY ColaAssumption
<1>10. QED BY <1>7, <1>8, <1>9, PasoServicio

LEMMA PasoRefina == IInv /\ [NextOrdenada]_vars => [Servicio!Next]_<<pedido, trabaja>>
<1> SUFFICES ASSUME IInv, [NextOrdenada]_vars
             PROVE  [Servicio!Next]_<<pedido, trabaja>>
  OBVIOUS
<1>1. ASSUME NEW p \in Pids, NEW d \in Firmes, Bloquear(p, Clase[d])
      PROVE  [Servicio!Next]_<<pedido, trabaja>>
  BY <1>1, BloquearPide, ColaAssumption
<1>2. ASSUME NEW p \in Pids, SeguirSyscall(p)
      PROVE  [Servicio!Next]_<<pedido, trabaja>>
  <2>1. /\ UNCHANGED <<estado_pcb, ios>>
        /\ \A q \in Pids : syscall'[q].clase = syscall[q].clase
    <3>1. syscall \in [Pids -> [paso : {"nada", "agregar", "encolar"}, clase : Clases]]
      BY DEF IInv, TypeOK
    <3>2. CASE AgregarABlock(p)
      BY <3>1, <3>2 DEF AgregarABlock
    <3>3. CASE Encolar(p)
      BY <3>1, <3>3 DEF Encolar
    <3>4. QED BY <1>2, <3>2, <3>3 DEF SeguirSyscall
  <2>2. QED BY <2>1, ServicioQuieto DEF Bloqueado, Trabajando, ios
<1>3. ASSUME NEW p \in Pids, Suspender(p) \/ SeguirSuspension(p) \/ Reanudar(p)
      PROVE  [Servicio!Next]_<<pedido, trabaja>>
  <2>1. UNCHANGED <<syscall, ios>> /\ \A q \in Pids : Bloqueado(q)' <=> Bloqueado(q)
    BY <1>3, SuspensionIInv DEF SeguirSuspension
  <2>2. QED BY <2>1, ServicioQuieto DEF Trabajando, ios
<1>4. ASSUME NEW c \in Clases, Postear(c)
      PROVE  [Servicio!Next]_<<pedido, trabaja>>
  BY <1>4, ServicioQuieto DEF Postear, Bloqueado, Trabajando, procesos, ios
<1>5. ASSUME NEW d \in Ios, HiloSinTrabajos(d)
      PROVE  [Servicio!Next]_<<pedido, trabaja>>
  <2>1. /\ UNCHANGED procesos
        /\ \A e \in Ios : /\ Trabajando(e)' <=> Trabajando(e)
                          /\ Trabajando(e) => io'[e].pid_ejec = io[e].pid_ejec
    BY <1>5, HiloSinTrabajosIInv
  <2>2. \A p \in Pids : /\ Bloqueado(p)' <=> Bloqueado(p)
                        /\ syscall'[p].clase = syscall[p].clase
    BY <2>1 DEF Bloqueado, procesos
  <2>3. \A e \in Ios : /\ Trabajando(e)' <=> Trabajando(e)
                       /\ Trabajando(e) => io'[e].pid_ejec = io[e].pid_ejec
    BY <2>1
  <2>4. QED BY <2>2, <2>3, ServicioQuieto
<1>6. ASSUME NEW d \in Ios, TomarFicha(d) \/ DevolverFicha(d) \/ TomarTrabajo(d)
      PROVE  [Servicio!Next]_<<pedido, trabaja>>
  <2>1. /\ UNCHANGED <<procesos, dispositivo>>
        /\ hilo[d].pc # "liberar" /\ hilo'[d].pc # "liberar"
        /\ \A e \in Ios \ {d} : hilo'[e] = hilo[e]
        /\ \A e \in Ios : io'[e].pid_ejec = io[e].pid_ejec
    <3>1. CASE TomarFicha(d)
      BY <3>1 DEF IInv, TypeOK, TomarFicha, Ir, procesos
    <3>2. CASE DevolverFicha(d)
      BY <3>2 DEF IInv, TypeOK, DevolverFicha, Ir, procesos
    <3>3. CASE TomarTrabajo(d)
      <4>1. /\ hilo[d].pc = "tomar" /\ UNCHANGED <<procesos, dispositivo>>
            /\ io' = io \/ io' = [io EXCEPT ![d].enUso = TRUE]
            /\ \/ hilo' = [hilo EXCEPT ![d].pc = "postear"]
               \/ \E t : hilo' = [hilo EXCEPT ![d] = [pc |-> "enviar", trabajo |-> t]]
        BY <3>3 DEF TomarTrabajo, Ir
      <4>2. \A e \in Ios : io'[e].pid_ejec = io[e].pid_ejec
        <5>1. io \in [Ios -> [enUso : BOOLEAN, pid_ejec : Trabajo \cup {Nada}]]
          BY DEF IInv, TypeOK
        <5>2. QED BY <4>1, <5>1
      <4>3. hilo'[d].pc # "liberar" /\ \A e \in Ios \ {d} : hilo'[e] = hilo[e]
        BY <4>1 DEF IInv, TypeOK
      <4>4. QED BY <4>1, <4>2, <4>3
    <3>4. QED BY <1>6, <3>1, <3>2, <3>3
  <2>2. QED BY <2>1, ServicioQuieto DEF Bloqueado, Trabajando, procesos
<1>7. ASSUME NEW d \in Ios, EntregarTrabajo(d) \/ MedianoPlazoRdy(d)
      PROVE  [Servicio!Next]_<<pedido, trabaja>>
  BY <1>7, EntregarComienza, MedianoPlazoRdyResponde
<1>8. CASE UNCHANGED vars
  BY <1>8, ServicioQuieto DEF vars, Bloqueado, Trabajando
<1>9. QED
  BY <1>1, <1>2, <1>3, <1>4, <1>5, <1>6, <1>7, <1>8
  DEF NextOrdenada, SeguirHilo, HiloSinTrabajos

\* The queues implement the service: a request is carried out once, by a device of its
\* class, and the process goes on because that device has answered.
THEOREM ImplementaServicio == SpecOrdenada => ServicioUnico
<1>1. Init => Servicio!Init
  BY PasoServicio
  DEF Init, pedido, trabaja, PedidoDe, TrabajaPara, Bloqueado, Trabajando
<1>2. IInv /\ [NextOrdenada]_vars => [Servicio!Next]_<<pedido, trabaja>>
  BY PasoRefina
<1>3. QED
  BY <1>1, <1>2, Invariante, PTL
  DEF SpecOrdenada, ServicioUnico, Servicio!Spec, pedido, trabaja, PedidoDe, TrabajaPara,
      Trabajando
=============================================================================

---------------------------- MODULE CPU_proofs ----------------------------
(***************************************************************************)
(* Proofs about the CPUs and the copy of the segment table they work with   *)
(* (module CPU), for any number of CPUs, processes and sticks and for any   *)
(* scripts.                                                                *)
(*                                                                         *)
(* The inductive invariant IInv says what the three programs agree on       *)
(* without ever saying it to each other: whose process each CPU has, what   *)
(* the scheduler thinks of that process in each phase of the cycle, and     *)
(* when the copy of the table may still be used.                            *)
(***************************************************************************)
EXTENDS CPU, TLAPS

-----------------------------------------------------------------------------
(* The inductive invariant *)

\* What the steps read as a record is one.
EsContexto(x) == DOMAIN x = {"reg", "tabla"}

FormaCpu(c) ==
    /\ DOMAIN cpu[c] = {"fase", "pid", "ctx", "sticks", "acceso", "avisos"}
    /\ DOMAIN cpu[c].acceso = {"dir", "falta", "datos", "fallo"}
    /\ cpu[c].acceso.fallo \in BOOLEAN
    /\ cpu[c].pid \in Pids \cup {Nadie}

Forma ==
    /\ DOMAIN cpu = Cpus
    /\ \A c \in Cpus : FormaCpu(c)
    /\ DOMAIN contextos = Pids
    /\ \A p \in Pids : contextos[p] = Nadie \/ EsContexto(contextos[p])
    /\ DOMAIN estado = Pids

\* The phases in which a CPU has a context, and those of an access.
ConContexto == Confia \cup {"espera", "interrupt", "guardar"}
EnAcceso == {"leyendo", "escribiendo", "colgada"}

\* The copy of the table may still be read: the CPU trusts it now, or will when
\* the scheduler answers its query with nothing to do.
EnUso(c) ==
    \/ cpu[c].fase \in Confia /\ ~cpu[c].acceso.fallo
    \/ cpu[c].fase = "interrupt" /\ cpu[c].pid \notin desalojo

\* What holds of one CPU.  Its process is never READY; after a refusal of the MMU
\* that COPY_MEM ignored it is already in EXIT; while the copy is in use the
\* process is in RUNNING and the copy says what Kernel Memory says.
SegunFase(c) ==
    /\ cpu[c].pid = Nadie <=> cpu[c].fase \in {"fuera", "libre"}
    /\ cpu[c].fase \in ConContexto => EsContexto(cpu[c].ctx)
    /\ cpu[c].acceso.fallo => /\ cpu[c].fase \in EnAcceso
                              /\ estado[cpu[c].pid] = "EXIT"
                              /\ Actual(c).op = "COPY_MEM"
    /\ cpu[c].pid # Nadie => estado[cpu[c].pid] # "READY"
    /\ cpu[c].fase = "despachada" => estado[cpu[c].pid] = "RUNNING"
    /\ EnUso(c) \/ cpu[c].fase = "espera" => /\ estado[cpu[c].pid] = "RUNNING"
                                             /\ EsContexto(contextos[cpu[c].pid])
    /\ EnUso(c) => cpu[c].ctx.tabla = Tabla(cpu[c].pid)

UnDuenio ==
    \A c, d \in Cpus : cpu[c].pid = cpu[d].pid /\ cpu[c].pid # Nadie => c = d

RunningConCpu ==
    \A p \in Pids : estado[p] = "RUNNING" => \E c \in Cpus : cpu[c].pid = p

IInv == Forma /\ (\A c \in Cpus : SegunFase(c)) /\ UnDuenio /\ RunningConCpu

-----------------------------------------------------------------------------
(* Lemmas about a step: what it has to show when it touches one CPU or none *)

\* The invariant looks at four of the variables only.
LEMMA SinCambios ==
    ASSUME IInv, UNCHANGED <<cpu, contextos, estado, desalojo>>
    PROVE  IInv'
BY DEF IInv, Forma, FormaCpu, EsContexto, SegunFase, EnUso, Tabla, UnDuenio, RunningConCpu,
       Actual, Pid, Reg

\* A step of CPU c, or of another program on its behalf: the other CPUs keep what
\* they rely on as long as only the process of c changes.
LEMMA PasoDeUna ==
    ASSUME IInv, NEW c \in Cpus,
           DOMAIN cpu' = Cpus, \A d \in Cpus \ {c} : cpu'[d] = cpu[d],
           FormaCpu(c)', SegunFase(c)',
           DOMAIN contextos' = Pids,
           \A p \in Pids : contextos'[p] = Nadie \/ EsContexto(contextos'[p]),
           DOMAIN estado' = Pids,
           \A p \in Pids \ {cpu[c].pid, cpu'[c].pid} :
               /\ estado'[p] = estado[p]
               /\ contextos'[p] = contextos[p] \/ estado[p] # "RUNNING"
               /\ p \in desalojo => p \in desalojo',
           \/ cpu'[c].pid \in {cpu[c].pid, Nadie}
           \/ \A d \in Cpus : cpu[d].pid # cpu'[c].pid,
           cpu[c].pid \in Pids /\ estado'[cpu[c].pid] = "RUNNING" => cpu'[c].pid = cpu[c].pid
    PROVE  IInv'
<1>1. Forma'
  BY DEF IInv, Forma, FormaCpu
<1>2. UnDuenio'
  BY DEF IInv, UnDuenio
<1>3. ASSUME NEW d \in Cpus PROVE SegunFase(d)'
  <2>1. CASE d = c
    BY <2>1
  <2>2. CASE d # c
    <3>1. cpu'[d] = cpu[d]
      BY <2>2
    <3>2. SegunFase(d) /\ FormaCpu(d)
      BY DEF IInv, Forma
    <3>3. CASE cpu[d].pid = Nadie
      BY <3>1, <3>2, <3>3 DEF SegunFase, EnUso, FormaCpu, ConContexto, EnAcceso, Confia,
                               Actual, Pid, Reg
    <3>4. CASE cpu[d].pid # Nadie
      <4>1. cpu[d].pid \in Pids
        BY <3>2, <3>4 DEF FormaCpu
      <4>2. cpu[d].pid # cpu[c].pid
        BY <2>2, <3>4 DEF IInv, UnDuenio
      <4>3. cpu[d].pid # cpu'[c].pid
        BY <4>2, <3>4, <4>1
      <4>4. /\ estado'[cpu[d].pid] = estado[cpu[d].pid]
            /\ \/ contextos'[cpu[d].pid] = contextos[cpu[d].pid]
               \/ estado[cpu[d].pid] # "RUNNING"
            /\ cpu[d].pid \in desalojo => cpu[d].pid \in desalojo'
        BY <4>1, <4>2, <4>3
      <4> QED
        BY <3>1, <3>2, <4>4 DEF SegunFase, EnUso, Tabla, Actual, Pid, Reg
    <3> QED
      BY <3>3, <3>4
  <2> QED
    BY <2>1, <2>2
<1>4. RunningConCpu'
  <2> SUFFICES ASSUME NEW p \in Pids, estado'[p] = "RUNNING"
               PROVE  \E d \in Cpus : cpu'[d].pid = p
    BY DEF RunningConCpu
  <2>1. CASE p = cpu[c].pid
    BY <2>1
  <2>2. CASE p = cpu'[c].pid
    BY <2>2
  <2>3. CASE p \notin {cpu[c].pid, cpu'[c].pid}
    <3>1. PICK d \in Cpus : cpu[d].pid = p
      BY <2>3 DEF IInv, RunningConCpu
    <3> QED
      BY <3>1, <2>3
  <2> QED
    BY <2>1, <2>2, <2>3
<1> QED
  BY <1>1, <1>2, <1>3, <1>4 DEF IInv

\* A step that no CPU notices: it changes the state of a process no CPU has, or
\* adds marks.
LEMMA PasoSinCpu ==
    ASSUME IInv, UNCHANGED <<cpu, contextos>>,
           DOMAIN estado' = Pids,
           \A p \in Pids : \/ estado'[p] = estado[p]
                           \/ /\ \A c \in Cpus : cpu[c].pid # p
                              /\ estado'[p] # "RUNNING",
           desalojo \subseteq desalojo'
    PROVE  IInv'
<1>1. Forma' /\ UnDuenio'
  BY DEF IInv, Forma, FormaCpu, UnDuenio
<1>2. RunningConCpu'
  BY DEF IInv, RunningConCpu
<1>3. ASSUME NEW d \in Cpus PROVE SegunFase(d)'
  <2>1. SegunFase(d) /\ FormaCpu(d)
    BY DEF IInv, Forma
  <2>2. CASE cpu[d].pid = Nadie
    BY <2>1, <2>2 DEF SegunFase, EnUso, FormaCpu, ConContexto, EnAcceso, Confia,
                               Actual, Pid, Reg
  <2>3. CASE cpu[d].pid # Nadie
    <3>1. estado'[cpu[d].pid] = estado[cpu[d].pid]
      BY <2>1, <2>3 DEF FormaCpu
    <3> QED
      BY <2>1, <3>1 DEF SegunFase, EnUso, Tabla, Actual, Pid, Reg
  <2> QED
    BY <2>2, <2>3
<1> QED
  BY <1>1, <1>2, <1>3 DEF IInv

-----------------------------------------------------------------------------
(* What the common updates of cpu do to the CPU that makes them *)

LEMMA EfectoDeCumplida ==
    ASSUME Forma, NEW c \in Cpus, EsContexto(cpu[c].ctx),
           NEW reg, cpu' = Cumplida(c, reg)
    PROVE  /\ DOMAIN cpu' = Cpus
           /\ \A d \in Cpus \ {c} : cpu'[d] = cpu[d]
           /\ FormaCpu(c)'
           /\ cpu'[c].fase = "interrupt"
           /\ cpu'[c].pid = cpu[c].pid
           /\ ~cpu'[c].acceso.fallo
           /\ EsContexto(cpu'[c].ctx)
           /\ cpu'[c].ctx.tabla = cpu[c].ctx.tabla
BY DEF Forma, FormaCpu, EsContexto, Cumplida, SinAcceso

LEMMA EfectoDeLibre ==
    ASSUME Forma, NEW c \in Cpus, cpu' = Libre(c)
    PROVE  /\ DOMAIN cpu' = Cpus
           /\ \A d \in Cpus \ {c} : cpu'[d] = cpu[d]
           /\ FormaCpu(c)'
           /\ cpu'[c].fase = "libre"
           /\ cpu'[c].pid = Nadie
           /\ ~cpu'[c].acceso.fallo
BY DEF Forma, FormaCpu, Libre, SinAcceso

\* A CPU that drops its context to end the process.
LEMMA EfectoDeFin ==
    ASSUME Forma, NEW c \in Cpus,
           cpu' = [cpu EXCEPT ![c].fase = "finalizando", ![c].ctx = Nadie,
                              ![c].acceso = SinAcceso]
    PROVE  /\ DOMAIN cpu' = Cpus
           /\ \A d \in Cpus \ {c} : cpu'[d] = cpu[d]
           /\ FormaCpu(c)'
           /\ cpu'[c].fase = "finalizando"
           /\ cpu'[c].pid = cpu[c].pid
           /\ ~cpu'[c].acceso.fallo
BY DEF Forma, FormaCpu, SinAcceso

\* The same with a notice.
LEMMA EfectoDeFinAvisado ==
    ASSUME Forma, NEW c \in Cpus,
           cpu' = [cpu EXCEPT ![c].fase = "finalizando", ![c].ctx = Nadie,
                              ![c].acceso = SinAcceso, ![c].avisos = 1]
    PROVE  /\ DOMAIN cpu' = Cpus
           /\ \A d \in Cpus \ {c} : cpu'[d] = cpu[d]
           /\ FormaCpu(c)'
           /\ cpu'[c].fase = "finalizando"
           /\ cpu'[c].pid = cpu[c].pid
           /\ ~cpu'[c].acceso.fallo
BY DEF Forma, FormaCpu, SinAcceso

\* Only the phase changes.
LEMMA EfectoDeFase ==
    ASSUME Forma, NEW c \in Cpus, NEW fase, cpu' = [cpu EXCEPT ![c].fase = fase]
    PROVE  /\ DOMAIN cpu' = Cpus
           /\ \A d \in Cpus \ {c} : cpu'[d] = cpu[d]
           /\ FormaCpu(c)'
           /\ cpu'[c].fase = fase
           /\ cpu'[c].pid = cpu[c].pid
           /\ cpu'[c].acceso = cpu[c].acceso
           /\ cpu'[c].ctx = cpu[c].ctx
BY DEF Forma, FormaCpu

-----------------------------------------------------------------------------
(* The steps of the instruction cycle *)

LEMMA InicioIInv == Init => IInv
<1> SUFFICES ASSUME Init PROVE IInv
  OBVIOUS
<1> USE DEF Init
<1>1. Forma
  BY DEF Forma, FormaCpu, EsContexto, SinAcceso
<1>2. \A c \in Cpus : cpu[c].fase = "fuera" /\ cpu[c].pid = Nadie /\ ~cpu[c].acceso.fallo
  BY DEF SinAcceso
<1>3. \A c \in Cpus : SegunFase(c)
  BY <1>2 DEF SegunFase, EnUso, ConContexto, Confia
<1>4. UnDuenio
  BY <1>2 DEF UnDuenio
<1>5. RunningConCpu
  BY DEF RunningConCpu
<1> QED
  BY <1>1, <1>3, <1>4, <1>5 DEF IInv

\* A CPU outside "fuera" and "libre" has a process.
LEMMA ConProceso ==
    ASSUME IInv, NEW c \in Cpus, cpu[c].fase \notin {"fuera", "libre"}
    PROVE  cpu[c].pid \in Pids /\ cpu[c].pid # Nadie
BY DEF IInv, Forma, FormaCpu, SegunFase

\* An instruction is done: either nothing changed but the CPU, which was using its
\* copy, or the process is marked and will not use it again.
LEMMA PasoCumplida ==
    ASSUME IInv, NEW c \in Cpus, cpu[c].fase \in ConContexto,
           NEW reg, cpu' = Cumplida(c, reg),
           UNCHANGED contextos,
           DOMAIN estado' = Pids,
           \A p \in Pids \ {cpu[c].pid} : estado'[p] = estado[p],
           estado'[cpu[c].pid] # "READY",
           desalojo \subseteq desalojo',
           \/ cpu[c].pid \in desalojo'
           \/ EnUso(c) /\ estado' = estado
    PROVE  IInv'
<1>1. cpu[c].pid \in Pids /\ cpu[c].pid # Nadie
  BY ConProceso DEF ConContexto, Confia
<1>2. Forma /\ SegunFase(c) /\ EsContexto(cpu[c].ctx)
  BY DEF IInv, SegunFase
<1>3. /\ DOMAIN cpu' = Cpus
      /\ \A d \in Cpus \ {c} : cpu'[d] = cpu[d]
      /\ FormaCpu(c)'
      /\ cpu'[c].fase = "interrupt"
      /\ cpu'[c].pid = cpu[c].pid
      /\ ~cpu'[c].acceso.fallo
      /\ EsContexto(cpu'[c].ctx)
      /\ cpu'[c].ctx.tabla = cpu[c].ctx.tabla
  BY <1>2, EfectoDeCumplida
<1>4. SegunFase(c)'
  <2>1. EnUso(c)' => EnUso(c) /\ estado' = estado
    BY <1>3 DEF EnUso, Confia
  <2> QED
    BY <1>1, <1>2, <1>3, <2>1 DEF SegunFase, Tabla, Confia
<1>5. DOMAIN contextos' = Pids /\ \A p \in Pids : contextos'[p] = Nadie \/ EsContexto(contextos'[p])
  BY <1>2 DEF Forma
<1> QED
  BY <1>1, <1>3, <1>4, <1>5, PasoDeUna

LEMMA PasoNuevaCpu ==
    ASSUME IInv, NEW c \in Cpus, NuevaCpu(c)
    PROVE  IInv'
<1> USE DEF NuevaCpu, En
<1>1. Forma /\ SegunFase(c) /\ cpu[c].pid = Nadie
  BY DEF IInv, SegunFase
<1>2. /\ DOMAIN cpu' = Cpus
      /\ \A d \in Cpus \ {c} : cpu'[d] = cpu[d]
      /\ FormaCpu(c)'
      /\ cpu'[c].fase = "libre"
      /\ cpu'[c].pid = Nadie
      /\ cpu'[c].acceso = cpu[c].acceso
  BY <1>1 DEF Forma, FormaCpu
<1>3. SegunFase(c)'
  BY <1>1, <1>2 DEF SegunFase, EnUso, ConContexto, Confia, EnAcceso
<1> QED
  BY <1>1, <1>2, <1>3, PasoDeUna, CPUAssumption DEF Forma

LEMMA PasoDespachar ==
    ASSUME IInv, NEW p \in Pids, NEW c \in Cpus, Despachar(p, c)
    PROVE  IInv'
<1> USE DEF Despachar, En
<1>1. Forma /\ SegunFase(c) /\ cpu[c].pid = Nadie /\ p # Nadie
  BY CPUAssumption DEF IInv, SegunFase
<1>2. /\ DOMAIN cpu' = Cpus
      /\ \A d \in Cpus \ {c} : cpu'[d] = cpu[d]
      /\ FormaCpu(c)'
      /\ cpu'[c].fase = "despachada"
      /\ cpu'[c].pid = p
      /\ cpu'[c].acceso = cpu[c].acceso
  BY <1>1 DEF Forma, FormaCpu
<1>3. DOMAIN estado' = Pids /\ estado'[p] = "RUNNING"
  BY <1>1 DEF Forma
<1>4. SegunFase(c)'
  BY <1>1, <1>2, <1>3 DEF SegunFase, EnUso, ConContexto, Confia, EnAcceso
<1>5. \A d \in Cpus : cpu[d].pid # p
  BY <1>1 DEF IInv, SegunFase
<1>6. \A q \in Pids \ {p} : estado'[q] = estado[q] /\ (q \in desalojo => q \in desalojo')
  BY <1>1 DEF Forma
<1> QED
  BY <1>1, <1>2, <1>3, <1>4, <1>5, <1>6, PasoDeUna, CPUAssumption DEF Forma

LEMMA PasoRecibirContexto ==
    ASSUME IInv, NEW c \in Cpus, RecibirContexto(c)
    PROVE  IInv'
<1> USE DEF RecibirContexto, En, Pid
<1>1. Forma /\ SegunFase(c) /\ cpu[c].pid \in Pids /\ cpu[c].pid # Nadie
  BY ConProceso DEF IInv
<1>2. EsContexto(contextos[cpu[c].pid])
  BY <1>1 DEF Forma
<1>3. /\ DOMAIN cpu' = Cpus
      /\ \A d \in Cpus \ {c} : cpu'[d] = cpu[d]
      /\ FormaCpu(c)'
      /\ cpu'[c].fase = "fetch"
      /\ cpu'[c].pid = cpu[c].pid
      /\ cpu'[c].ctx = contextos[cpu[c].pid]
      /\ cpu'[c].acceso = cpu[c].acceso
  BY <1>1 DEF Forma, FormaCpu
<1>4. SegunFase(c)'
  BY <1>1, <1>2, <1>3 DEF SegunFase, EnUso, ConContexto, Confia, EnAcceso, Tabla
<1> QED
  BY <1>1, <1>3, <1>4, PasoDeUna DEF Forma

LEMMA PasoEjecutarCalculo ==
    ASSUME IInv, NEW c \in Cpus, EjecutarCalculo(c)
    PROVE  IInv'
<1> USE DEF EjecutarCalculo, AntesDe, En
<1>1. Forma /\ SegunFase(c) /\ cpu[c].pid \in Pids /\ cpu[c].pid # Nadie
  BY ConProceso DEF IInv
<1>2. cpu[c].fase \in ConContexto /\ EnUso(c) /\ estado[cpu[c].pid] # "READY"
  BY <1>1 DEF ConContexto, EnUso, Confia, SegunFase, EnAcceso
<1> QED
  BY <1>1, <1>2, PasoCumplida DEF Forma

-----------------------------------------------------------------------------
(* Accesses to memory *)

\* The MMU refused and the CPU drops the process.
LEMMA PasoSegFault ==
    ASSUME IInv, NEW c \in Cpus, cpu[c].fase = "fetch", SegFault(c)
    PROVE  IInv'
<1> USE DEF SegFault, Pid
<1>1. Forma /\ SegunFase(c) /\ cpu[c].pid \in Pids /\ cpu[c].pid # Nadie
  BY ConProceso DEF IInv
<1>2. /\ DOMAIN cpu' = Cpus
      /\ \A d \in Cpus \ {c} : cpu'[d] = cpu[d]
      /\ FormaCpu(c)'
      /\ cpu'[c].fase = "finalizando"
      /\ cpu'[c].pid = cpu[c].pid
      /\ ~cpu'[c].acceso.fallo
  BY <1>1, EfectoDeFinAvisado
<1>3. /\ DOMAIN estado' = Pids /\ estado'[cpu[c].pid] = "EXIT"
      /\ \A p \in Pids \ {cpu[c].pid} : estado'[p] = estado[p]
  BY <1>1 DEF Forma
<1>4. SegunFase(c)'
  BY <1>1, <1>2, <1>3 DEF SegunFase, EnUso, ConContexto, Confia
<1> QED
  BY <1>1, <1>2, <1>3, <1>4, PasoDeUna DEF Forma

\* A CPU that goes on with an access, or begins one, keeps its context.
LEMMA PasoEnAcceso ==
    ASSUME IInv, NEW c \in Cpus, cpu[c].fase \in Confia, ~cpu[c].acceso.fallo,
           DOMAIN cpu' = Cpus, \A d \in Cpus \ {c} : cpu'[d] = cpu[d],
           FormaCpu(c)',
           cpu'[c].fase \in {"leyendo", "escribiendo", "colgada"},
           cpu'[c].pid = cpu[c].pid, cpu'[c].ctx = cpu[c].ctx, ~cpu'[c].acceso.fallo,
           UNCHANGED <<contextos, estado, desalojo>>
    PROVE  IInv'
<1>1. Forma /\ SegunFase(c) /\ cpu[c].pid \in Pids /\ cpu[c].pid # Nadie
  BY ConProceso DEF IInv, Confia
<1>2. EnUso(c)
  BY DEF EnUso
<1>3. SegunFase(c)'
  BY <1>1, <1>2 DEF SegunFase, EnUso, ConContexto, Confia, Tabla
<1> QED
  BY <1>1, <1>3, PasoDeUna DEF Forma

\* The same after a refusal: the process is in EXIT and the copy counts no more.
LEMMA PasoTrasFallo ==
    ASSUME IInv, NEW c \in Cpus, cpu[c].fase \in Confia,
           DOMAIN cpu' = Cpus, \A d \in Cpus \ {c} : cpu'[d] = cpu[d],
           FormaCpu(c)',
           cpu'[c].fase \in {"leyendo", "escribiendo", "colgada"},
           cpu'[c].pid = cpu[c].pid, cpu'[c].ctx = cpu[c].ctx, cpu'[c].acceso.fallo,
           Actual(c).op = "COPY_MEM",
           DOMAIN estado' = Pids,
           \A p \in Pids \ {cpu[c].pid} : estado'[p] = estado[p],
           estado'[cpu[c].pid] = "EXIT",
           UNCHANGED <<contextos, desalojo>>
    PROVE  IInv'
<1>1. Forma /\ SegunFase(c) /\ cpu[c].pid \in Pids /\ cpu[c].pid # Nadie
  BY ConProceso DEF IInv, Confia
<1>2. Actual(c)' = Actual(c)
  BY DEF Actual, Pid, Reg
<1>3. SegunFase(c)'
  BY <1>1, <1>2 DEF SegunFase, EnUso, ConContexto, Confia, EnAcceso
<1> QED
  BY <1>1, <1>3, PasoDeUna DEF Forma

LEMMA PasoAcceder ==
    ASSUME IInv, NEW c \in Cpus, cpu[c].fase = "fetch",
           NEW fase \in {"leyendo", "escribiendo"}, NEW dir, NEW falta, NEW datos,
           Acceder(c, fase, dir, falta, datos)
    PROVE  IInv'
<1>1. Forma /\ SegunFase(c)
  BY DEF IInv
<1>2. ~cpu[c].acceso.fallo /\ EnUso(c) /\ EsContexto(cpu[c].ctx)
  BY <1>1 DEF SegunFase, EnAcceso, EnUso, Confia, ConContexto, Forma, FormaCpu
<1>3. UNCHANGED <<contextos, estado, desalojo>>
  BY DEF Acceder
<1>4. CASE dir = ErrorSegFault
  <2>1. cpu' = Cumplida(c, Avanzar(Reg(c)))
    BY <1>4 DEF Acceder
  <2>2. estado[cpu[c].pid] # "READY"
    BY <1>1, <1>2 DEF SegunFase
  <2> QED
    BY <1>1, <1>2, <1>3, <2>1, <2>2, PasoCumplida DEF Forma, ConContexto, Confia
<1>5. CASE dir # ErrorSegFault
  <2>1. cpu' = [cpu EXCEPT ![c].fase = fase,
                           ![c].acceso = [dir |-> dir, falta |-> falta, datos |-> datos,
                                          fallo |-> FALSE]]
    BY <1>5 DEF Acceder
  <2>2. /\ DOMAIN cpu' = Cpus
        /\ \A d \in Cpus \ {c} : cpu'[d] = cpu[d]
        /\ FormaCpu(c)'
        /\ cpu'[c].fase = fase
        /\ cpu'[c].pid = cpu[c].pid
        /\ cpu'[c].ctx = cpu[c].ctx
        /\ ~cpu'[c].acceso.fallo
    BY <1>1, <2>1 DEF Forma, FormaCpu
  <2> QED
    BY <1>2, <1>3, <2>2, PasoEnAcceso DEF Confia
<1> QED
  BY <1>4, <1>5

LEMMA PasoEjecutarMovIn ==
    ASSUME IInv, NEW c \in Cpus, EjecutarMovIn(c)
    PROVE  IInv'
BY PasoSegFault, PasoAcceder DEF EjecutarMovIn, AntesDe, En

LEMMA PasoEjecutarMovOut ==
    ASSUME IInv, NEW c \in Cpus, EjecutarMovOut(c)
    PROVE  IInv'
BY PasoSegFault, PasoAcceder DEF EjecutarMovOut, AntesDe, En

LEMMA PasoEjecutarCopyMem ==
    ASSUME IInv, NEW c \in Cpus, EjecutarCopyMem(c)
    PROVE  IInv'
<1> DEFINE n == TamCopia(Reg(c), Actual(c))
           origen == Mmu(c, Reg(c)["SI"], n)
           destino == Mmu(c, Reg(c)["DI"], n)
           fallo == Nadie \in {origen, destino}
<1>1. cpu[c].fase = "fetch" /\ Actual(c).op = "COPY_MEM" /\ UNCHANGED <<contextos, desalojo>>
  BY DEF EjecutarCopyMem, AntesDe, En
<1>2. Forma /\ SegunFase(c) /\ cpu[c].pid \in Pids /\ ~cpu[c].acceso.fallo
  BY <1>1, ConProceso DEF IInv, SegunFase, EnAcceso, Forma, FormaCpu
<1>3. estado' = IF fallo THEN [estado EXCEPT ![cpu[c].pid] = "EXIT"] ELSE estado
  BY DEF EjecutarCopyMem, Pid
<1>4. PICK dir, avisos :
          cpu' = [cpu EXCEPT ![c].fase = "leyendo",
                             ![c].acceso = [dir |-> dir, falta |-> n, datos |-> <<>>,
                                            fallo |-> fallo],
                             ![c].avisos = avisos]
  BY DEF EjecutarCopyMem
<1> fallo \in BOOLEAN
  OBVIOUS
<1> HIDE DEF n, origen, destino, fallo
<1>5. /\ DOMAIN cpu' = Cpus
      /\ \A d \in Cpus \ {c} : cpu'[d] = cpu[d]
      /\ FormaCpu(c)'
      /\ cpu'[c].fase = "leyendo"
      /\ cpu'[c].pid = cpu[c].pid
      /\ cpu'[c].ctx = cpu[c].ctx
      /\ cpu'[c].acceso.fallo = fallo
  BY <1>2, <1>4 DEF Forma, FormaCpu
<1>6. CASE fallo
  <2>1. /\ DOMAIN estado' = Pids /\ estado'[cpu[c].pid] = "EXIT"
        /\ \A p \in Pids \ {cpu[c].pid} : estado'[p] = estado[p]
    BY <1>2, <1>3, <1>6 DEF Forma
  <2> QED
    BY <1>1, <1>5, <1>6, <2>1, PasoTrasFallo DEF Confia
<1>7. CASE ~fallo
  BY <1>1, <1>2, <1>3, <1>5, <1>7, PasoEnAcceso DEF Confia
<1> QED
  BY <1>6, <1>7

LEMMA PasoFinAcceso ==
    ASSUME IInv, NEW c \in Cpus, cpu[c].fase \in {"leyendo", "escribiendo"},
           cpu' = FinAcceso(c), UNCHANGED <<contextos, estado, desalojo>>
    PROVE  IInv'
<1>1. Forma /\ SegunFase(c) /\ cpu[c].pid \in Pids /\ cpu[c].pid # Nadie
  BY ConProceso DEF IInv
<1>2. estado[cpu[c].pid] # "READY" /\ EsContexto(cpu[c].ctx)
  BY <1>1 DEF SegunFase, ConContexto, Confia
<1>3. CASE cpu[c].acceso.fallo /\ cpu[c].avisos = 0
  <2>1. cpu' = Libre(c)
    BY <1>3 DEF FinAcceso
  <2>2. /\ DOMAIN cpu' = Cpus
        /\ \A d \in Cpus \ {c} : cpu'[d] = cpu[d]
        /\ FormaCpu(c)'
        /\ cpu'[c].fase = "libre"
        /\ cpu'[c].pid = Nadie
        /\ ~cpu'[c].acceso.fallo
    BY <1>1, <2>1, EfectoDeLibre
  <2>3. SegunFase(c)'
    BY <2>2 DEF SegunFase, EnUso, ConContexto, Confia
  <2>4. estado'[cpu[c].pid] = "EXIT"
    BY <1>1, <1>3 DEF SegunFase
  <2> QED
    BY <1>1, <2>2, <2>3, <2>4, PasoDeUna DEF Forma
<1>4. CASE cpu[c].acceso.fallo /\ cpu[c].avisos # 0
  <2>1. cpu' = [cpu EXCEPT ![c].fase = "finalizando", ![c].ctx = Nadie,
                           ![c].acceso = SinAcceso]
    BY <1>4 DEF FinAcceso
  <2>2. /\ DOMAIN cpu' = Cpus
        /\ \A d \in Cpus \ {c} : cpu'[d] = cpu[d]
        /\ FormaCpu(c)'
        /\ cpu'[c].fase = "finalizando"
        /\ cpu'[c].pid = cpu[c].pid
        /\ ~cpu'[c].acceso.fallo
    BY <1>1, <2>1, EfectoDeFin
  <2>3. SegunFase(c)'
    BY <1>1, <1>2, <2>2 DEF SegunFase, EnUso, ConContexto, Confia
  <2> QED
    BY <1>1, <2>2, <2>3, PasoDeUna DEF Forma
<1>5. CASE ~cpu[c].acceso.fallo
  <2>1. cpu' = Cumplida(c, Avanzar(Reg(c)))
    BY <1>5 DEF FinAcceso
  <2>2. EnUso(c) /\ cpu[c].fase \in ConContexto
    BY <1>5 DEF EnUso, ConContexto, Confia
  <2> QED
    BY <1>1, <1>2, <2>1, <2>2, PasoCumplida DEF Forma
<1> QED
  BY <1>1, <1>3, <1>4, <1>5 DEF Forma, FormaCpu

\* A piece of an access after which there is more to do.
LEMMA PasoSigue ==
    ASSUME IInv, NEW c \in Cpus, cpu[c].fase \in {"leyendo", "escribiendo"},
           DOMAIN cpu' = Cpus, \A d \in Cpus \ {c} : cpu'[d] = cpu[d],
           FormaCpu(c)',
           cpu'[c].fase \in {"leyendo", "escribiendo", "colgada"},
           cpu'[c].pid = cpu[c].pid, cpu'[c].ctx = cpu[c].ctx,
           cpu'[c].acceso.fallo = cpu[c].acceso.fallo,
           UNCHANGED <<contextos, estado, desalojo>>
    PROVE  IInv'
<1>1. Forma /\ SegunFase(c)
  BY DEF IInv
<1>2. CASE ~cpu[c].acceso.fallo
  BY <1>2, PasoEnAcceso DEF Confia
<1>3. CASE cpu[c].acceso.fallo
  BY <1>1, <1>3, PasoTrasFallo DEF Confia, SegunFase, Forma
<1> QED
  BY <1>2, <1>3

LEMMA PasoLeerPieza ==
    ASSUME IInv, NEW c \in Cpus, LeerPieza(c)
    PROVE  IInv'
<1> DEFINE n == Pieza(cpu[c].acceso)
           leido == cpu[c].acceso.datos
                      \o [k \in 1 .. n |-> memoria[cpu[c].acceso.dir + k - 1]]
<1>1. cpu[c].fase = "leyendo" /\ UNCHANGED <<contextos, estado, desalojo>>
  BY DEF LeerPieza, En
<1>2. cpu' = IF n = cpu[c].acceso.falta THEN TrasLeer(c, leido)
             ELSE [cpu EXCEPT ![c].acceso.dir = @ + n, ![c].acceso.falta = @ - n,
                              ![c].acceso.datos = leido]
  BY DEF LeerPieza
<1> HIDE DEF n, leido
<1>3. Forma /\ SegunFase(c) /\ EsContexto(cpu[c].ctx) /\ estado[cpu[c].pid] # "READY"
  BY <1>1, ConProceso DEF IInv, SegunFase, ConContexto, Confia
<1>4. CASE n # cpu[c].acceso.falta
  <2>1. /\ DOMAIN cpu' = Cpus
        /\ \A d \in Cpus \ {c} : cpu'[d] = cpu[d]
        /\ FormaCpu(c)'
        /\ cpu'[c].fase = "leyendo"
        /\ cpu'[c].pid = cpu[c].pid
        /\ cpu'[c].ctx = cpu[c].ctx
        /\ cpu'[c].acceso.fallo = cpu[c].acceso.fallo
    BY <1>1, <1>2, <1>3, <1>4 DEF Forma, FormaCpu
  <2> QED
    BY <1>1, <2>1, PasoSigue
<1>5. CASE n = cpu[c].acceso.falta /\ Actual(c).op = "MOV_IN"
  <2>1. PICK reg : cpu' = Cumplida(c, reg)
    BY <1>2, <1>5 DEF TrasLeer
  <2>2. EnUso(c) /\ cpu[c].fase \in ConContexto
    BY <1>1, <1>3, <1>5 DEF EnUso, ConContexto, Confia, SegunFase, Forma, FormaCpu
  <2> QED
    BY <1>1, <1>3, <2>1, <2>2, PasoCumplida DEF Forma
<1>6. CASE n = cpu[c].acceso.falta /\ Actual(c).op # "MOV_IN"
  <2>1. PICK dir : cpu' = [cpu EXCEPT ![c].fase = "escribiendo", ![c].acceso.dir = dir,
                                      ![c].acceso.falta = Len(leido),
                                      ![c].acceso.datos = leido]
    BY <1>2, <1>6 DEF TrasLeer
  <2>2. /\ DOMAIN cpu' = Cpus
        /\ \A d \in Cpus \ {c} : cpu'[d] = cpu[d]
        /\ FormaCpu(c)'
        /\ cpu'[c].fase = "escribiendo"
        /\ cpu'[c].pid = cpu[c].pid
        /\ cpu'[c].ctx = cpu[c].ctx
        /\ cpu'[c].acceso.fallo = cpu[c].acceso.fallo
    BY <1>3, <2>1 DEF Forma, FormaCpu
  <2> QED
    BY <1>1, <2>2, PasoSigue
<1> QED
  BY <1>4, <1>5, <1>6

LEMMA PasoEscribirPieza ==
    ASSUME IInv, NEW c \in Cpus, EscribirPieza(c)
    PROVE  IInv'
<1> DEFINE n == Pieza(cpu[c].acceso)
<1>1. cpu[c].fase = "escribiendo" /\ UNCHANGED <<contextos, estado, desalojo>>
  BY DEF EscribirPieza, En
<1>2. cpu' = IF n = cpu[c].acceso.falta THEN FinAcceso(c)
             ELSE [cpu EXCEPT ![c].acceso.dir = @ + n, ![c].acceso.falta = @ - n,
                              ![c].acceso.datos = SubSeq(@, n + 1, Len(@))]
  BY DEF EscribirPieza
<1> HIDE DEF n
<1>3. CASE n = cpu[c].acceso.falta
  BY <1>1, <1>2, <1>3, PasoFinAcceso
<1>4. CASE n # cpu[c].acceso.falta
  <2> DEFINE resto == SubSeq(cpu[c].acceso.datos, n + 1, Len(cpu[c].acceso.datos))
  <2>1. cpu' = [cpu EXCEPT ![c].acceso.dir = @ + n, ![c].acceso.falta = @ - n,
                           ![c].acceso.datos = resto]
    BY <1>2, <1>4 DEF IInv, Forma, FormaCpu
  <2> HIDE DEF resto
  <2>2. /\ DOMAIN cpu' = Cpus
        /\ \A d \in Cpus \ {c} : cpu'[d] = cpu[d]
        /\ FormaCpu(c)'
        /\ cpu'[c].fase = "escribiendo"
        /\ cpu'[c].pid = cpu[c].pid
        /\ cpu'[c].ctx = cpu[c].ctx
        /\ cpu'[c].acceso.fallo = cpu[c].acceso.fallo
    BY <1>1, <2>1 DEF IInv, Forma, FormaCpu
  <2> QED
    BY <1>1, <2>2, PasoSigue
<1> QED
  BY <1>3, <1>4

LEMMA PasoAccesoSinStick ==
    ASSUME IInv, NEW c \in Cpus, AccesoSinStick(c)
    PROVE  IInv'
<1>1. /\ cpu[c].fase \in {"leyendo", "escribiendo"}
      /\ UNCHANGED <<contextos, estado, desalojo>>
  BY DEF AccesoSinStick
<1>2. CASE cpu' = FinAcceso(c)
  BY <1>1, <1>2, PasoFinAcceso
<1>3. CASE cpu' = [cpu EXCEPT ![c].fase = "colgada"]
  <2>1. /\ DOMAIN cpu' = Cpus
        /\ \A d \in Cpus \ {c} : cpu'[d] = cpu[d]
        /\ FormaCpu(c)'
        /\ cpu'[c].fase = "colgada"
        /\ cpu'[c].pid = cpu[c].pid
        /\ cpu'[c].ctx = cpu[c].ctx
        /\ cpu'[c].acceso.fallo = cpu[c].acceso.fallo
    BY <1>3 DEF IInv, Forma, FormaCpu
  <2> QED
    BY <1>1, <2>1, PasoSigue
<1> QED
  BY <1>2, <1>3 DEF AccesoSinStick

-----------------------------------------------------------------------------
(* System calls *)

\* A segment is granted to the process of c, over the tables as they were or, when
\* no other process runs, over others.
LEMMA PasoConcedida ==
    ASSUME IInv, NEW c \in Cpus, cpu[c].fase \in {"fetch", "espera"},
           NEW tablas, NEW b, Concedida(c, tablas, b),
           DOMAIN tablas = Pids,
           \A p \in Pids : tablas[p] = Nadie \/ EsContexto(tablas[p]),
           EsContexto(tablas[Pid(c)]),
           \A p \in Pids \ {Pid(c)} : tablas[p] = contextos[p] \/ estado[p] # "RUNNING",
           Marcar(Pid(c)), UNCHANGED estado
    PROVE  IInv'
<1> USE DEF Pid
<1>1. Forma /\ SegunFase(c) /\ cpu[c].pid \in Pids /\ cpu[c].pid # Nadie
  BY ConProceso DEF IInv
<1>2. EsContexto(cpu[c].ctx) /\ ~cpu[c].acceso.fallo /\ estado[cpu[c].pid] # "READY"
  BY <1>1 DEF SegunFase, ConContexto, Confia, EnAcceso, Forma, FormaCpu
<1> DEFINE s == [id |-> Actual(c).id, base |-> b, tam |-> Actual(c).tam]
<1>3. /\ contextos' = [tablas EXCEPT ![cpu[c].pid].tabla = Append(@, s)]
      /\ cpu' = [cpu EXCEPT ![c].fase = "interrupt", ![c].ctx.reg = Avanzar(@),
                            ![c].ctx.tabla = Append(@, s)]
  BY DEF Concedida
<1> HIDE DEF s
<1>4. /\ DOMAIN cpu' = Cpus
      /\ \A d \in Cpus \ {c} : cpu'[d] = cpu[d]
      /\ FormaCpu(c)'
      /\ cpu'[c].fase = "interrupt"
      /\ cpu'[c].pid = cpu[c].pid
      /\ cpu'[c].acceso = cpu[c].acceso
      /\ EsContexto(cpu'[c].ctx)
  BY <1>1, <1>2, <1>3 DEF Forma, FormaCpu, EsContexto
<1>5. /\ DOMAIN contextos' = Pids
      /\ \A p \in Pids \ {cpu[c].pid} : contextos'[p] = tablas[p]
      /\ EsContexto(contextos'[cpu[c].pid])
  BY <1>1, <1>3 DEF EsContexto
<1>6. \A p \in Pids : contextos'[p] = Nadie \/ EsContexto(contextos'[p])
  BY <1>5
<1>7. desalojo' = desalojo \cup {cpu[c].pid}
  BY DEF Marcar
<1>8. SegunFase(c)'
  BY <1>1, <1>2, <1>4, <1>7 DEF SegunFase, EnUso, Confia
<1>9. \A p \in Pids \ {cpu[c].pid, cpu'[c].pid} :
          /\ estado'[p] = estado[p]
          /\ contextos'[p] = contextos[p] \/ estado[p] # "RUNNING"
          /\ p \in desalojo => p \in desalojo'
  BY <1>5, <1>7
<1>10. DOMAIN estado' = Pids
  BY <1>1 DEF Forma
<1> QED
  BY <1>4, <1>5, <1>6, <1>8, <1>9, <1>10, PasoDeUna

LEMMA PasoEjecutarMemAlloc ==
    ASSUME IInv, NEW c \in Cpus, EjecutarMemAlloc(c)
    PROVE  IInv'
<1> DEFINE tam == Actual(c).tam
<1>1. cpu[c].fase = "fetch" /\ UNCHANGED estado
  BY DEF EjecutarMemAlloc, AntesDe, En
<1>2. Forma /\ SegunFase(c) /\ cpu[c].pid \in Pids /\ cpu[c].pid # Nadie
  BY <1>1, ConProceso DEF IInv
<1>3. /\ EnUso(c) /\ cpu[c].fase \in ConContexto /\ estado[cpu[c].pid] = "RUNNING"
      /\ EsContexto(contextos[cpu[c].pid])
  BY <1>1, <1>2 DEF EnUso, SegunFase, ConContexto, Confia, EnAcceso, Forma, FormaCpu
<1>4. CASE \E b \in Huecos(tam) : Concedida(c, contextos, b) /\ Marcar(Pid(c))
  BY <1>1, <1>2, <1>3, <1>4, PasoConcedida DEF Forma, Pid
<1>5. CASE cpu' = [cpu EXCEPT ![c].fase = "espera"] /\ UNCHANGED <<contextos, desalojo>>
  <2>1. /\ DOMAIN cpu' = Cpus
        /\ \A d \in Cpus \ {c} : cpu'[d] = cpu[d]
        /\ FormaCpu(c)'
        /\ cpu'[c].fase = "espera"
        /\ cpu'[c].pid = cpu[c].pid
        /\ cpu'[c].acceso = cpu[c].acceso
        /\ cpu'[c].ctx = cpu[c].ctx
    BY <1>2, <1>5, EfectoDeFase
  <2>2. SegunFase(c)'
    BY <1>1, <1>2, <1>3, <1>5, <2>1 DEF SegunFase, EnUso, ConContexto, Confia, EnAcceso
  <2> QED
    BY <1>1, <1>2, <1>5, <2>1, <2>2, PasoDeUna DEF Forma
<1>6. CASE cpu' = Cumplida(c, Reg(c)) /\ Marcar(Pid(c)) /\ UNCHANGED contextos
  <2>1. desalojo' = desalojo \cup {cpu[c].pid}
    BY <1>6 DEF Marcar, Pid
  <2> QED
    BY <1>1, <1>2, <1>3, <1>6, <2>1, PasoCumplida DEF Forma
<1> QED
  BY <1>4, <1>5, <1>6 DEF EjecutarMemAlloc

LEMMA PasoCompactar ==
    ASSUME IInv, NEW c \in Cpus, Compactar(c)
    PROVE  IInv'
<1>1. /\ cpu[c].fase = "espera" /\ UNCHANGED estado
      /\ \A p \in Pids \ {Pid(c)} : estado[p] # "RUNNING"
      /\ Concedida(c, Movidos, Cardinality(Ocupadas)) /\ Marcar(Pid(c))
  BY DEF Compactar, En, NadieMasEjecuta
<1>2. Forma /\ SegunFase(c) /\ cpu[c].pid \in Pids
  BY <1>1, ConProceso DEF IInv
<1>3. /\ DOMAIN Movidos = Pids
      /\ \A p \in Pids : Movidos[p] = Nadie \/ EsContexto(Movidos[p])
  BY <1>2 DEF Forma, EsContexto, Movidos
<1>4. EsContexto(contextos[cpu[c].pid])
  BY <1>1, <1>2 DEF SegunFase
<1>5. CASE contextos[cpu[c].pid] # Nadie
  <2>1. EsContexto(Movidos[cpu[c].pid])
    BY <1>2, <1>4, <1>5 DEF EsContexto, Movidos
  <2> QED
    BY <1>1, <1>3, <2>1, PasoConcedida DEF Pid
<1>6. CASE contextos[cpu[c].pid] = Nadie
  <2>1. Movidos[cpu[c].pid] = contextos[cpu[c].pid]
    BY <1>2, <1>6 DEF Movidos
  <2> QED
    BY <1>1, <1>3, <1>4, <2>1, PasoConcedida DEF Pid
<1> QED
  BY <1>5, <1>6

LEMMA PasoEjecutarMemFree ==
    ASSUME IInv, NEW c \in Cpus, EjecutarMemFree(c)
    PROVE  IInv'
<1>1. cpu[c].fase = "fetch" /\ UNCHANGED estado
  BY DEF EjecutarMemFree, AntesDe, En
<1>2. Forma /\ SegunFase(c) /\ cpu[c].pid \in Pids /\ cpu[c].pid # Nadie
  BY <1>1, ConProceso DEF IInv
<1>3. /\ EsContexto(cpu[c].ctx) /\ ~cpu[c].acceso.fallo /\ estado[cpu[c].pid] # "READY"
      /\ EsContexto(contextos[cpu[c].pid])
  BY <1>1, <1>2 DEF EnUso, SegunFase, ConContexto, Confia, EnAcceso, Forma, FormaCpu
<1>4. PICK t, u : /\ contextos' = [contextos EXCEPT ![cpu[c].pid].tabla = t]
                  /\ cpu' = [cpu EXCEPT ![c].fase = "interrupt", ![c].ctx.reg = Avanzar(@),
                                        ![c].ctx.tabla = u]
  BY DEF EjecutarMemFree, Pid
<1>5. /\ DOMAIN cpu' = Cpus
      /\ \A d \in Cpus \ {c} : cpu'[d] = cpu[d]
      /\ FormaCpu(c)'
      /\ cpu'[c].fase = "interrupt"
      /\ cpu'[c].pid = cpu[c].pid
      /\ cpu'[c].acceso = cpu[c].acceso
      /\ EsContexto(cpu'[c].ctx)
  BY <1>2, <1>3, <1>4 DEF Forma, FormaCpu, EsContexto
<1>6. /\ DOMAIN contextos' = Pids
      /\ \A p \in Pids \ {cpu[c].pid} : contextos'[p] = contextos[p]
      /\ \A p \in Pids : contextos'[p] = Nadie \/ EsContexto(contextos'[p])
  BY <1>2, <1>3, <1>4 DEF Forma, EsContexto
<1>7. desalojo' = desalojo \cup {cpu[c].pid}
  BY DEF EjecutarMemFree, Marcar, Pid
<1>8. SegunFase(c)'
  BY <1>1, <1>2, <1>3, <1>5, <1>7 DEF SegunFase, EnUso, Confia
<1> QED
  BY <1>1, <1>2, <1>5, <1>6, <1>7, <1>8, PasoDeUna DEF Forma

LEMMA PasoEjecutarSyscall ==
    ASSUME IInv, NEW c \in Cpus, EjecutarSyscall(c)
    PROVE  IInv'
<1>1. /\ cpu[c].fase = "fetch" /\ UNCHANGED <<estado, contextos>>
      /\ cpu' = Cumplida(c, Avanzar(Reg(c)))
      /\ desalojo \subseteq desalojo'
  BY DEF EjecutarSyscall, AntesDe, En, Marcar
<1>2. Forma /\ SegunFase(c) /\ cpu[c].pid \in Pids /\ cpu[c].pid # Nadie
  BY <1>1, ConProceso DEF IInv
<1>3. EnUso(c) /\ cpu[c].fase \in ConContexto /\ estado[cpu[c].pid] # "READY"
  BY <1>1, <1>2 DEF EnUso, SegunFase, ConContexto, Confia, EnAcceso, Forma, FormaCpu
<1> QED
  BY <1>1, <1>2, <1>3, PasoCumplida DEF Forma

LEMMA PasoEjecutarEspera ==
    ASSUME IInv, NEW c \in Cpus, EjecutarEspera(c)
    PROVE  IInv'
<1>1. /\ cpu[c].fase = "fetch" /\ UNCHANGED contextos
      /\ estado' = [estado EXCEPT ![cpu[c].pid] = "BLOCK"]
      /\ cpu' = Cumplida(c, Avanzar(Reg(c)))
      /\ desalojo' = desalojo \cup {cpu[c].pid}
  BY DEF EjecutarEspera, AntesDe, En, Marcar, Pid
<1>2. Forma /\ SegunFase(c) /\ cpu[c].pid \in Pids /\ cpu[c].pid # Nadie
  BY <1>1, ConProceso DEF IInv
<1>3. cpu[c].fase \in ConContexto
  BY <1>1 DEF ConContexto, Confia
<1>4. /\ DOMAIN estado' = Pids /\ estado'[cpu[c].pid] = "BLOCK"
      /\ \A p \in Pids \ {cpu[c].pid} : estado'[p] = estado[p]
  BY <1>1, <1>2 DEF Forma
<1> QED
  BY <1>1, <1>3, <1>4, PasoCumplida

LEMMA PasoEjecutarExit ==
    ASSUME IInv, NEW c \in Cpus, EjecutarExit(c)
    PROVE  IInv'
<1>1. /\ cpu[c].fase = "fetch" /\ UNCHANGED <<estado, contextos, desalojo>>
      /\ cpu' = [cpu EXCEPT ![c].fase = "finalizando", ![c].ctx = Nadie, ![c].avisos = 1]
  BY DEF EjecutarExit, AntesDe, En
<1>2. Forma /\ SegunFase(c) /\ cpu[c].pid \in Pids /\ cpu[c].pid # Nadie
  BY <1>1, ConProceso DEF IInv
<1>3. ~cpu[c].acceso.fallo /\ estado[cpu[c].pid] # "READY"
  BY <1>1, <1>2 DEF SegunFase, EnAcceso, Forma, FormaCpu
<1>4. /\ DOMAIN cpu' = Cpus
      /\ \A d \in Cpus \ {c} : cpu'[d] = cpu[d]
      /\ FormaCpu(c)'
      /\ cpu'[c].fase = "finalizando"
      /\ cpu'[c].pid = cpu[c].pid
      /\ cpu'[c].acceso = cpu[c].acceso
  BY <1>1, <1>2 DEF Forma, FormaCpu
<1>5. SegunFase(c)'
  BY <1>1, <1>2, <1>3, <1>4 DEF SegunFase, EnUso, ConContexto, Confia
<1> QED
  BY <1>1, <1>2, <1>4, <1>5, PasoDeUna DEF Forma

LEMMA PasoFinalizar ==
    ASSUME IInv, NEW c \in Cpus, Finalizar(c)
    PROVE  IInv'
<1>1. /\ cpu[c].fase = "finalizando" \/ cpu[c].acceso.fallo
      /\ contextos' = [contextos EXCEPT ![cpu[c].pid] = Nadie]
      /\ estado' = [estado EXCEPT ![cpu[c].pid] = "EXIT"]
      /\ \/ cpu[c].fase = "finalizando" /\ cpu' = Libre(c)
         \/ cpu' = [cpu EXCEPT ![c].avisos = @ - 1]
      /\ UNCHANGED desalojo
  BY DEF Finalizar, En, Pid
<1>2. Forma /\ SegunFase(c)
  BY DEF IInv
<1>3. cpu[c].fase \in EnAcceso \cup {"finalizando"}
  BY <1>1, <1>2 DEF SegunFase
<1>4. cpu[c].pid \in Pids /\ cpu[c].pid # Nadie
  BY <1>3, ConProceso DEF EnAcceso
<1>5. /\ DOMAIN estado' = Pids /\ estado'[cpu[c].pid] = "EXIT"
      /\ \A p \in Pids \ {cpu[c].pid} : estado'[p] = estado[p]
      /\ DOMAIN contextos' = Pids
      /\ \A p \in Pids \ {cpu[c].pid} : contextos'[p] = contextos[p]
      /\ \A p \in Pids : contextos'[p] = Nadie \/ EsContexto(contextos'[p])
  BY <1>1, <1>2, <1>4 DEF Forma
<1>6. CASE cpu' = Libre(c)
  <2>1. /\ DOMAIN cpu' = Cpus
        /\ \A d \in Cpus \ {c} : cpu'[d] = cpu[d]
        /\ FormaCpu(c)'
        /\ cpu'[c].fase = "libre"
        /\ cpu'[c].pid = Nadie
        /\ ~cpu'[c].acceso.fallo
    BY <1>1, <1>2, <1>6, EfectoDeLibre
  <2>2. SegunFase(c)'
    BY <2>1 DEF SegunFase, EnUso, ConContexto, Confia
  <2> QED
    BY <1>1, <1>4, <1>5, <2>1, <2>2, PasoDeUna
<1>7. CASE cpu' = [cpu EXCEPT ![c].avisos = @ - 1]
  <2>1. /\ DOMAIN cpu' = Cpus
        /\ \A d \in Cpus \ {c} : cpu'[d] = cpu[d]
        /\ FormaCpu(c)'
        /\ cpu'[c].fase = cpu[c].fase /\ cpu'[c].pid = cpu[c].pid
        /\ cpu'[c].ctx = cpu[c].ctx /\ cpu'[c].acceso = cpu[c].acceso
    BY <1>2, <1>7 DEF Forma, FormaCpu
  <2>2. Actual(c)' = Actual(c)
    BY <2>1 DEF Actual, Pid, Reg
  <2>3. SegunFase(c)'
    BY <1>1, <1>2, <1>3, <1>5, <2>1, <2>2 DEF SegunFase, EnUso, EnAcceso, ConContexto, Confia
  <2> QED
    BY <1>1, <1>4, <1>5, <2>1, <2>3, PasoDeUna
<1> QED
  BY <1>1, <1>6, <1>7

-----------------------------------------------------------------------------
(* interrupt(), desalojo, and the steps of the other programs *)

LEMMA PasoInterrupt ==
    ASSUME IInv, NEW c \in Cpus, Interrupt(c)
    PROVE  IInv'
<1>1. cpu[c].fase = "interrupt" /\ UNCHANGED <<contextos, estado>>
  BY DEF Interrupt, En
<1>2. Forma /\ SegunFase(c) /\ cpu[c].pid \in Pids /\ cpu[c].pid # Nadie
  BY <1>1, ConProceso DEF IInv
<1>3. ~cpu[c].acceso.fallo /\ estado[cpu[c].pid] # "READY" /\ EsContexto(cpu[c].ctx)
  BY <1>1, <1>2 DEF SegunFase, EnAcceso, ConContexto, Forma, FormaCpu
<1>4. \A p \in Pids \ {cpu[c].pid} : p \in desalojo => p \in desalojo'
  BY DEF Interrupt, Pid
<1>5. CASE cpu' = [cpu EXCEPT ![c].fase = "guardar"]
  <2>1. /\ DOMAIN cpu' = Cpus
        /\ \A d \in Cpus \ {c} : cpu'[d] = cpu[d]
        /\ FormaCpu(c)'
        /\ cpu'[c].fase = "guardar"
        /\ cpu'[c].pid = cpu[c].pid
        /\ cpu'[c].acceso = cpu[c].acceso
        /\ cpu'[c].ctx = cpu[c].ctx
    BY <1>2, <1>5, EfectoDeFase
  <2>2. SegunFase(c)'
    BY <1>1, <1>2, <1>3, <2>1 DEF SegunFase, EnUso, Confia
  <2> QED
    BY <1>1, <1>2, <1>4, <2>1, <2>2, PasoDeUna DEF Forma
<1>6. CASE /\ cpu[c].pid \notin desalojo
           /\ \E x : cpu' = [cpu EXCEPT ![c].fase = "fetch", ![c].sticks = x]
  <2>1. PICK x : cpu' = [cpu EXCEPT ![c].fase = "fetch", ![c].sticks = x]
    BY <1>6
  <2>2. /\ DOMAIN cpu' = Cpus
        /\ \A d \in Cpus \ {c} : cpu'[d] = cpu[d]
        /\ FormaCpu(c)'
        /\ cpu'[c].fase = "fetch"
        /\ cpu'[c].pid = cpu[c].pid
        /\ cpu'[c].acceso = cpu[c].acceso
        /\ cpu'[c].ctx = cpu[c].ctx
    BY <1>2, <2>1 DEF Forma, FormaCpu
  <2>3. EnUso(c)
    BY <1>1, <1>6 DEF EnUso
  <2>4. SegunFase(c)'
    BY <1>1, <1>2, <1>3, <2>2, <2>3 DEF SegunFase, Tabla
  <2> QED
    BY <1>1, <1>2, <1>4, <2>2, <2>4, PasoDeUna DEF Forma
<1>7. CASE cpu[c].pid \notin desalojo /\ cpu' = [cpu EXCEPT ![c].fase = "fetch"]
  <2>1. /\ DOMAIN cpu' = Cpus
        /\ \A d \in Cpus \ {c} : cpu'[d] = cpu[d]
        /\ FormaCpu(c)'
        /\ cpu'[c].fase = "fetch"
        /\ cpu'[c].pid = cpu[c].pid
        /\ cpu'[c].acceso = cpu[c].acceso
        /\ cpu'[c].ctx = cpu[c].ctx
    BY <1>2, <1>7, EfectoDeFase
  <2>2. EnUso(c)
    BY <1>1, <1>7 DEF EnUso
  <2>3. SegunFase(c)'
    BY <1>1, <1>2, <1>3, <2>1, <2>2 DEF SegunFase, Tabla
  <2> QED
    BY <1>1, <1>2, <1>4, <2>1, <2>3, PasoDeUna DEF Forma
<1> QED
  BY <1>5, <1>6, <1>7 DEF Interrupt, Pid

LEMMA PasoGuardarContexto ==
    ASSUME IInv, NEW c \in Cpus, GuardarContexto(c)
    PROVE  IInv'
<1>1. /\ cpu[c].fase = "guardar" /\ UNCHANGED <<estado, desalojo>>
      /\ cpu' = [cpu EXCEPT ![c].fase = "avisar"]
  BY DEF GuardarContexto, En
<1>2. Forma /\ SegunFase(c) /\ cpu[c].pid \in Pids /\ cpu[c].pid # Nadie
  BY <1>1, ConProceso DEF IInv
<1>3. /\ DOMAIN contextos' = Pids
      /\ \A p \in Pids \ {cpu[c].pid} : contextos'[p] = contextos[p]
      /\ \A p \in Pids : contextos'[p] = Nadie \/ EsContexto(contextos'[p])
  BY <1>2 DEF GuardarContexto, Forma, EsContexto, Pid
<1>4. /\ DOMAIN cpu' = Cpus
      /\ \A d \in Cpus \ {c} : cpu'[d] = cpu[d]
      /\ FormaCpu(c)'
      /\ cpu'[c].fase = "avisar"
      /\ cpu'[c].pid = cpu[c].pid
      /\ cpu'[c].acceso = cpu[c].acceso
      /\ cpu'[c].ctx = cpu[c].ctx
  BY <1>1, <1>2, EfectoDeFase
<1>5. SegunFase(c)'
  BY <1>1, <1>2, <1>4
     DEF SegunFase, EnUso, EnAcceso, ConContexto, Confia, Forma, FormaCpu
<1> QED
  BY <1>1, <1>2, <1>3, <1>4, <1>5, PasoDeUna DEF Forma

LEMMA PasoAvisar ==
    ASSUME IInv, NEW c \in Cpus, Avisar(c)
    PROVE  IInv'
<1>1. /\ cpu[c].fase = "avisar" /\ UNCHANGED <<contextos, desalojo>>
      /\ cpu' = Libre(c)
      /\ estado' = IF estado[cpu[c].pid] = "RUNNING"
                   THEN [estado EXCEPT ![cpu[c].pid] = "READY"] ELSE estado
  BY DEF Avisar, En, Pid
<1>2. Forma /\ SegunFase(c) /\ cpu[c].pid \in Pids /\ cpu[c].pid # Nadie
  BY <1>1, ConProceso DEF IInv
<1>3. /\ DOMAIN cpu' = Cpus
      /\ \A d \in Cpus \ {c} : cpu'[d] = cpu[d]
      /\ FormaCpu(c)'
      /\ cpu'[c].fase = "libre"
      /\ cpu'[c].pid = Nadie
      /\ ~cpu'[c].acceso.fallo
  BY <1>1, <1>2, EfectoDeLibre
<1>4. /\ DOMAIN estado' = Pids /\ estado'[cpu[c].pid] # "RUNNING"
      /\ \A p \in Pids \ {cpu[c].pid} : estado'[p] = estado[p]
  BY <1>1, <1>2 DEF Forma
<1>5. SegunFase(c)'
  BY <1>3 DEF SegunFase, EnUso, ConContexto, Confia
<1> QED
  BY <1>1, <1>2, <1>3, <1>4, <1>5, PasoDeUna DEF Forma

LEMMA PasoMarcarDesalojo ==
    ASSUME IInv, NEW p \in Pids, MarcarDesalojo(p)
    PROVE  IInv'
BY PasoSinCpu DEF MarcarDesalojo, Marcar, IInv, Forma

LEMMA PasoDespertar ==
    ASSUME IInv, NEW p \in Pids, Despertar(p)
    PROVE  IInv'
<1>1. DOMAIN estado = Pids
  BY DEF IInv, Forma
<1>2. /\ DOMAIN estado' = Pids
      /\ \A q \in Pids : \/ estado'[q] = estado[q]
                         \/ /\ \A c \in Cpus : cpu[c].pid # q
                            /\ estado'[q] # "RUNNING"
  BY <1>1 DEF Despertar, Pid
<1> QED
  BY <1>2, PasoSinCpu DEF Despertar

-----------------------------------------------------------------------------
(* The theorems *)

LEMMA PasoDePasoCpu ==
    ASSUME IInv, NEW c \in Cpus, PasoCpu(c)
    PROVE  IInv'
BY PasoNuevaCpu, PasoRecibirContexto, PasoEjecutarCalculo, PasoEjecutarMovIn,
   PasoEjecutarMovOut, PasoEjecutarCopyMem, PasoLeerPieza, PasoEscribirPieza,
   PasoAccesoSinStick, PasoEjecutarMemAlloc, PasoCompactar, PasoEjecutarMemFree,
   PasoEjecutarSyscall, PasoEjecutarEspera, PasoEjecutarExit, PasoFinalizar,
   PasoInterrupt, PasoGuardarContexto, PasoAvisar
   DEF PasoCpu

LEMMA PasoDePasoKernel ==
    ASSUME IInv, PasoKernel
    PROVE  IInv'
<1>1. CASE ConectarStick \/ TomarCompactacion \/ \E m \in Sticks : RecibirNuevaMemoryStick(m)
  BY <1>1, SinCambios DEF ConectarStick, TomarCompactacion, RecibirNuevaMemoryStick
<1>2. CASE \E p \in Pids, c \in Cpus : Despachar(p, c)
  BY <1>2, PasoDespachar
<1>3. CASE \E p \in Pids : MarcarDesalojo(p)
  BY <1>3, PasoMarcarDesalojo
<1>4. CASE \E p \in Pids : EscribirStdin(p) \/ LeerStdout(p)
  BY <1>4, SinCambios DEF EscribirStdin, LeerStdout
<1>5. CASE \E p \in Pids : Despertar(p)
  BY <1>5, PasoDespertar
<1> QED
  BY <1>1, <1>2, <1>3, <1>4, <1>5 DEF PasoKernel

LEMMA PasoIInv == IInv /\ [Next]_vars => IInv'
<1> SUFFICES ASSUME IInv, [Next]_vars PROVE IInv'
  OBVIOUS
<1>1. CASE PasoKernel
  BY <1>1, PasoDePasoKernel
<1>2. CASE \E c \in Cpus : PasoCpu(c)
  BY <1>2, PasoDePasoCpu
<1>3. CASE UNCHANGED vars
  BY <1>3, SinCambios DEF vars
<1> QED
  BY <1>1, <1>2, <1>3 DEF Next

\* What the three programs agree on holds in every reachable state: the phases of
\* a CPU, the list its process is in, and the copy of the table it may still use.
THEOREM Invariante == Spec => []IInv
BY InicioIInv, PasoIInv, PTL DEF Spec

\* A CPU translates addresses only with the table Kernel Memory has: the marks the
\* scheduler leaves on the callers of MEM_ALLOC and MEM_FREE, and the wait of the
\* compaction until nobody else is in RUNNING, are enough to keep every copy in use
\* good (cliente.c 1357-1405 reads only the copy).
THEOREM TablaSiempreVigente == Spec => []TablaVigente
<1>1. IInv => TablaVigente
  BY DEF IInv, SegunFase, EnUso, TablaVigente, Pid
<1> QED
  BY <1>1, Invariante, PTL

\* One CPU at most works for a process, and a process in RUNNING has one: no order
\* of dispatches, evictions, ends and answers of devices gives a script two CPUs.
THEOREM UnaSolaCpuPorProceso == Spec => []UnaCpuPorProceso
<1>1. IInv => UnaCpuPorProceso
  <2> SUFFICES ASSUME IInv, NEW p \in Pids
               PROVE  /\ \A c, d \in Cpus : cpu[c].pid = p /\ cpu[d].pid = p => c = d
                      /\ estado[p] = "RUNNING" => \E c \in Cpus : cpu[c].pid = p
    BY DEF UnaCpuPorProceso, Pid
  <2>1. p # Nadie
    BY CPUAssumption
  <2> QED
    BY <2>1 DEF IInv, UnDuenio, RunningConCpu
<1> QED
  BY <1>1, Invariante, PTL

=============================================================================

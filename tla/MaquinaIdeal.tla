---------------------------- MODULE MaquinaIdeal ----------------------------
(***************************************************************************)
(* What the CPUs, Kernel Memory and the Kernel Scheduler together promise   *)
(* to a script: it runs as if it were alone, on a machine of its own, one   *)
(* instruction at a time.  There are no CPUs here, no physical addresses,   *)
(* no evictions and no compactions: a process has its registers and a list  *)
(* of private segments, each a sequence of bytes.                           *)
(***************************************************************************)
EXTENDS Instrucciones, FiniteSets, SequencesExt

CONSTANT SEGMENT_MAX_SIZE    \* a logical address is number * size + offset

VARIABLE proceso

\* What a script sees: its registers and the bytes of its own segments.
TypeOK ==
    \A p \in Pids :
        /\ proceso[p].sit \in {"activo", "bloqueado", "terminado", "perdido"}
        /\ proceso[p].reg \in BancoRegistros
        /\ \A k \in DOMAIN proceso[p].segs : proceso[p].segs[k].datos \in Seq(Byte)

-----------------------------------------------------------------------------
(* Logical addresses: the place <<segment, offset>> of dir, when tam bytes  *)
(* from there lie in the segment.                                           *)

Desplazamiento(dir) == dir % SEGMENT_MAX_SIZE

Segmentos(p, dir, tam) ==
    {k \in DOMAIN proceso[p].segs :
        /\ proceso[p].segs[k].id = dir \div SEGMENT_MAX_SIZE
        /\ \A j \in 1 .. k - 1 : proceso[p].segs[j].id # dir \div SEGMENT_MAX_SIZE
        /\ Desplazamiento(dir) + tam <= Len(proceso[p].segs[k].datos)}

Valida(p, dir, tam) == Segmentos(p, dir, tam) # {}

Leidos(p, dir, tam) ==
    LET k == CHOOSE k \in Segmentos(p, dir, tam) : TRUE
        d == Desplazamiento(dir)
    IN  SubSeq(proceso[p].segs[k].datos, d + 1, d + tam)

Escritos(p, dir, bytes) ==
    LET k == CHOOSE k \in Segmentos(p, dir, Len(bytes)) : TRUE
        d == Desplazamiento(dir)
    IN  [proceso[p].segs EXCEPT ![k].datos =
            [j \in DOMAIN @ |-> IF j \in d + 1 .. d + Len(bytes) THEN bytes[j - d] ELSE @[j]]]

-----------------------------------------------------------------------------
Activo(p) == proceso[p].sit = "activo"
Reg(p) == proceso[p].reg
Actual(p) == Instruccion(p, Reg(p)["PC"])
Queda(p, maquina) == proceso' = [proceso EXCEPT ![p] = maquina]

CalcularIdeal(p) ==
    /\ Activo(p) /\ Actual(p).op \in Calculos
    /\ Queda(p, [proceso[p] EXCEPT !.reg = Calcular(@, Actual(p))])

MovIn(p) ==
    LET r == Actual(p).dest IN
    /\ Activo(p) /\ Actual(p).op = "MOV_IN"
    /\ Valida(p, Reg(p)["SI"], TamReg(r))
    /\ Queda(p, [proceso[p] EXCEPT !.reg =
           Avanzar([@ EXCEPT ![r] = ValorDe(Leidos(p, Reg(p)["SI"], TamReg(r)))])])

MovOut(p) ==
    LET r == Actual(p).orig IN
    /\ Activo(p) /\ Actual(p).op = "MOV_OUT"
    /\ Valida(p, Reg(p)["DI"], TamReg(r))
    /\ Queda(p, [proceso[p] EXCEPT
           !.segs = Escritos(p, Reg(p)["DI"], EnBytes(Reg(p)[r], TamReg(r))),
           !.reg = Avanzar(@)])

CopyMem(p) ==
    LET n == TamCopia(Reg(p), Actual(p)) IN
    /\ Activo(p) /\ Actual(p).op = "COPY_MEM"
    /\ Valida(p, Reg(p)["SI"], n) /\ Valida(p, Reg(p)["DI"], n)
    /\ Queda(p, [proceso[p] EXCEPT
           !.segs = Escritos(p, Reg(p)["DI"], Leidos(p, Reg(p)["SI"], n)),
           !.reg = Avanzar(@)])

\* A new segment holds whatever its bytes held before.
MemAlloc(p) ==
    /\ Activo(p) /\ Actual(p).op = "MEM_ALLOC"
    /\ \E bytes \in [1 .. Actual(p).tam -> Byte] :
         Queda(p, [proceso[p] EXCEPT
             !.segs = Append(@, [id |-> Actual(p).id, datos |-> bytes]),
             !.reg = Avanzar(@)])

\* Only the first segment with that number goes.
MemFree(p) ==
    LET esEse(s) == s.id = Actual(p).id IN
    /\ Activo(p) /\ Actual(p).op = "MEM_FREE"
    /\ Queda(p, [proceso[p] EXCEPT !.segs = RemoveFirstMatch(@, esEse), !.reg = Avanzar(@)])

\* A system call that takes no time, or blocks for a while (a taken mutex).
Pedir(p) ==
    /\ Activo(p)
    /\ \/ /\ Actual(p).op \in OtrasSyscalls
          /\ Queda(p, [proceso[p] EXCEPT !.reg = Avanzar(@)])
       \/ /\ Actual(p).op \in Esperas \cup {"MUTEX_LOCK"}
          /\ Queda(p, [proceso[p] EXCEPT
                 !.sit = "bloqueado",
                 !.pedido = IF Actual(p).op \in {"STDIN", "STDOUT"}
                            THEN [op |-> Actual(p).op, dir |-> Reg(p)[Actual(p).dir],
                                  tam |-> Reg(p)[Actual(p).tam]]
                            ELSE SinPedido,
                 !.reg = Avanzar(@)])

\* The device delivers: any bytes come in; what goes out is the segment.
Atender(p) ==
    LET pedido == proceso[p].pedido IN
    /\ proceso[p].sit = "bloqueado"
    /\ \/ /\ pedido.op = "STDIN" /\ Valida(p, pedido.dir, pedido.tam)
          /\ \E bytes \in [1 .. pedido.tam -> Byte] :
               Queda(p, [proceso[p] EXCEPT !.segs = Escritos(p, pedido.dir, bytes),
                                           !.pedido = SinPedido])
       \/ /\ pedido.op = "STDIN" /\ ~Valida(p, pedido.dir, pedido.tam)
          /\ Queda(p, [proceso[p] EXCEPT !.pedido = SinPedido])
       \/ /\ pedido.op = "STDOUT" /\ Valida(p, pedido.dir, pedido.tam)
          /\ Queda(p, [proceso[p] EXCEPT !.salida = Leidos(p, pedido.dir, pedido.tam),
                                         !.pedido = SinPedido])

Despertar(p) ==
    /\ proceso[p].sit = "bloqueado" /\ proceso[p].pedido = SinPedido
    /\ Queda(p, [proceso[p] EXCEPT !.sit = "activo"])

\* EXIT, or an access outside the segments of the process.  A script of which nothing
\* is promised may end too.
Terminar(p) ==
    LET i == Actual(p)
        mal(r, n) == ~Valida(p, Reg(p)[r], n)
    IN
    /\ Activo(p) \/ proceso[p].sit = "perdido"
    /\ \/ proceso[p].sit = "perdido"
       \/ i.op = "EXIT"
       \/ i.op = "MOV_IN" /\ mal("SI", TamReg(i.dest))
       \/ i.op = "MOV_OUT" /\ mal("DI", TamReg(i.orig))
       \/ i.op = "COPY_MEM" /\ (mal("SI", TamCopia(Reg(p), i)) \/ mal("DI", TamCopia(Reg(p), i)))
    /\ Queda(p, Parado("terminado"))

\* The promise is withdrawn from one script or from several; CPU.tla says when.
Perder(scripts) ==
    /\ \A p \in scripts : proceso[p].sit \in {"activo", "bloqueado"}
    /\ proceso' = [p \in Pids |-> IF p \in scripts THEN Parado("perdido") ELSE proceso[p]]

Init == proceso = [p \in Pids |-> Parado("activo")]

\* A step changes the process it is of; one that changes nothing stutters.
Next ==
    \/ \E p \in Pids :
          /\ proceso'[p] # proceso[p]
          /\ \/ CalcularIdeal(p) \/ MovIn(p) \/ MovOut(p) \/ CopyMem(p)
             \/ MemAlloc(p) \/ MemFree(p)
             \/ Pedir(p) \/ Atender(p) \/ Despertar(p)
             \/ Terminar(p)
    \/ \E scripts \in SUBSET Pids : Perder(scripts)

Spec == Init /\ [][Next]_proceso

=============================================================================

------------------------- MODULE CPUMemoria_proofs --------------------------
(***************************************************************************)
(* More proofs about the CPUs and the memory they reach (module CPU), on    *)
(* top of the inductive invariant of CPU_proofs.                            *)
(*                                                                          *)
(* Tipos gives the types, phase by phase.  Espacio says how the segments    *)
(* share the memory: each lies within the sticks that have answered, no two *)
(* of different processes overlap, and a process that waits for a           *)
(* compaction asked for no more than is free.  AccesoBien says where the    *)
(* bytes of an access under way lie, under SinDesborde: the sum of 32 bits  *)
(* the MMU compares does not wrap around.                                   *)
(***************************************************************************)
EXTENDS CPU_proofs, FiniteSetTheorems, WellFoundedInduction

-----------------------------------------------------------------------------
(* Induction over numbers, and the functions that recur on them *)

\* The order of the numbers, as the library's relations are written.
Menor == {ss \in Nat \X Nat : ss[1] < ss[2]}

\* It has no infinite descent, ...
LEMMA MenorBien == IsWellFoundedOn(Menor, Nat)
BY NatLessThanWellFounded DEF OpToRel, Menor

\* ... so every set of numbers that is not empty has a least one ...
LEMMA Minimo ==
    ASSUME NEW T, T \subseteq Nat, T # {}
    PROVE  \E x \in T : \A y \in T : x <= y
<1>1. PICK x \in T : \A y \in T : <<y, x>> \notin Menor
  <2>1. IsWellFoundedOn(Menor, Nat)
    BY MenorBien
  <2> QED
    BY <2>1, WFMin
<1>2. ASSUME NEW y \in T PROVE x <= y
  <2>1. x \in Nat /\ y \in Nat
    OBVIOUS
  <2>2. <<y, x>> \notin Menor
    BY <1>1
  <2> QED
    BY <2>1, <2>2 DEF Menor
<1> QED
  BY <1>2

\* ... and one that holds 0 and the successor of its members holds them all.
LEMMA Induccion ==
    ASSUME NEW T, T \subseteq Nat, 0 \in T, \A n \in T : n + 1 \in T
    PROVE  T = Nat
<1> SUFFICES ASSUME Nat \ T # {} PROVE FALSE
  OBVIOUS
<1>1. PICK n \in Nat \ T : \A m \in Nat \ T : n <= m
  <2>1. Nat \ T \subseteq Nat
    OBVIOUS
  <2> QED
    BY <2>1, Minimo
<1>2. n # 0 /\ n - 1 \in Nat /\ ~ (n <= n - 1) /\ (n - 1) + 1 = n
  OBVIOUS
<1>3. n - 1 \in T
  BY <1>1, <1>2
<1> QED
  BY <1>2, <1>3

\* A beginning of the sequence that starts with c and goes on with G.
Tramo(g, n, S, c, G) ==
    /\ g \in [0 .. n -> S]
    /\ g[0] = c
    /\ \A k \in 0 .. n - 1 : g[k + 1] = G[<<k + 1, g[k]>>]

\* Two beginnings agree as far as both go.
LEMMA TramoUnico ==
    ASSUME NEW S, NEW c \in S, NEW G, NEW n \in Nat, NEW m \in Nat, NEW g, NEW h,
           Tramo(g, n, S, c, G), Tramo(h, m, S, c, G), NEW i \in Nat, i <= n, i <= m
    PROVE  g[i] = h[i]
<1> DEFINE T == {k \in Nat : k <= n /\ k <= m => g[k] = h[k]}
<1>1. 0 \in T
  BY DEF Tramo
<1>2. ASSUME NEW k \in T PROVE k + 1 \in T
  <2> SUFFICES ASSUME k + 1 <= n, k + 1 <= m PROVE g[k + 1] = h[k + 1]
    OBVIOUS
  <2>1. k \in 0 .. n - 1 /\ k \in 0 .. m - 1 /\ k <= n /\ k <= m
    OBVIOUS
  <2>2. g[k] = h[k]
    BY <2>1
  <2> QED
    BY <2>1, <2>2 DEF Tramo
<1>3. T = Nat
  <2>1. T \subseteq Nat
    OBVIOUS
  <2> HIDE DEF T
  <2> QED
    BY <1>1, <1>2, <2>1, Induccion
<1> QED
  BY <1>3

\* There is a beginning of every length.
LEMMA TramoExiste ==
    ASSUME NEW S, NEW c \in S, NEW G \in [Nat \X S -> S], NEW n \in Nat
    PROVE  \E g : Tramo(g, n, S, c, G)
<1> DEFINE T == {k \in Nat : \E g : Tramo(g, k, S, c, G)}
<1>1. 0 \in T
  <2> DEFINE g == [k \in 0 .. 0 |-> c]
  <2>1. Tramo(g, 0, S, c, G)
    BY DEF Tramo
  <2> QED
    BY <2>1
<1>2. ASSUME NEW k \in T PROVE k + 1 \in T
  <2>1. PICK g : Tramo(g, k, S, c, G)
    OBVIOUS
  <2> DEFINE h == [i \in 0 .. k + 1 |-> IF i = k + 1 THEN G[<<k + 1, g[k]>>] ELSE g[i]]
  <2>2. g[k] \in S /\ G[<<k + 1, g[k]>>] \in S
    BY <2>1 DEF Tramo
  <2>3. h \in [0 .. k + 1 -> S]
    <3> SUFFICES ASSUME NEW i \in 0 .. k + 1 PROVE h[i] \in S
      OBVIOUS
    <3>1. CASE i = k + 1
      BY <3>1, <2>2
    <3>2. CASE i # k + 1
      <4>1. i \in 0 .. k
        BY <3>2
      <4> QED
        BY <4>1, <3>2, <2>1 DEF Tramo
    <3> QED
      BY <3>1, <3>2
  <2>4. h[0] = c
    BY <2>1 DEF Tramo
  <2>5. ASSUME NEW i \in 0 .. (k + 1) - 1 PROVE h[i + 1] = G[<<i + 1, h[i]>>]
    <3>1. i \in 0 .. k /\ h[i] = g[i]
      OBVIOUS
    <3>2. CASE i = k
      <4>1. h[i + 1] = G[<<k + 1, g[k]>>]
        BY <3>2
      <4> QED
        BY <4>1, <3>1, <3>2
    <3>3. CASE i # k
      <4>1. i \in 0 .. k - 1 /\ h[i + 1] = g[i + 1]
        BY <3>1, <3>3
      <4> QED
        BY <4>1, <3>1, <2>1 DEF Tramo
    <3> QED
      BY <3>2, <3>3
  <2>6. Tramo(h, k + 1, S, c, G)
    BY <2>3, <2>4, <2>5 DEF Tramo
  <2> QED
    BY <2>6
<1>3. T = Nat
  <2>1. T \subseteq Nat
    OBVIOUS
  <2> HIDE DEF T
  <2> QED
    BY <1>1, <1>2, <2>1, Induccion
<1> QED
  BY <1>3

Recurre(f, S, c, G) ==
    f \in [Nat -> S] /\ f[0] = c /\ \A n \in Nat : f[n + 1] = G[<<n + 1, f[n]>>]

\* A function given by its value at 0 and a step is that sequence.
LEMMA Recursion ==
    ASSUME NEW S, NEW c \in S, NEW G \in [Nat \X S -> S]
    PROVE  \E f : Recurre(f, S, c, G)
<1> DEFINE tramo(n) == CHOOSE g : Tramo(g, n, S, c, G)
           f == [n \in Nat |-> tramo(n)[n]]
<1>1. ASSUME NEW n \in Nat PROVE Tramo(tramo(n), n, S, c, G)
  BY TramoExiste
<1> HIDE DEF tramo
<1>2. f \in [Nat -> S]
  <2> SUFFICES ASSUME NEW n \in Nat PROVE tramo(n)[n] \in S
    OBVIOUS
  <2> QED
    BY <1>1 DEF Tramo
<1>3. f[0] = c
  BY <1>1 DEF Tramo
<1>4. ASSUME NEW n \in Nat PROVE f[n + 1] = G[<<n + 1, f[n]>>]
  <2>1. tramo(n + 1)[n] = tramo(n)[n]
    <3>1. Tramo(tramo(n), n, S, c, G) /\ Tramo(tramo(n + 1), n + 1, S, c, G)
      BY <1>1
    <3>2. n <= n /\ n <= n + 1 /\ n + 1 \in Nat
      OBVIOUS
    <3> QED
      BY <3>1, <3>2, TramoUnico
  <2>2. tramo(n + 1)[n + 1] = G[<<n + 1, tramo(n + 1)[n]>>]
    <3>1. Tramo(tramo(n + 1), n + 1, S, c, G)
      BY <1>1
    <3>2. n \in 0 .. (n + 1) - 1
      OBVIOUS
    <3> QED
      BY <3>1, <3>2 DEF Tramo
  <2> QED
    BY <2>1, <2>2
<1>5. Recurre(f, S, c, G)
  BY <1>2, <1>3, <1>4 DEF Recurre
<1> QED
  BY <1>5

-----------------------------------------------------------------------------
(* Powers, bytes and registers *)

LEMMA PotenciaValores ==
    /\ Potencia \in [Nat -> Nat \ {0}]
    /\ Potencia[0] = 1
    /\ \A n \in Nat : Potencia[n + 1] = Base * Potencia[n]
<1> DEFINE P == Nat \ {0}
           G == [x \in Nat \X P |-> Base * x[2]]
           E(f) == f = [n \in Nat |-> IF n = 0 THEN 1 ELSE Base * f[n - 1]]
<1>1. Base \in Nat \ {0, 1}
  BY InstruccionesAssumption
<1>2. G \in [Nat \X P -> P] /\ \A n \in Nat, v \in P : G[<<n, v>>] = Base * v
  BY <1>1
<1>3. PICK f : Recurre(f, P, 1, G)
  <2>1. G \in [Nat \X P -> P] /\ 1 \in P
    BY <1>2
  <2> HIDE DEF G, P
  <2> QED
    BY <2>1, Recursion
<1>4. \A n \in Nat : f[n + 1] = Base * f[n]
  <2> SUFFICES ASSUME NEW n \in Nat PROVE f[n + 1] = Base * f[n]
    OBVIOUS
  <2> HIDE DEF G, P
  <2>1. f[n] \in P /\ n + 1 \in Nat
    BY <1>3 DEF Recurre
  <2> QED
    BY <1>2, <1>3, <2>1 DEF Recurre
<1>5. E(f)
  <2>1. ASSUME NEW n \in Nat, n # 0 PROVE f[n] = Base * f[n - 1]
    <3>1. n - 1 \in Nat /\ (n - 1) + 1 = n
      BY <2>1
    <3> QED
      BY <3>1, <1>4
  <2> QED
    BY <1>3, <2>1 DEF Recurre
<1>6. E(Potencia)
  <2>1. Potencia = CHOOSE g : E(g)
    BY DEF Potencia
  <2> QED
    BY <1>5, <2>1
<1>7. \A n \in Nat : Potencia[n] = IF n = 0 THEN 1 ELSE Base * Potencia[n - 1]
  BY <1>6
<1>8. Potencia[0] = 1
  BY <1>7
<1>9. \A n \in Nat : Potencia[n + 1] = Base * Potencia[n]
  BY <1>7
<1>10. \A n \in Nat : Potencia[n] \in P
  <2> DEFINE T == {n \in Nat : Potencia[n] \in P}
  <2>1. 0 \in T
    BY <1>8
  <2>2. ASSUME NEW n \in T PROVE n + 1 \in T
    BY <1>9, <1>1
  <2>3. T \subseteq Nat
    OBVIOUS
  <2>4. T = Nat
    <3> HIDE DEF T
    <3> QED
      BY <2>1, <2>2, <2>3, Induccion
  <2> QED
    BY <2>4
<1> QED
  BY <1>6, <1>8, <1>9, <1>10

\* A power grows with its exponent.
LEMMA PotenciaCrece ==
    ASSUME NEW n \in Nat, NEW m \in Nat, m <= n PROVE Potencia[m] <= Potencia[n]
<1> DEFINE T == {k \in Nat : m <= k => Potencia[m] <= Potencia[k]}
<1>1. \A k \in Nat : Potencia[k] \in Nat \ {0} /\ Potencia[k + 1] = Base * Potencia[k]
  BY PotenciaValores
<1>2. 0 \in T
  BY <1>1
<1>3. ASSUME NEW k \in T PROVE k + 1 \in T
  <2> SUFFICES ASSUME m <= k + 1 PROVE Potencia[m] <= Potencia[k + 1]
    OBVIOUS
  <2>1. CASE m = k + 1
    BY <2>1, <1>1
  <2>2. CASE m <= k
    <3>1. Potencia[m] <= Potencia[k]
      BY <2>2
    <3>2. Base \in Nat \ {0, 1}
      BY InstruccionesAssumption
    <3>3. \A x \in Nat : x <= Base * x
      BY <3>2
    <3>4. Potencia[k] <= Potencia[k + 1]
      BY <1>1, <3>3
    <3> QED
      BY <1>1, <3>1, <3>4
  <2> QED
    BY <2>1, <2>2
<1>4. T \subseteq Nat
  OBVIOUS
<1>5. T = Nat
  <2> HIDE DEF T
  <2> QED
    BY <1>2, <1>3, <1>4, Induccion
<1> QED
  BY <1>5

LEMMA Palabras ==
    /\ Potencia[1] = Base
    /\ Potencia[Ancho] \in Nat \ {0}
    /\ Base <= Potencia[Ancho]
    /\ Byte \subseteq Palabra /\ Byte \subseteq Nat /\ Palabra \subseteq Nat
    /\ 0 \in Byte /\ 0 \in Palabra
<1>1. Base \in Nat \ {0, 1} /\ Ancho \in Nat \ {0}
  BY InstruccionesAssumption
<1>2. Potencia[0 + 1] = Base * Potencia[0] /\ Potencia[0] = 1
  BY PotenciaValores
<1>3. Potencia[1] = Base
  BY <1>1, <1>2
<1>4. Potencia[Ancho] \in Nat \ {0}
  BY <1>1, PotenciaValores
<1>5. Potencia[1] <= Potencia[Ancho]
  <2>1. Ancho \in Nat /\ 1 \in Nat /\ 1 <= Ancho
    BY <1>1
  <2> QED
    BY <2>1, PotenciaCrece
<1> QED
  BY <1>1, <1>3, <1>4, <1>5 DEF Byte, Palabra

\* The values of a register are those below its module.
LEMMA AnchoDeRegistro ==
    ASSUME NEW r \in Registros
    PROVE  /\ TamReg(r) \in Nat \ {0} /\ TamReg(r) <= Ancho
           /\ Modulo(r) \in Nat \ {0}
           /\ r \in Reg8 => 0 .. Modulo(r) - 1 = Byte
           /\ r \in Reg32 => 0 .. Modulo(r) - 1 = Palabra
           /\ 0 .. Modulo(r) - 1 \subseteq Palabra
<1>1. Ancho \in Nat \ {0} /\ Reg8 \cap Reg32 = {}
  BY InstruccionesAssumption
<1>2. CASE r \in Reg32
  <2>1. TamReg(r) = Ancho /\ r \notin Reg8
    BY <1>1, <1>2 DEF TamReg
  <2> QED
    BY <1>1, <1>2, <2>1, Palabras DEF Modulo, Palabra
<1>3. CASE r \notin Reg32
  <2>1. TamReg(r) = 1
    BY <1>3 DEF TamReg
  <2> QED
    BY <1>1, <1>3, <2>1, Palabras, InstruccionesAssumption DEF Modulo, Palabra, Byte
<1> QED
  BY <1>2, <1>3

LEMMA BancoCon ==
    ASSUME NEW reg \in BancoRegistros, NEW r \in Registros, NEW v \in 0 .. Modulo(r) - 1
    PROVE  [reg EXCEPT ![r] = v] \in BancoRegistros
<1> DEFINE nuevo == [reg EXCEPT ![r] = v]
<1>1. reg \in [Registros -> Palabra] /\ \A s \in Reg8 : reg[s] \in Byte
  BY DEF BancoRegistros
<1>2. v \in Palabra /\ (r \in Reg8 => v \in Byte)
  BY AnchoDeRegistro
<1>3. nuevo \in [Registros -> Palabra]
  BY <1>1, <1>2
<1>4. ASSUME NEW s \in Reg8 PROVE nuevo[s] \in Byte
  <2>1. s \in Registros
    BY DEF Registros
  <2> QED
    BY <1>1, <1>2, <2>1
<1> QED
  BY <1>3, <1>4 DEF BancoRegistros

LEMMA RegistrosConocidos ==
    /\ {"PC", "SI", "DI"} \subseteq Reg32 /\ {"PC", "SI", "DI"} \subseteq Registros
BY InstruccionesAssumption DEF Registros

LEMMA BancoTiene ==
    ASSUME NEW reg \in BancoRegistros, NEW r \in Registros
    PROVE  reg[r] \in Palabra /\ reg[r] \in Nat
BY Palabras DEF BancoRegistros

LEMMA AvanzarBanco ==
    ASSUME NEW reg \in BancoRegistros
    PROVE  Avanzar(reg) \in BancoRegistros
<1>1. "PC" \in Registros /\ "PC" \in Reg32
  BY RegistrosConocidos
<1>2. reg["PC"] \in Nat
  BY <1>1, BancoTiene
<1>3. Modulo("PC") = Potencia[Ancho]
  BY <1>1 DEF Modulo, TamReg
<1>4. (reg["PC"] + 1) % Potencia[Ancho] \in 0 .. Modulo("PC") - 1
  BY <1>2, <1>3, Palabras
<1>5. [reg EXCEPT !["PC"] = (reg["PC"] + 1) % Potencia[Ancho]] \in BancoRegistros
  BY <1>1, <1>4, BancoCon
<1> QED
  BY <1>5 DEF Avanzar

LEMMA CerosBanco == RegistrosEnCero \in BancoRegistros
<1>1. \A r \in Reg8 : r \in Registros
  BY DEF Registros
<1> QED
  BY <1>1, Palabras DEF RegistrosEnCero, BancoRegistros

\* What execute leaves in the registers fits in them.
LEMMA CalcularBanco ==
    ASSUME NEW reg \in BancoRegistros, NEW i, BienFormada(i), i.op \in Calculos
    PROVE  Calcular(reg, i) \in BancoRegistros
<1>1. CASE i.op = "NOOP"
  BY <1>1, AvanzarBanco DEF Calcular
<1>2. CASE i.op = "SET"
  <2>1. i.dest \in Registros /\ i.valor \in Nat
    BY <1>2 DEF BienFormada
  <2>2. i.valor % Modulo(i.dest) \in 0 .. Modulo(i.dest) - 1
    BY <2>1, AnchoDeRegistro
  <2> DEFINE nuevo == [reg EXCEPT ![i.dest] = i.valor % Modulo(i.dest)]
  <2>3. nuevo \in BancoRegistros
    BY <2>1, <2>2, BancoCon
  <2>4. Calcular(reg, i) = IF i.dest = "PC" THEN nuevo ELSE Avanzar(nuevo)
    BY <1>2 DEF Calcular
  <2> HIDE DEF nuevo
  <2>5. Avanzar(nuevo) \in BancoRegistros
    BY <2>3, AvanzarBanco
  <2> QED
    BY <2>3, <2>4, <2>5
<1>3. CASE i.op = "SUM"
  <2>1. i.dest \in Registros /\ i.orig \in Registros
    BY <1>3 DEF BienFormada
  <2>2. reg[i.dest] + reg[i.orig] \in Nat
    BY <2>1, BancoTiene
  <2>3. (reg[i.dest] + reg[i.orig]) % Modulo(i.dest) \in 0 .. Modulo(i.dest) - 1
    BY <2>1, <2>2, AnchoDeRegistro
  <2> DEFINE nuevo == [reg EXCEPT ![i.dest] = (reg[i.dest] + reg[i.orig]) % Modulo(i.dest)]
  <2>4. nuevo \in BancoRegistros
    BY <2>1, <2>3, BancoCon
  <2>5. Calcular(reg, i) = Avanzar(nuevo)
    BY <1>3 DEF Calcular
  <2> HIDE DEF nuevo
  <2> QED
    BY <2>4, <2>5, AvanzarBanco
<1>4. CASE i.op = "SUB"
  <2>1. i.dest \in Registros /\ i.orig \in Registros
    BY <1>4 DEF BienFormada
  <2>2. reg[i.dest] - reg[i.orig] \in Int
    BY <2>1, BancoTiene
  <2>3. (reg[i.dest] - reg[i.orig]) % Modulo(i.dest) \in 0 .. Modulo(i.dest) - 1
    BY <2>1, <2>2, AnchoDeRegistro
  <2> DEFINE nuevo == [reg EXCEPT ![i.dest] = (reg[i.dest] - reg[i.orig]) % Modulo(i.dest)]
  <2>4. nuevo \in BancoRegistros
    BY <2>1, <2>3, BancoCon
  <2>5. Calcular(reg, i) = Avanzar(nuevo)
    BY <1>4 DEF Calcular
  <2> HIDE DEF nuevo
  <2> QED
    BY <2>4, <2>5, AvanzarBanco
<1>5. CASE i.op = "JNZ"
  <2>1. i.valor \in Palabra
    BY <1>5 DEF BienFormada
  <2>2. "PC" \in Registros /\ i.valor \in 0 .. Modulo("PC") - 1
    BY <2>1, RegistrosConocidos, AnchoDeRegistro
  <2>3. [reg EXCEPT !["PC"] = i.valor] \in BancoRegistros
    BY <2>2, BancoCon
  <2>4. Calcular(reg, i) = IF reg[i.dest] # 0 THEN [reg EXCEPT !["PC"] = i.valor]
                           ELSE Avanzar(reg)
    BY <1>5 DEF Calcular
  <2>5. Avanzar(reg) \in BancoRegistros
    BY AvanzarBanco
  <2> QED
    BY <2>3, <2>4, <2>5
<1> QED
  BY <1>1, <1>2, <1>3, <1>4, <1>5 DEF Calculos

\* Whatever the program counter, the CPU gets a well-formed instruction.
LEMMA InstruccionBien ==
    ASSUME NEW p \in Pids, NEW pc \in Nat
    PROVE  BienFormada(Instruccion(p, pc))
<1>1. Len(Programa[p]) \in Nat
      /\ \A k \in 1 .. Len(Programa[p]) : BienFormada(Programa[p][k])
  BY InstruccionesAssumption
<1>2. CASE pc < Len(Programa[p])
  <2>1. pc + 1 \in 1 .. Len(Programa[p])
    BY <1>1, <1>2
  <2> QED
    BY <1>1, <1>2, <2>1 DEF Instruccion
<1>3. CASE ~(pc < Len(Programa[p]))
  BY <1>3 DEF Instruccion, BienFormada, Operaciones
<1> QED
  BY <1>2, <1>3

LEMMA ProductoNatural ==
    ASSUME NEW a \in Nat, NEW b \in Nat
    PROVE  a * b \in Nat
OBVIOUS

LEMMA MenorProducto ==
    ASSUME NEW a \in Nat, NEW b \in Nat, NEW c \in Nat, a <= b
    PROVE  a * c <= b * c
OBVIOUS

LEMMA EnBytesBien ==
    ASSUME NEW v \in Nat, NEW n \in Nat
    PROVE  EnBytes(v, n) \in Seq(Byte) /\ Len(EnBytes(v, n)) = n
<1>1. ASSUME NEW k \in 1 .. n PROVE (v \div Potencia[k - 1]) % Base \in Byte
  <2>1. Potencia[k - 1] \in Nat \ {0}
    BY PotenciaValores
  <2>2. v \div Potencia[k - 1] \in Nat
    BY <2>1
  <2> QED
    BY <2>2, InstruccionesAssumption DEF Byte
<1> QED
  BY <1>1 DEF EnBytes

\* ValorDe adds the bytes up one by one.
Sumas(s, bytes) ==
    /\ s[0] = 0
    /\ \A k \in 1 .. Len(bytes) : s[k] = s[k - 1] + bytes[k] * Potencia[k - 1]
    /\ ValorDe(bytes) = s[Len(bytes)]

LEMMA BytesConPotencia ==
    ASSUME NEW bytes \in Seq(Byte), NEW k \in 1 .. Len(bytes)
    PROVE  /\ bytes[k] \in Nat /\ bytes[k] <= Base - 1
           /\ k - 1 \in Nat /\ Potencia[k - 1] \in Nat \ {0}
           /\ bytes[k] * Potencia[k - 1] \in Nat
<1>1. bytes[k] \in Byte /\ k - 1 \in Nat /\ Base \in Nat
  BY InstruccionesAssumption
<1>2. bytes[k] \in Nat /\ bytes[k] <= Base - 1
  BY <1>1 DEF Byte
<1>3. Potencia[k - 1] \in Nat \ {0}
  BY <1>1, PotenciaValores
<1> QED
  BY <1>1, <1>2, <1>3

LEMMA ValorDeSumas ==
    ASSUME NEW bytes \in Seq(Byte)
    PROVE  \E s : Sumas(s, bytes)
<1> DEFINE L == Len(bytes)
           b == [k \in Nat |-> IF k \in 1 .. L THEN bytes[k] * Potencia[k - 1] ELSE 0]
           G == [x \in Nat \X Nat |-> x[2] + b[x[1]]]
           E(f) == f = [k \in 0 .. L |-> IF k = 0 THEN 0
                                         ELSE f[k - 1] + bytes[k] * Potencia[k - 1]]
<1>1. L \in Nat
  OBVIOUS
<1>2. b \in [Nat -> Nat]
  BY BytesConPotencia
<1>3. \A k \in 1 .. L : b[k] = bytes[k] * Potencia[k - 1]
  OBVIOUS
<1> HIDE DEF b
<1>4. G \in [Nat \X Nat -> Nat] /\ \A k, v \in Nat : G[<<k, v>>] = v + b[k]
  <2>1. ASSUME NEW x \in Nat \X Nat PROVE x[2] + b[x[1]] \in Nat
    <3>1. x[1] \in Nat /\ x[2] \in Nat
      OBVIOUS
    <3>2. b[x[1]] \in Nat
      BY <1>2, <3>1
    <3> QED
      BY <3>1, <3>2
  <2>2. G \in [Nat \X Nat -> Nat]
    BY <2>1
  <2>3. \A k, v \in Nat : G[<<k, v>>] = v + b[k]
    OBVIOUS
  <2> QED
    BY <2>2, <2>3
<1>5. PICK f : Recurre(f, Nat, 0, G)
  <2>1. G \in [Nat \X Nat -> Nat] /\ 0 \in Nat
    BY <1>4
  <2> HIDE DEF G
  <2> QED
    BY <2>1, Recursion
<1>6. ASSUME NEW k \in Nat PROVE f[k] \in Nat /\ f[k + 1] = f[k] + b[k + 1]
  <2> HIDE DEF G
  <2>1. f[k] \in Nat /\ k + 1 \in Nat
    BY <1>5 DEF Recurre
  <2> QED
    BY <1>4, <1>5, <2>1 DEF Recurre
<1> DEFINE g == [k \in 0 .. L |-> f[k]]
<1>7. E(g)
  <2>1. ASSUME NEW k \in 0 .. L, k # 0 PROVE f[k] = g[k - 1] + bytes[k] * Potencia[k - 1]
    <3>1. k - 1 \in Nat /\ (k - 1) + 1 = k /\ k \in 1 .. L /\ k - 1 \in 0 .. L
      BY <2>1, <1>1
    <3>2. f[k] = f[k - 1] + b[k]
      BY <3>1, <1>6
    <3> QED
      BY <3>1, <3>2, <1>3
  <2>2. f[0] = 0
    BY <1>5 DEF Recurre
  <2> QED
    BY <2>1, <2>2
<1> DEFINE s == CHOOSE x : E(x)
<1>8. E(s)
  <2> HIDE DEF E, g
  <2> QED
    BY <1>7
<1>9. ValorDe(bytes) = s[L]
  BY DEF ValorDe
<1> HIDE DEF s
<1>10. s[0] = 0
  BY <1>8, <1>1
<1>11. ASSUME NEW k \in 1 .. L PROVE s[k] = s[k - 1] + bytes[k] * Potencia[k - 1]
  <2>1. k \in 0 .. L /\ k # 0
    BY <1>1
  <2> QED
    BY <2>1, <1>8
<1> QED
  BY <1>9, <1>10, <1>11 DEF Sumas

\* n bytes make less than the n-th power, up to any point of the sum.
LEMMA SumasAcotadas ==
    ASSUME NEW bytes \in Seq(Byte), NEW s, Sumas(s, bytes), NEW n \in 0 .. Len(bytes)
    PROVE  s[n] \in 0 .. Potencia[n] - 1
<1> DEFINE L == Len(bytes)
           T == {k \in Nat : k <= L => s[k] \in 0 .. Potencia[k] - 1}
<1>1. L \in Nat
  OBVIOUS
<1>2. 0 \in T
  <2>1. s[0] = 0 /\ Potencia[0] = 1
    BY PotenciaValores DEF Sumas
  <2> QED
    BY <2>1
<1>3. ASSUME NEW k \in T PROVE k + 1 \in T
  <2> SUFFICES ASSUME k + 1 <= L PROVE s[k + 1] \in 0 .. Potencia[k + 1] - 1
    OBVIOUS
  <2>1. k \in Nat /\ k <= L /\ k + 1 \in 1 .. L /\ (k + 1) - 1 = k
    BY <1>1
  <2>2. s[k] \in 0 .. Potencia[k] - 1
    BY <2>1
  <2>3. s[k + 1] = s[k] + bytes[k + 1] * Potencia[k]
    BY <2>1 DEF Sumas
  <2>4. Potencia[k] \in Nat \ {0} /\ Potencia[k + 1] = Base * Potencia[k]
    BY <2>1, PotenciaValores
  <2>5. bytes[k + 1] \in Nat /\ bytes[k + 1] <= Base - 1
    BY <2>1, BytesConPotencia
  <2>6. Base - 1 \in Nat /\ Base \in Nat
    BY InstruccionesAssumption
  <2>7. bytes[k + 1] * Potencia[k] <= (Base - 1) * Potencia[k]
    BY <2>4, <2>5, <2>6, MenorProducto
  <2>8. (Base - 1) * Potencia[k] = Base * Potencia[k] - Potencia[k]
    BY <2>4, <2>6
  <2>9. bytes[k + 1] * Potencia[k] \in Nat /\ Base * Potencia[k] \in Nat
    BY <2>4, <2>5, <2>6, ProductoNatural
  <2> DEFINE x == bytes[k + 1] * Potencia[k]
             y == Base * Potencia[k]
  <2>10. /\ x \in Nat /\ y \in Nat /\ x <= y - Potencia[k]
         /\ s[k + 1] = s[k] + x /\ Potencia[k + 1] = y
    BY <2>3, <2>4, <2>7, <2>8, <2>9
  <2> HIDE DEF x, y
  <2> QED
    BY <2>2, <2>4, <2>10
<1>4. T \subseteq Nat
  OBVIOUS
<1>5. T = Nat
  <2> HIDE DEF T
  <2> QED
    BY <1>2, <1>3, <1>4, Induccion
<1>6. n \in T /\ n <= L
  BY <1>1, <1>5
<1> QED
  BY <1>6

LEMMA ValorDeBien ==
    ASSUME NEW bytes \in Seq(Byte)
    PROVE  ValorDe(bytes) \in 0 .. Potencia[Len(bytes)] - 1
<1>1. PICK s : Sumas(s, bytes)
  BY ValorDeSumas
<1>2. Len(bytes) \in 0 .. Len(bytes)
  OBVIOUS
<1>3. s[Len(bytes)] \in 0 .. Potencia[Len(bytes)] - 1
  BY <1>1, <1>2, SumasAcotadas
<1> QED
  BY <1>1, <1>3 DEF Sumas

-----------------------------------------------------------------------------
(* The sticks, one after another *)

LEMMA BaseStickValores ==
    LET L == Len(TamanioStick) IN
    /\ L \in Nat
    /\ BaseStick \in [1 .. L + 1 -> Nat]
    /\ BaseStick[1] = 0
    /\ \A m \in Sticks : /\ TamanioStick[m] \in Nat \ {0}
                         /\ BaseStick[m + 1] = BaseStick[m] + TamanioStick[m]
<1> DEFINE L == Len(TamanioStick)
           t == [k \in Nat |-> IF k \in 1 .. L THEN TamanioStick[k] ELSE 0]
           G == [x \in Nat \X Nat |-> x[2] + t[x[1]]]
           E(f) == f = [m \in 1 .. L + 1 |-> IF m = 1 THEN 0
                                             ELSE f[m - 1] + TamanioStick[m - 1]]
<1>1. L \in Nat /\ \A m \in 1 .. L : TamanioStick[m] \in Nat \ {0}
  BY CPUAssumption
<1>2. t \in [Nat -> Nat]
  BY <1>1
<1>3. \A k \in 1 .. L : t[k] = TamanioStick[k]
  BY <1>1
<1> HIDE DEF t
<1>4. G \in [Nat \X Nat -> Nat] /\ \A k, v \in Nat : G[<<k, v>>] = v + t[k]
  <2>1. ASSUME NEW x \in Nat \X Nat PROVE x[2] + t[x[1]] \in Nat
    <3>1. x[1] \in Nat /\ x[2] \in Nat
      OBVIOUS
    <3>2. t[x[1]] \in Nat
      BY <1>2, <3>1
    <3> QED
      BY <3>1, <3>2
  <2>2. G \in [Nat \X Nat -> Nat]
    BY <2>1
  <2>3. \A k, v \in Nat : G[<<k, v>>] = v + t[k]
    OBVIOUS
  <2> QED
    BY <2>2, <2>3
<1>5. PICK f : Recurre(f, Nat, 0, G)
  <2>1. G \in [Nat \X Nat -> Nat] /\ 0 \in Nat
    BY <1>4
  <2> HIDE DEF G
  <2> QED
    BY <2>1, Recursion
<1>6. ASSUME NEW k \in Nat PROVE f[k] \in Nat /\ f[k + 1] = f[k] + t[k + 1]
  <2> HIDE DEF G
  <2>1. f[k] \in Nat /\ k + 1 \in Nat
    BY <1>5 DEF Recurre
  <2> QED
    BY <1>4, <1>5, <2>1 DEF Recurre
<1> DEFINE g == [m \in 1 .. L + 1 |-> f[m - 1]]
<1>7. E(g)
  <2>1. ASSUME NEW m \in 1 .. L + 1, m # 1 PROVE f[m - 1] = g[m - 1] + TamanioStick[m - 1]
    <3>1. m - 1 \in 1 .. L /\ m - 1 \in 1 .. L + 1 /\ (m - 1) - 1 \in Nat
          /\ ((m - 1) - 1) + 1 = m - 1
      BY <2>1, <1>1
    <3>2. f[m - 1] = f[(m - 1) - 1] + t[m - 1]
      BY <3>1, <1>6
    <3> QED
      BY <3>1, <3>2, <1>3
  <2>2. 1 - 1 = 0 /\ f[0] = 0
    BY <1>5 DEF Recurre
  <2> QED
    BY <2>1, <2>2
<1>8. E(BaseStick)
  <2>1. BaseStick = CHOOSE x : E(x)
    BY DEF BaseStick
  <2> HIDE DEF E, g
  <2> QED
    BY <1>7, <2>1
<1>9. BaseStick[1] = 0
  BY <1>8, <1>1
<1>10. ASSUME NEW m \in 1 .. L PROVE BaseStick[m + 1] = BaseStick[m] + TamanioStick[m]
  <2>1. m + 1 \in 1 .. L + 1 /\ m + 1 # 1 /\ (m + 1) - 1 = m
    BY <1>1
  <2> QED
    BY <2>1, <1>8
<1> DEFINE T == {k \in Nat : k <= L => BaseStick[k + 1] \in Nat}
<1>11. 0 \in T
  BY <1>9
<1>12. ASSUME NEW k \in T PROVE k + 1 \in T
  <2> SUFFICES ASSUME k + 1 <= L PROVE BaseStick[(k + 1) + 1] \in Nat
    OBVIOUS
  <2>1. k + 1 \in 1 .. L /\ k <= L
    BY <1>1
  <2>2. BaseStick[k + 1] \in Nat
    BY <2>1
  <2>3. BaseStick[(k + 1) + 1] = BaseStick[k + 1] + TamanioStick[k + 1]
    BY <2>1, <1>10
  <2>4. TamanioStick[k + 1] \in Nat
    BY <2>1, <1>1
  <2> QED
    BY <2>2, <2>3, <2>4
<1>13. T \subseteq Nat
  OBVIOUS
<1>14. T = Nat
  <2> HIDE DEF T
  <2> QED
    BY <1>11, <1>12, <1>13, Induccion
<1>15. ASSUME NEW m \in 1 .. L + 1 PROVE BaseStick[m] \in Nat
  <2>1. m - 1 \in Nat /\ m - 1 <= L /\ (m - 1) + 1 = m
    BY <1>1
  <2>2. m - 1 \in T
    BY <2>1, <1>14
  <2> QED
    BY <2>1, <2>2
<1>16. BaseStick = [m \in 1 .. L + 1 |-> BaseStick[m]]
  BY <1>8
<1>17. BaseStick \in [1 .. L + 1 -> Nat]
  BY <1>15, <1>16
<1> QED
  BY <1>1, <1>9, <1>10, <1>17 DEF Sticks

LEMMA SticksHasta ==
    ASSUME NEW m \in Sticks
    PROVE  /\ m \in Nat /\ m + 1 \in Nat
           /\ m \in 1 .. Len(TamanioStick) + 1 /\ m + 1 \in 1 .. Len(TamanioStick) + 1
           /\ BaseStick[m] \in Nat /\ BaseStick[m + 1] \in Nat /\ BaseStick[m] < BaseStick[m + 1]
<1>1. Len(TamanioStick) \in Nat /\ m \in 1 .. Len(TamanioStick)
  BY BaseStickValores DEF Sticks
<1>2. m \in 1 .. Len(TamanioStick) + 1 /\ m + 1 \in 1 .. Len(TamanioStick) + 1
  BY <1>1
<1>3. /\ BaseStick[m] \in Nat /\ TamanioStick[m] \in Nat \ {0}
      /\ BaseStick[m + 1] = BaseStick[m] + TamanioStick[m]
  BY <1>2, BaseStickValores
<1> QED
  BY <1>1, <1>2, <1>3

LEMMA BaseStickCrece ==
    ASSUME NEW m \in 1 .. Len(TamanioStick) + 1, NEW n \in 1 .. Len(TamanioStick) + 1, m <= n
    PROVE  BaseStick[m] <= BaseStick[n]
<1> DEFINE L == Len(TamanioStick)
           T == {k \in Nat : m <= k /\ k <= L + 1 => BaseStick[m] <= BaseStick[k]}
<1>1. L \in Nat /\ m \in Nat /\ m # 0
  BY BaseStickValores
<1>2. 0 \in T
  BY <1>1
<1>3. ASSUME NEW k \in T PROVE k + 1 \in T
  <2> SUFFICES ASSUME m <= k + 1, k + 1 <= L + 1 PROVE BaseStick[m] <= BaseStick[k + 1]
    OBVIOUS
  <2>1. BaseStick[m] \in Nat
    BY BaseStickValores
  <2>2. CASE m = k + 1
    BY <2>1, <2>2
  <2>3. CASE m <= k
    <3>1. k \in Sticks /\ k <= L + 1
      BY <1>1, <2>3 DEF Sticks
    <3>2. BaseStick[k] \in Nat /\ BaseStick[k + 1] \in Nat /\ BaseStick[k] < BaseStick[k + 1]
      BY <3>1, SticksHasta
    <3>3. BaseStick[m] <= BaseStick[k]
      BY <2>3, <3>1
    <3> QED
      BY <2>1, <3>2, <3>3
  <2> QED
    BY <1>1, <2>2, <2>3
<1>4. T \subseteq Nat
  OBVIOUS
<1>5. T = Nat
  <2> HIDE DEF T
  <2> QED
    BY <1>2, <1>3, <1>4, Induccion
<1>6. n \in T /\ n <= L + 1
  BY <1>1, <1>5
<1> QED
  BY <1>6

\* Every address is in one stick.
LEMMA StickDeBien ==
    ASSUME NEW a \in Direcciones
    PROVE  /\ StickDe(a) \in Sticks
           /\ a \in Nat /\ FinStick(a) \in Nat
           /\ BaseStick[StickDe(a)] <= a /\ a < FinStick(a)
           /\ FinStick(a) <= BaseStick[Len(TamanioStick) + 1]
<1> DEFINE L == Len(TamanioStick)
           T == {m \in 1 .. L + 1 : a < BaseStick[m]}
<1>1. /\ L \in Nat /\ L + 1 \in 1 .. L + 1
      /\ BaseStick[1] = 0 /\ BaseStick[L + 1] \in Nat
  <2>1. L \in Nat
    BY BaseStickValores
  <2>2. L + 1 \in 1 .. L + 1
    BY <2>1
  <2> QED
    BY <2>1, <2>2, BaseStickValores
<1>2. a \in Nat /\ a < BaseStick[L + 1]
  BY <1>1 DEF Direcciones
<1>3. PICK m \in T : \A n \in T : m <= n
  <2>1. T \subseteq Nat /\ L + 1 \in T
    BY <1>1, <1>2
  <2> HIDE DEF T
  <2> QED
    BY <2>1, Minimo
<1>4. m # 1 /\ m \in 1 .. L + 1 /\ a < BaseStick[m]
  BY <1>1, <1>2, <1>3
<1>5. m - 1 \in Sticks /\ (m - 1) + 1 = m /\ m - 1 \in 1 .. L + 1 /\ ~(m <= m - 1)
  BY <1>1, <1>4 DEF Sticks
<1>6. BaseStick[m - 1] <= a
  <2>1. m - 1 \notin T
    BY <1>3, <1>5
  <2>2. BaseStick[m - 1] \in Nat
    BY <1>5, SticksHasta
  <2> QED
    BY <1>2, <1>5, <2>1, <2>2
<1>7. \E n \in Sticks : BaseStick[n] <= a /\ a < BaseStick[n + 1]
  BY <1>4, <1>5, <1>6
<1>8. /\ StickDe(a) \in Sticks
      /\ BaseStick[StickDe(a)] <= a /\ a < BaseStick[StickDe(a) + 1]
  BY <1>7 DEF StickDe
<1>9. /\ BaseStick[StickDe(a) + 1] \in Nat /\ StickDe(a) + 1 \in 1 .. L + 1
      /\ StickDe(a) + 1 <= L + 1
  BY <1>1, <1>8, SticksHasta
<1>10. BaseStick[StickDe(a) + 1] <= BaseStick[L + 1]
  BY <1>1, <1>9, BaseStickCrece
<1> QED
  BY <1>2, <1>8, <1>9, <1>10 DEF FinStick

-----------------------------------------------------------------------------
(* Counting the cells below an address *)

Debajo(S, a) == {d \in S : d < a}
Cuantas(S, a) == Cardinality(Debajo(S, a))

LEMMA DebajoFinito ==
    ASSUME NEW S, IsFiniteSet(S), NEW a
    PROVE  /\ IsFiniteSet(Debajo(S, a)) /\ Cuantas(S, a) \in Nat
           /\ Cardinality(S) \in Nat /\ Cuantas(S, a) <= Cardinality(S)
<1>1. Debajo(S, a) \in SUBSET S
  BY DEF Debajo
<1>2. IsFiniteSet(Debajo(S, a)) /\ Cardinality(Debajo(S, a)) <= Cardinality(S)
  BY <1>1, FS_Subset
<1> QED
  BY <1>2, FS_CardinalityType DEF Cuantas

LEMMA CuantasCrece ==
    ASSUME NEW S, IsFiniteSet(S), S \subseteq Nat, NEW a \in S, NEW b \in Nat, a < b
    PROVE  Cuantas(S, a) < Cuantas(S, b)
<1>1. IsFiniteSet(Debajo(S, b)) /\ Cuantas(S, a) \in Nat /\ Cuantas(S, b) \in Nat
  BY DebajoFinito
<1>2. Debajo(S, a) \in SUBSET Debajo(S, b)
  <2>1. ASSUME NEW d \in S, d < a PROVE d < b
    <3>1. d \in Nat /\ a \in Nat
      OBVIOUS
    <3> QED
      BY <2>1, <3>1
  <2> QED
    BY <2>1 DEF Debajo
<1>3. Debajo(S, a) # Debajo(S, b)
  <2>1. a \in Debajo(S, b) /\ a \notin Debajo(S, a)
    BY DEF Debajo
  <2> QED
    BY <2>1
<1>4. /\ Cardinality(Debajo(S, a)) <= Cardinality(Debajo(S, b))
      /\ Cardinality(Debajo(S, a)) # Cardinality(Debajo(S, b))
  BY <1>1, <1>2, <1>3, FS_Subset
<1> QED
  BY <1>1, <1>4 DEF Cuantas

\* The cells of an interval are counted one by one.
LEMMA CuantasIntervalo ==
    ASSUME NEW S, IsFiniteSet(S), S \subseteq Nat, NEW b \in Nat, NEW n \in Nat,
           b .. b + n - 1 \subseteq S
    PROVE  Cuantas(S, b + n) = Cuantas(S, b) + n
<1> DEFINE I == b .. b + n - 1
<1>1. IsFiniteSet(I) /\ Cardinality(I) = n
  <2>1. b \in Int /\ b + n - 1 \in Int
    OBVIOUS
  <2>2. IsFiniteSet(I) /\ Cardinality(I) = IF b > b + n - 1 THEN 0 ELSE (b + n - 1) - b + 1
    BY <2>1, FS_Interval
  <2> QED
    BY <2>2
<1>2. Debajo(S, b + n) = Debajo(S, b) \cup I
  <2>1. ASSUME NEW d \in S PROVE d < b + n <=> d < b \/ d \in I
    <3>1. d \in Nat
      OBVIOUS
    <3> QED
      BY <3>1
  <2>2. I \subseteq S
    OBVIOUS
  <2> HIDE DEF I
  <2> QED
    BY <2>1, <2>2 DEF Debajo
<1>3. Debajo(S, b) \cap I = {}
  BY DEF Debajo
<1>4. IsFiniteSet(Debajo(S, b)) /\ Cuantas(S, b) \in Nat
  BY DebajoFinito
<1>5. Cardinality(Debajo(S, b) \cup I)
      = Cardinality(Debajo(S, b)) + Cardinality(I) - Cardinality(Debajo(S, b) \cap I)
  BY <1>1, <1>4, FS_Union
<1>6. Cardinality(Debajo(S, b) \cap I) = 0
  BY <1>3, FS_EmptySet
<1>7. /\ Cuantas(S, b + n) = Cardinality(Debajo(S, b) \cup I)
      /\ Cuantas(S, b) = Cardinality(Debajo(S, b))
  BY <1>2 DEF Cuantas
<1> HIDE DEF I
<1> QED
  BY <1>1, <1>4, <1>5, <1>6, <1>7

\* Packing is onto: below the number of cells every address is the new one of some cell.
LEMMA CuantasLlena ==
    ASSUME NEW S, IsFiniteSet(S), S \subseteq Nat, NEW a \in Nat, a < Cardinality(S)
    PROVE  \E d \in S : Cuantas(S, d) = a
<1> DEFINE n == Cardinality(S)
           D == 0 .. n - 1
           f == [d \in S |-> Cuantas(S, d)]
<1>1. n \in Nat
  BY FS_CardinalityType
<1>2. IsFiniteSet(D) /\ Cardinality(D) = n
  <2>1. 0 \in Int /\ n - 1 \in Int
    BY <1>1
  <2>2. IsFiniteSet(D) /\ Cardinality(D) = IF 0 > n - 1 THEN 0 ELSE (n - 1) - 0 + 1
    BY <2>1, FS_Interval
  <2> QED
    BY <1>1, <2>2
<1>3. ASSUME NEW d \in S PROVE Cuantas(S, d) \in D
  <2>1. d \in Nat /\ d + 1 \in Nat /\ d < d + 1
    OBVIOUS
  <2>2. Cuantas(S, d) < Cuantas(S, d + 1)
    BY <2>1, CuantasCrece
  <2>3. /\ Cuantas(S, d) \in Nat /\ Cuantas(S, d + 1) \in Nat
        /\ Cuantas(S, d + 1) <= Cardinality(S)
    BY DebajoFinito
  <2> QED
    BY <1>1, <2>2, <2>3
<1>4. ASSUME NEW d \in S, NEW e \in S, Cuantas(S, d) = Cuantas(S, e) PROVE d = e
  <2>1. d \in Nat /\ e \in Nat /\ Cuantas(S, d) \in Nat
    BY DebajoFinito
  <2>2. CASE d < e
    <3>1. Cuantas(S, d) < Cuantas(S, e)
      BY <2>1, <2>2, CuantasCrece
    <3> QED
      BY <1>4, <2>1, <3>1
  <2>3. CASE e < d
    <3>1. Cuantas(S, e) < Cuantas(S, d)
      BY <2>1, <2>3, CuantasCrece
    <3> QED
      BY <1>4, <2>1, <3>1
  <2> QED
    BY <2>1, <2>2, <2>3
<1>5. f \in [S -> D]
  BY <1>3
<1>6. f \in Injection(S, D)
  <2>1. \A d, e \in S : f[d] = f[e] => d = e
    BY <1>4
  <2> HIDE DEF f, D
  <2> QED
    BY <1>5, <2>1 DEF Injection, IsInjective
<1>7. f \in Surjection(S, D)
  <2> HIDE DEF f, D
  <2> QED
    BY <1>2, <1>6, FS_Injection
<1>8. a \in D
  BY <1>1
<1>9. \E d \in S : f[d] = a
  <2> HIDE DEF f, D
  <2> QED
    BY <1>7, <1>8 DEF Surjection
<1> QED
  BY <1>9

-----------------------------------------------------------------------------
(* The MMU, and a segment that is freed *)

LEMMA RestoMenor ==
    ASSUME NEW a \in Nat, NEW b \in Nat \ {0}
    PROVE  a % b \in Nat /\ a % b < b
OBVIOUS

\* What the MMU answers is an address inside the segment it found, as far as the sum it
\* compares with the size can tell.
LEMMA TraducirBien ==
    ASSUME NEW tabla \in Seq(Segmento), NEW max \in Nat \ {0}, NEW dir \in Nat, NEW tam \in Nat,
           Traducir(tabla, max, dir, tam) # Nadie
    PROVE  \E k \in 1 .. Len(tabla) :
               /\ Traducir(tabla, max, dir, tam) = tabla[k].base + (dir % max)
               /\ ((dir % max) + tam) % Potencia[Ancho] <= tabla[k].tam
<1> DEFINE I == {i \in 1 .. Len(tabla) : tabla[i].id = dir \div max}
           k == IF I # {} THEN Min(I) ELSE 0
<1>1. Traducir(tabla, max, dir, tam) =
        IF k = 0 \/ ((dir % max) + tam) % Potencia[Ancho] > tabla[k].tam THEN Nadie
        ELSE tabla[k].base + (dir % max)
  BY DEF Traducir, SelectInSeq
<1>2. k # 0 /\ ~(((dir % max) + tam) % Potencia[Ancho] > tabla[k].tam)
  BY <1>1
<1>3. I # {} /\ I \subseteq Nat /\ I \subseteq 1 .. Len(tabla)
  BY <1>2
<1>4. \E i \in I : \A j \in I : i <= j
  <2> HIDE DEF I
  <2> QED
    BY <1>3, Minimo
<1>5. Min(I) \in I
  <2> HIDE DEF I
  <2> QED
    BY <1>4 DEF Min
<1>6. k \in 1 .. Len(tabla)
  <2> HIDE DEF I
  <2> QED
    BY <1>3, <1>5
<1>7. ((dir % max) + tam) % Potencia[Ancho] \in Nat /\ tabla[k].tam \in Nat
  <2>1. Potencia[Ancho] \in Nat \ {0}
    BY Palabras
  <2>2. (dir % max) + tam \in Nat
    BY RestoMenor
  <2>3. ((dir % max) + tam) % Potencia[Ancho] \in Nat
    BY <2>1, <2>2, RestoMenor
  <2>4. tabla[k] \in Segmento
    BY <1>6
  <2>5. tabla[k].tam \in Nat
    BY <2>4 DEF Segmento
  <2> QED
    BY <2>3, <2>5
<1> HIDE DEF k, I
<1> QED
  BY <1>1, <1>2, <1>6, <1>7

\* The table without the first segment of a number.
SinElDe(tabla, id) == LET esEse(s) == s.id = id IN RemoveFirstMatch(tabla, esEse)

\* t is s without its element number k.
QuitadoDe(t, s, k) ==
    /\ Len(t) = Len(s) - 1
    /\ \A i \in 1 .. Len(t) : t[i] = IF i < k THEN s[i] ELSE s[i + 1]

LEMMA SinElDeBien ==
    ASSUME NEW tabla \in Seq(Segmento), NEW id
    PROVE  /\ SinElDe(tabla, id) \in Seq(Segmento)
           /\ \/ SinElDe(tabla, id) = tabla
              \/ \E k \in 1 .. Len(tabla) : QuitadoDe(SinElDe(tabla, id), tabla, k)
<1> DEFINE I == {i \in 1 .. Len(tabla) : tabla[i].id = id}
           k == IF I # {} THEN Min(I) ELSE 0
<1>1. SinElDe(tabla, id) = IF \E i \in 1 .. Len(tabla) : tabla[i].id = id
                           THEN SubSeq(tabla, 1, k - 1) \o SubSeq(tabla, k + 1, Len(tabla))
                           ELSE tabla
  BY DEF SinElDe, RemoveFirstMatch, RemoveAt, SelectInSeq
<1>2. CASE I = {}
  BY <1>1, <1>2
<1>3. CASE I # {}
  <2>1. I \subseteq Nat
    OBVIOUS
  <2>2. \E i \in I : \A j \in I : i <= j
    <3> HIDE DEF I
    <3> QED
      BY <1>3, <2>1, Minimo
  <2>3. Min(I) \in I
    <3> HIDE DEF I
    <3> QED
      BY <2>2 DEF Min
  <2>4. k \in 1 .. Len(tabla)
    BY <1>3, <2>3
  <2>5. SinElDe(tabla, id) = SubSeq(tabla, 1, k - 1) \o SubSeq(tabla, k + 1, Len(tabla))
    BY <1>1, <1>3
  <2> HIDE DEF k, I
  <2> DEFINE u == SubSeq(tabla, 1, k - 1)
             v == SubSeq(tabla, k + 1, Len(tabla))
  <2>6. /\ u \in Seq(Segmento) /\ Len(u) = k - 1
        /\ \A i \in 1 .. k - 1 : u[i] = tabla[i]
    BY <2>4
  <2>7. /\ v \in Seq(Segmento) /\ Len(v) = Len(tabla) - k
        /\ \A i \in 1 .. Len(tabla) - k : v[i] = tabla[i + k]
    BY <2>4
  <2> HIDE DEF u, v
  <2>8. u \o v \in Seq(Segmento) /\ Len(u \o v) = Len(tabla) - 1
    BY <2>4, <2>6, <2>7
  <2>9. ASSUME NEW i \in 1 .. Len(tabla) - 1
        PROVE  (u \o v)[i] = IF i < k THEN tabla[i] ELSE tabla[i + 1]
    <3>1. CASE i < k
      <4>1. i \in 1 .. k - 1 /\ i \in 1 .. Len(u)
        BY <2>4, <2>6, <3>1
      <4> QED
        BY <2>6, <2>7, <3>1, <4>1
    <3>2. CASE ~(i < k)
      <4>1. /\ i - (k - 1) \in 1 .. Len(tabla) - k
            /\ (i - (k - 1)) + k = i + 1
            /\ i \in 1 .. Len(u) + Len(v) /\ ~(i <= Len(u)) /\ i - Len(u) = i - (k - 1)
        BY <2>4, <2>6, <2>7, <3>2
      <4>2. (u \o v)[i] = v[i - Len(u)]
        BY <2>6, <2>7, <4>1
      <4> QED
        BY <2>7, <3>2, <4>1, <4>2
    <3> QED
      BY <3>1, <3>2
  <2>10. QuitadoDe(u \o v, tabla, k)
    BY <2>8, <2>9 DEF QuitadoDe
  <2> QED
    BY <2>4, <2>5, <2>8, <2>10 DEF u, v
<1> QED
  BY <1>2, <1>3

\* How MEM_FREE uses it.
LEMMA PasoMemFree ==
    ASSUME NEW c \in Cpus, EjecutarMemFree(c)
    PROVE  /\ contextos' = [contextos EXCEPT ![Pid(c)].tabla = SinElDe(@, Actual(c).id)]
           /\ cpu' = [cpu EXCEPT ![c].fase = "interrupt", ![c].ctx.reg = Avanzar(@),
                                 ![c].ctx.tabla = SinElDe(@, Actual(c).id)]
BY DEF EjecutarMemFree, SinElDe

-----------------------------------------------------------------------------
(* The types of what a CPU has, and of memory *)

\* The types of one CPU, and what each phase says of its context and of the access
\* under way: what has been read and what is missing make up the operand.
CpuBien(c) ==
    /\ cpu[c].fase \in Fases
    /\ cpu[c].pid \in Pids \cup {Nadie}
    /\ cpu[c].ctx = Nadie \/ cpu[c].ctx \in Contexto
    /\ cpu[c].sticks \subseteq Sticks
    /\ cpu[c].acceso \in [dir : Nat, falta : Nat, datos : Seq(Byte), fallo : BOOLEAN]
    /\ cpu[c].avisos \in 0 .. 2
    /\ cpu[c].fase \in ConContexto => cpu[c].ctx \in Contexto
    /\ EnUso(c) \/ cpu[c].fase = "espera" => contextos[cpu[c].pid] \in Contexto
    /\ cpu[c].fase = "espera" => compac.quien = c /\ Actual(c).op = "MEM_ALLOC"
    /\ cpu[c].fase = "leyendo" =>
         \/ /\ Actual(c).op = "MOV_IN"
            /\ Len(cpu[c].acceso.datos) + cpu[c].acceso.falta = TamReg(Actual(c).dest)
         \/ /\ Actual(c).op = "COPY_MEM"
            /\ Len(cpu[c].acceso.datos) + cpu[c].acceso.falta = TamCopia(Reg(c), Actual(c))
    /\ cpu[c].fase = "escribiendo" => Len(cpu[c].acceso.datos) = cpu[c].acceso.falta

ContextosBien == \A p \in Pids : contextos[p] = Nadie \/ contextos[p] \in Contexto

Resto ==
    /\ memoria \in [Direcciones -> Byte]
    /\ sticks_km \in Sticks
    /\ ms \subseteq Sticks
    /\ pendientes \in Seq(Sticks)
    /\ estado \in [Pids -> {"READY", "RUNNING", "BLOCK", "EXIT"}]
    /\ desalojo \subseteq Pids
    /\ \A p \in Pids : pedido[p] \in [op : {"nada", "STDIN", "STDOUT"}, dir : Palabra,
                                      tam : Palabra]
    /\ salida \in [Pids -> Seq(Byte)]
    /\ compac \in [valor : BOOLEAN, sem : BOOLEAN, quien : Cpus \cup {Nadie}]
    /\ canal_sano \in BOOLEAN
    /\ perdidos \subseteq Pids

\* Two segments with no cell in common.
Apartados(s, t) ==
    \/ s.tam = 0 \/ t.tam = 0
    \/ s.base + s.tam <= t.base
    \/ t.base + t.tam <= s.base

EnMemoria ==
    \A p \in Pids : \A k \in DOMAIN Tabla(p) : Tabla(p)[k].base + Tabla(p)[k].tam <= Fin

Separados ==
    \A p, q \in Pids : p # q =>
        \A k \in DOMAIN Tabla(p), j \in DOMAIN Tabla(q) : Apartados(Tabla(p)[k], Tabla(q)[j])

HayLugar ==
    \A c \in Cpus : cpu[c].fase = "espera" => Cardinality(Ocupadas) + Actual(c).tam <= Fin

Espacio == EnMemoria /\ Separados /\ HayLugar

\* n bytes from address dir lie in one segment of the table.
EnSegmento(tabla, dir, n) ==
    \E k \in 1 .. Len(tabla) : tabla[k].base <= dir /\ dir + n <= tabla[k].base + tabla[k].tam

\* The same, or after a refusal address 13 and the ones that follow, up to largo.
EnLugar(tabla, largo, fallo, dir, n) ==
    \/ EnSegmento(tabla, dir, n)
    \/ fallo /\ ErrorSegFault <= dir /\ dir + n <= ErrorSegFault + largo

\* Where a COPY_MEM will write: in a segment, unless the MMU refused.
EsDestino(tabla, largo, fallo, destino) ==
    IF destino = Nadie THEN fallo ELSE EnSegmento(tabla, destino, largo)

\* The access of a CPU lies in a segment of its copy, and so will the second half of
\* a COPY_MEM, but for the addresses that a refusal puts in their place.
AccesoBien(c) ==
    LET a == cpu[c].acceso
        tabla == cpu[c].ctx.tabla
        n == TamCopia(Reg(c), Actual(c))
    IN  /\ cpu[c].fase \in {"leyendo", "escribiendo"} =>
               EnLugar(tabla, n, a.fallo, a.dir, a.falta)
        /\ cpu[c].fase = "leyendo" /\ Actual(c).op = "COPY_MEM" =>
               EsDestino(tabla, n, a.fallo, Mmu(c, Reg(c)["DI"], n))

\* The sum the MMU compares with the bound of a segment is one of 32 bits: sizes are
\* such that it does not wrap around.
SinDesborde ==
    /\ SEGMENT_MAX_SIZE + Ancho <= Potencia[Ancho]
    /\ \A c \in Cpus : AntesDe(c, {"COPY_MEM"}) =>
         SEGMENT_MAX_SIZE + TamCopia(Reg(c), Actual(c)) <= Potencia[Ancho]

Tipos == (\A c \in Cpus : CpuBien(c)) /\ ContextosBien /\ Resto

-----------------------------------------------------------------------------
(* Types: what a step has to show *)

LEMMA ContextoTiene ==
    ASSUME NEW x \in Contexto
    PROVE  /\ DOMAIN x = {"reg", "tabla"}
           /\ x.reg \in BancoRegistros /\ x.tabla \in Seq(Segmento)
           /\ \A reg \in BancoRegistros : [x EXCEPT !.reg = reg] \in Contexto
           /\ \A t \in Seq(Segmento) : [x EXCEPT !.tabla = t] \in Contexto
BY DEF Contexto

\* A CPU with a context: its registers, its instruction and its process.
LEMMA ConContextoBien ==
    ASSUME IInv, Tipos, NEW c \in Cpus, cpu[c].fase \in ConContexto
    PROVE  /\ cpu[c].ctx \in Contexto
           /\ Reg(c) \in BancoRegistros /\ cpu[c].ctx.tabla \in Seq(Segmento)
           /\ cpu[c].pid \in Pids /\ cpu[c].pid # Nadie
           /\ BienFormada(Actual(c))
           /\ DOMAIN cpu = Cpus /\ FormaCpu(c)
<1>1. cpu[c].ctx \in Contexto
  BY DEF Tipos, CpuBien
<1>2. Reg(c) \in BancoRegistros /\ cpu[c].ctx.tabla \in Seq(Segmento)
  BY <1>1, ContextoTiene DEF Reg
<1>3. cpu[c].fase \notin {"fuera", "libre"}
  BY DEF ConContexto, Confia
<1>4. cpu[c].pid \in Pids /\ cpu[c].pid # Nadie
  BY <1>3, ConProceso
<1>5. Reg(c)["PC"] \in Nat
  BY <1>2, RegistrosConocidos, BancoTiene
<1>6. BienFormada(Actual(c))
  BY <1>4, <1>5, InstruccionBien DEF Actual, Pid
<1> QED
  BY <1>1, <1>2, <1>4, <1>6 DEF IInv, Forma

\* A CPU that is about to execute.
LEMMA EnFetchBien ==
    ASSUME IInv, Tipos, NEW c \in Cpus, cpu[c].fase = "fetch"
    PROVE  /\ cpu[c].ctx \in Contexto
           /\ Reg(c) \in BancoRegistros /\ cpu[c].ctx.tabla \in Seq(Segmento)
           /\ cpu[c].pid \in Pids /\ cpu[c].pid # Nadie
           /\ BienFormada(Actual(c))
           /\ DOMAIN cpu = Cpus /\ FormaCpu(c)
           /\ contextos[cpu[c].pid] \in Contexto
           /\ ~cpu[c].acceso.fallo
<1>1. cpu[c].fase \in ConContexto
  BY DEF ConContexto, Confia
<1>2. ~cpu[c].acceso.fallo
  BY DEF IInv, SegunFase, EnAcceso, Forma, FormaCpu
<1>3. EnUso(c)
  BY <1>2 DEF EnUso, Confia
<1>4. contextos[cpu[c].pid] \in Contexto
  BY <1>3 DEF Tipos, CpuBien
<1> QED
  BY <1>1, <1>2, <1>4, ConContextoBien

\* A step of CPU c, or of another program on its behalf.
LEMMA BienDeUna ==
    ASSUME IInv, Tipos, NEW c \in Cpus,
           \A d \in Cpus \ {c} : cpu'[d] = cpu[d],
           CpuBien(c)',
           \A p \in Pids \ {cpu[c].pid} :
               /\ \/ contextos'[p] = contextos[p]
                  \/ estado[p] # "RUNNING"
                  \/ contextos'[p] \in Contexto
               /\ p \in desalojo => p \in desalojo',
           compac'.quien = compac.quien \/ compac.quien \in {Nadie, c}
    PROVE  \A d \in Cpus : CpuBien(d)'
<1> SUFFICES ASSUME NEW d \in Cpus, d # c PROVE CpuBien(d)'
  OBVIOUS
<1>1. cpu'[d] = cpu[d]
  OBVIOUS
<1>2. SegunFase(d) /\ FormaCpu(d) /\ CpuBien(d)
  BY DEF IInv, Forma, Tipos
<1>3. /\ Actual(d)' = Actual(d) /\ Reg(d)' = Reg(d)
  BY <1>1 DEF Actual, Pid, Reg
<1>4. ASSUME (EnUso(d))' \/ cpu[d].fase = "espera" PROVE contextos'[cpu[d].pid] \in Contexto
  <2>1. cpu[d].fase \notin {"fuera", "libre"}
    BY <1>1, <1>4 DEF EnUso, Confia
  <2>2. cpu[d].pid \in Pids /\ cpu[d].pid # Nadie
    BY <2>1, ConProceso
  <2>3. cpu[d].pid # cpu[c].pid
    BY <2>2 DEF IInv, UnDuenio
  <2>4. EnUso(d) \/ cpu[d].fase = "espera"
    BY <1>1, <1>4, <2>2, <2>3 DEF EnUso
  <2>5. estado[cpu[d].pid] = "RUNNING" /\ contextos[cpu[d].pid] \in Contexto
    BY <1>2, <2>4 DEF SegunFase, CpuBien
  <2> QED
    BY <2>2, <2>3, <2>5
<1>5. ASSUME cpu[d].fase = "espera" PROVE compac'.quien = d
  <2>1. compac.quien = d
    BY <1>2, <1>5 DEF CpuBien
  <2>2. d # Nadie
    BY CPUAssumption
  <2> QED
    BY <2>1, <2>2
<1> QED
  BY <1>1, <1>2, <1>3, <1>4, <1>5 DEF CpuBien

LEMMA SinAccesoBien ==
    SinAcceso \in [dir : Nat, falta : Nat, datos : Seq(Byte), fallo : BOOLEAN]
BY DEF SinAcceso

\* The CPU goes on to interrupt().
LEMMA CumplidaBien ==
    ASSUME Forma, Tipos, NEW c \in Cpus, NEW reg \in BancoRegistros,
           cpu[c].ctx \in Contexto, cpu' = Cumplida(c, reg),
           cpu[c].pid \notin desalojo' => contextos'[cpu[c].pid] \in Contexto
    PROVE  CpuBien(c)'
<1>1. /\ cpu'[c].fase = "interrupt"
      /\ cpu'[c].pid = cpu[c].pid
      /\ cpu'[c].ctx = [cpu[c].ctx EXCEPT !.reg = reg]
      /\ cpu'[c].sticks = cpu[c].sticks /\ cpu'[c].avisos = cpu[c].avisos
      /\ cpu'[c].acceso = SinAcceso
  BY ContextoTiene DEF Forma, FormaCpu, Cumplida
<1>2. cpu'[c].ctx \in Contexto
  BY <1>1, ContextoTiene
<1>3. ~cpu'[c].acceso.fallo
  BY <1>1 DEF SinAcceso
<1> QED
  BY <1>1, <1>2, <1>3, SinAccesoBien DEF Tipos, CpuBien, EnUso, Fases, Confia

\* A CPU that drops its context.
LEMMA SueltaBien ==
    ASSUME Tipos, NEW c \in Cpus,
           cpu'[c].fase \in {"libre", "finalizando"},
           cpu'[c].pid \in Pids \cup {Nadie}, cpu'[c].ctx = Nadie,
           cpu'[c].sticks = cpu[c].sticks,
           cpu'[c].acceso \in {SinAcceso, cpu[c].acceso}, cpu'[c].avisos \in 0 .. 2
    PROVE  CpuBien(c)'
<1>1. cpu'[c].acceso \in [dir : Nat, falta : Nat, datos : Seq(Byte), fallo : BOOLEAN]
  BY SinAccesoBien DEF Tipos, CpuBien
<1> QED
  BY <1>1 DEF Tipos, CpuBien, EnUso, Fases, ConContexto, Confia

LEMMA LibreBien ==
    ASSUME Forma, Tipos, NEW c \in Cpus, cpu' = Libre(c)
    PROVE  CpuBien(c)'
<1>1. /\ cpu'[c].fase = "libre" /\ cpu'[c].pid = Nadie /\ cpu'[c].ctx = Nadie
      /\ cpu'[c].sticks = cpu[c].sticks /\ cpu'[c].avisos = 0
      /\ cpu'[c].acceso = SinAcceso
  BY DEF Forma, FormaCpu, Libre
<1> QED
  BY <1>1, SueltaBien

LEMMA FinBien ==
    ASSUME Forma, Tipos, NEW c \in Cpus, NEW avisos \in 0 .. 2,
           cpu' = [cpu EXCEPT ![c].fase = "finalizando", ![c].ctx = Nadie,
                              ![c].acceso = SinAcceso, ![c].avisos = avisos]
    PROVE  CpuBien(c)'
<1>1. /\ cpu'[c].fase = "finalizando" /\ cpu'[c].pid = cpu[c].pid /\ cpu'[c].ctx = Nadie
      /\ cpu'[c].sticks = cpu[c].sticks /\ cpu'[c].avisos = avisos
      /\ cpu'[c].acceso = SinAcceso
  BY DEF Forma, FormaCpu
<1> QED
  BY <1>1, SueltaBien DEF Forma, FormaCpu

\* Only the phase changes, to one that says nothing of the access.
LEMMA FaseBien ==
    ASSUME Forma, Tipos, NEW c \in Cpus, NEW fase \in {"guardar", "avisar", "colgada"},
           cpu' = [cpu EXCEPT ![c].fase = fase],
           fase = "guardar" => cpu[c].ctx \in Contexto
    PROVE  CpuBien(c)'
<1>1. /\ cpu'[c].fase = fase /\ cpu'[c].pid = cpu[c].pid /\ cpu'[c].ctx = cpu[c].ctx
      /\ cpu'[c].sticks = cpu[c].sticks /\ cpu'[c].avisos = cpu[c].avisos
      /\ cpu'[c].acceso = cpu[c].acceso
  BY DEF Forma, FormaCpu
<1> QED
  BY <1>1 DEF Tipos, CpuBien, EnUso, Fases, ConContexto, Confia

-----------------------------------------------------------------------------
(* Types: the instructions *)

LEMMA TiposCalculo ==
    ASSUME IInv, Tipos, NEW c \in Cpus, EjecutarCalculo(c)
    PROVE  Tipos'
<1>1. /\ cpu[c].fase = "fetch" /\ Actual(c).op \in Calculos
      /\ cpu' = Cumplida(c, Calcular(Reg(c), Actual(c)))
      /\ UNCHANGED <<contextos, memoria, sticks_km, ms, pendientes, estado, desalojo, pedido,
                     salida, compac, canal_sano, perdidos>>
  BY DEF EjecutarCalculo, AntesDe, En
<1>2. /\ cpu[c].ctx \in Contexto /\ Reg(c) \in BancoRegistros /\ BienFormada(Actual(c))
      /\ contextos[cpu[c].pid] \in Contexto
  BY <1>1, EnFetchBien
<1>3. Calcular(Reg(c), Actual(c)) \in BancoRegistros
  BY <1>1, <1>2, CalcularBanco
<1>4. Forma /\ \A d \in Cpus \ {c} : cpu'[d] = cpu[d]
  BY <1>1 DEF IInv, Forma, Cumplida
<1>5. CpuBien(c)'
  BY <1>1, <1>2, <1>3, <1>4, CumplidaBien
<1>6. \A d \in Cpus : CpuBien(d)'
  BY <1>1, <1>4, <1>5, BienDeUna
<1>7. ContextosBien' /\ Resto'
  BY <1>1 DEF Tipos, ContextosBien, Resto
<1> QED
  BY <1>6, <1>7 DEF Tipos

\* What Acceder and SegFault leave, in the instructions that begin an access.
LEMMA TiposSegFault ==
    ASSUME IInv, Tipos, NEW c \in Cpus, cpu[c].fase = "fetch", SegFault(c)
    PROVE  Tipos'
<1>1. /\ estado' = [estado EXCEPT ![cpu[c].pid] = "EXIT"]
      /\ cpu' = [cpu EXCEPT ![c].fase = "finalizando", ![c].ctx = Nadie,
                            ![c].acceso = SinAcceso, ![c].avisos = 1]
      /\ UNCHANGED <<contextos, memoria, sticks_km, ms, pendientes, desalojo, pedido,
                     salida, compac, canal_sano, perdidos>>
  BY DEF SegFault, Pid
<1>2. Forma /\ \A d \in Cpus \ {c} : cpu'[d] = cpu[d]
  BY <1>1 DEF IInv, Forma
<1>3. CpuBien(c)'
  <2>1. 1 \in 0 .. 2
    OBVIOUS
  <2> QED
    BY <1>1, <1>2, <2>1, FinBien
<1>4. \A d \in Cpus : CpuBien(d)'
  BY <1>1, <1>2, <1>3, BienDeUna
<1>5. ContextosBien'
  BY <1>1 DEF Tipos, ContextosBien
<1>6. estado' \in [Pids -> {"READY", "RUNNING", "BLOCK", "EXIT"}]
  BY <1>1 DEF Tipos, Resto
<1>7. Resto'
  BY <1>1, <1>6 DEF Tipos, Resto
<1> QED
  BY <1>4, <1>5, <1>7 DEF Tipos

\* The phase and the access change, and what CpuBien says of them holds.
LEMMA AccesoValeBien ==
    ASSUME IInv, Tipos, NEW c \in Cpus, cpu[c].fase \in Confia,
           NEW fase \in {"leyendo", "escribiendo"},
           NEW acceso \in [dir : Nat, falta : Nat, datos : Seq(Byte), fallo : BOOLEAN],
           cpu[c].acceso.fallo => acceso.fallo,
           cpu'[c].fase = fase, cpu'[c].pid = cpu[c].pid, cpu'[c].ctx = cpu[c].ctx,
           cpu'[c].sticks = cpu[c].sticks, cpu'[c].acceso = acceso,
           cpu'[c].avisos \in 0 .. 2,
           UNCHANGED <<contextos, compac>>,
           fase = "leyendo" =>
             \/ /\ Actual(c).op = "MOV_IN"
                /\ Len(acceso.datos) + acceso.falta = TamReg(Actual(c).dest)
             \/ /\ Actual(c).op = "COPY_MEM"
                /\ Len(acceso.datos) + acceso.falta = TamCopia(Reg(c), Actual(c)),
           fase = "escribiendo" => Len(acceso.datos) = acceso.falta
    PROVE  CpuBien(c)'
<1>1. Forma /\ FormaCpu(c) /\ CpuBien(c)
  BY DEF IInv, Forma, Tipos
<1>2. Actual(c)' = Actual(c) /\ Reg(c)' = Reg(c)
  BY DEF Actual, Pid, Reg
<1>3. cpu[c].ctx \in Contexto
  BY <1>1 DEF CpuBien, ConContexto
<1>4. EnUso(c)' => EnUso(c)
  BY <1>1 DEF EnUso, FormaCpu
<1>5. fase \in Fases /\ fase # "espera"
  BY DEF Fases, Confia
<1> QED
  BY <1>1, <1>2, <1>3, <1>4, <1>5 DEF CpuBien

LEMMA AccesoCambiaBien ==
    ASSUME IInv, Tipos, NEW c \in Cpus, cpu[c].fase \in Confia,
           NEW fase \in {"leyendo", "escribiendo"},
           NEW acceso \in [dir : Nat, falta : Nat, datos : Seq(Byte), fallo : BOOLEAN],
           cpu[c].acceso.fallo => acceso.fallo,
           NEW avisos \in 0 .. 2,
           cpu' = [cpu EXCEPT ![c].fase = fase, ![c].acceso = acceso, ![c].avisos = avisos],
           UNCHANGED <<contextos, compac>>,
           fase = "leyendo" =>
             \/ /\ Actual(c).op = "MOV_IN"
                /\ Len(acceso.datos) + acceso.falta = TamReg(Actual(c).dest)
             \/ /\ Actual(c).op = "COPY_MEM"
                /\ Len(acceso.datos) + acceso.falta = TamCopia(Reg(c), Actual(c)),
           fase = "escribiendo" => Len(acceso.datos) = acceso.falta
    PROVE  CpuBien(c)' /\ \A d \in Cpus \ {c} : cpu'[d] = cpu[d]
<1>1. /\ cpu'[c].fase = fase /\ cpu'[c].pid = cpu[c].pid /\ cpu'[c].ctx = cpu[c].ctx
      /\ cpu'[c].sticks = cpu[c].sticks /\ cpu'[c].avisos = avisos
      /\ cpu'[c].acceso = acceso
      /\ \A d \in Cpus \ {c} : cpu'[d] = cpu[d]
  BY DEF IInv, Forma, FormaCpu
<1> QED
  BY <1>1, AccesoValeBien

LEMMA TiposAcceder ==
    ASSUME IInv, Tipos, NEW c \in Cpus, cpu[c].fase = "fetch",
           NEW fase \in {"leyendo", "escribiendo"}, NEW dir \in Nat, NEW n \in Nat,
           NEW datos \in Seq(Byte), Acceder(c, fase, dir, n, datos),
           fase = "leyendo" => /\ Actual(c).op = "MOV_IN"
                               /\ Len(datos) + n = TamReg(Actual(c).dest),
           fase = "escribiendo" => Len(datos) = n
    PROVE  Tipos'
<1>1. /\ cpu[c].ctx \in Contexto /\ Reg(c) \in BancoRegistros /\ cpu[c].pid \in Pids
      /\ contextos[cpu[c].pid] \in Contexto /\ ~cpu[c].acceso.fallo
  BY EnFetchBien
<1>2. UNCHANGED <<contextos, memoria, sticks_km, ms, pendientes, estado, desalojo, pedido,
                  salida, compac, canal_sano>>
  BY DEF Acceder
<1>3. perdidos' \subseteq Pids
  BY <1>1 DEF Acceder, Pid, Tipos, Resto
<1>4. Forma /\ FormaCpu(c)
  BY DEF IInv, Forma
<1>5. CpuBien(c)' /\ \A d \in Cpus \ {c} : cpu'[d] = cpu[d]
  <2>1. CASE dir = ErrorSegFault
    <3>1. cpu' = Cumplida(c, Avanzar(Reg(c)))
      BY <2>1 DEF Acceder
    <3>2. Avanzar(Reg(c)) \in BancoRegistros
      BY <1>1, AvanzarBanco
    <3>3. CpuBien(c)'
      BY <1>1, <1>2, <1>4, <3>1, <3>2, CumplidaBien
    <3> QED
      BY <1>4, <3>1, <3>3 DEF Forma, Cumplida
  <2>2. CASE dir # ErrorSegFault
    <3> DEFINE a == [dir |-> dir, falta |-> n, datos |-> datos, fallo |-> FALSE]
    <3>1. /\ cpu[c].avisos \in 0 .. 2
          /\ cpu' = [cpu EXCEPT ![c].fase = fase, ![c].acceso = a, ![c].avisos = cpu[c].avisos]
      <4>1. cpu' = [cpu EXCEPT ![c].fase = fase, ![c].acceso = a]
        BY <2>2 DEF Acceder
      <4>2. cpu[c].avisos \in 0 .. 2
        BY DEF Tipos, CpuBien
      <4>3. c \in DOMAIN cpu /\ "avisos" \in DOMAIN cpu[c]
        BY <1>4 DEF Forma, FormaCpu
      <4> HIDE DEF a
      <4>4. [cpu EXCEPT ![c].fase = fase, ![c].acceso = a]
              = [cpu EXCEPT ![c].fase = fase, ![c].acceso = a, ![c].avisos = cpu[c].avisos]
        BY <4>3
      <4> QED
        BY <4>1, <4>2, <4>4
    <3>2. /\ a \in [dir : Nat, falta : Nat, datos : Seq(Byte), fallo : BOOLEAN]
          /\ a.falta = n /\ a.datos = datos /\ a.fallo = FALSE
      OBVIOUS
    <3>3. cpu[c].fase \in Confia /\ cpu[c].acceso.fallo = FALSE
      BY <1>1, <1>4 DEF Confia, FormaCpu
    <3> HIDE DEF a
    <3> QED
      BY <1>2, <3>1, <3>2, <3>3, AccesoCambiaBien
  <2> QED
    BY <2>1, <2>2
<1>6. \A d \in Cpus : CpuBien(d)'
  BY <1>2, <1>5, BienDeUna
<1>7. ContextosBien' /\ Resto'
  BY <1>2, <1>3 DEF Tipos, ContextosBien, Resto
<1> QED
  BY <1>6, <1>7 DEF Tipos

\* What the MMU of a CPU answers is an address.
LEMMA MmuBien ==
    ASSUME IInv, Tipos, NEW c \in Cpus, cpu[c].fase \in ConContexto,
           NEW r \in {"SI", "DI"}, NEW n \in Nat, Mmu(c, Reg(c)[r], n) # Nadie
    PROVE  /\ Reg(c)[r] \in Nat /\ Mmu(c, Reg(c)[r], n) \in Nat
           /\ \E k \in 1 .. Len(cpu[c].ctx.tabla) :
                LET s == cpu[c].ctx.tabla[k]
                    d == Reg(c)[r] % SEGMENT_MAX_SIZE
                IN  /\ Mmu(c, Reg(c)[r], n) = s.base + d
                    /\ (d + n) % Potencia[Ancho] <= s.tam
<1>1. Reg(c) \in BancoRegistros /\ cpu[c].ctx.tabla \in Seq(Segmento)
  BY ConContextoBien
<1>2. Reg(c)[r] \in Nat
  <2>1. r \in Registros
    BY RegistrosConocidos
  <2> QED
    BY <1>1, <2>1, BancoTiene
<1>3. TAM_MAX_SEGMENTO \in Nat \ {0} /\ TAM_MAX_SEGMENTO = SEGMENT_MAX_SIZE
  BY CPUAssumption
<1>4. Mmu(c, Reg(c)[r], n) = Traducir(cpu[c].ctx.tabla, TAM_MAX_SEGMENTO, Reg(c)[r], n)
  BY DEF Mmu
<1>5. \E k \in 1 .. Len(cpu[c].ctx.tabla) :
         /\ Traducir(cpu[c].ctx.tabla, TAM_MAX_SEGMENTO, Reg(c)[r], n)
              = cpu[c].ctx.tabla[k].base + (Reg(c)[r] % TAM_MAX_SEGMENTO)
         /\ ((Reg(c)[r] % TAM_MAX_SEGMENTO) + n) % Potencia[Ancho] <= cpu[c].ctx.tabla[k].tam
  BY <1>1, <1>2, <1>3, <1>4, TraducirBien
<1>6. PICK k \in 1 .. Len(cpu[c].ctx.tabla) :
         /\ Mmu(c, Reg(c)[r], n) = cpu[c].ctx.tabla[k].base + (Reg(c)[r] % SEGMENT_MAX_SIZE)
         /\ ((Reg(c)[r] % SEGMENT_MAX_SIZE) + n) % Potencia[Ancho] <= cpu[c].ctx.tabla[k].tam
  BY <1>3, <1>4, <1>5
<1>7. Mmu(c, Reg(c)[r], n) \in Nat
  <2>1. cpu[c].ctx.tabla[k] \in Segmento
    BY <1>1
  <2>2. cpu[c].ctx.tabla[k].base \in Nat
    BY <2>1 DEF Segmento
  <2>3. Reg(c)[r] % SEGMENT_MAX_SIZE \in Nat
    BY <1>2, <1>3, RestoMenor
  <2> QED
    BY <1>6, <2>2, <2>3
<1> QED
  BY <1>2, <1>6, <1>7

LEMMA TiposMovIn ==
    ASSUME IInv, Tipos, NEW c \in Cpus, EjecutarMovIn(c)
    PROVE  Tipos'
<1> DEFINE n == TamReg(Actual(c).dest)
           dir == Mmu(c, Reg(c)["SI"], n)
<1>1. /\ cpu[c].fase = "fetch" /\ Actual(c).op = "MOV_IN"
      /\ IF dir = Nadie THEN SegFault(c) ELSE Acceder(c, "leyendo", dir, n, <<>>)
  BY DEF EjecutarMovIn, AntesDe, En
<1>2. Actual(c).dest \in Registros
  BY <1>1, EnFetchBien DEF BienFormada
<1>3. n \in Nat
  BY <1>2, AnchoDeRegistro
<1>4. cpu[c].fase \in ConContexto
  BY <1>1 DEF ConContexto, Confia
<1>5. CASE dir = Nadie
  BY <1>1, <1>5, TiposSegFault
<1>6. CASE dir # Nadie
  <2>1. dir \in Nat
    BY <1>3, <1>4, <1>6, MmuBien
  <2>2. Acceder(c, "leyendo", dir, n, <<>>)
    BY <1>1, <1>6
  <2>3. <<>> \in Seq(Byte) /\ Len(<<>>) + n = n
    BY <1>3
  <2>4. n = TamReg(Actual(c).dest)
    OBVIOUS
  <2> HIDE DEF n, dir
  <2> QED
    BY <1>1, <1>3, <2>1, <2>2, <2>3, <2>4, TiposAcceder
<1> QED
  BY <1>5, <1>6

LEMMA TiposMovOut ==
    ASSUME IInv, Tipos, NEW c \in Cpus, EjecutarMovOut(c)
    PROVE  Tipos'
<1> DEFINE n == TamReg(Actual(c).orig)
           dir == Mmu(c, Reg(c)["DI"], n)
           datos == EnBytes(Reg(c)[Actual(c).orig], n)
<1>1. /\ cpu[c].fase = "fetch" /\ Actual(c).op = "MOV_OUT"
      /\ IF dir = Nadie THEN SegFault(c) ELSE Acceder(c, "escribiendo", dir, n, datos)
  BY DEF EjecutarMovOut, AntesDe, En
<1>2. Actual(c).orig \in Registros
  BY <1>1, EnFetchBien DEF BienFormada
<1>3. n \in Nat
  BY <1>2, AnchoDeRegistro
<1>4. cpu[c].fase \in ConContexto
  BY <1>1 DEF ConContexto, Confia
<1>5. CASE dir = Nadie
  BY <1>1, <1>5, TiposSegFault
<1>6. CASE dir # Nadie
  <2>1. dir \in Nat
    BY <1>3, <1>4, <1>6, MmuBien
  <2>2. Acceder(c, "escribiendo", dir, n, datos)
    BY <1>1, <1>6
  <2>3. Reg(c)[Actual(c).orig] \in Nat
    BY <1>1, <1>2, EnFetchBien, BancoTiene
  <2>4. datos \in Seq(Byte) /\ Len(datos) = n
    BY <1>3, <2>3, EnBytesBien
  <2> HIDE DEF n, dir, datos
  <2> QED
    BY <1>1, <1>3, <2>1, <2>2, <2>4, TiposAcceder
<1> QED
  BY <1>5, <1>6

LEMMA TamCopiaBien ==
    ASSUME NEW reg \in BancoRegistros, NEW i, BienFormada(i), i.op = "COPY_MEM"
    PROVE  TamCopia(reg, i) \in Nat
<1>1. CASE "reg" \in DOMAIN i
  <2>1. i.reg \in Registros
    BY <1>1 DEF BienFormada, Registros
  <2> QED
    BY <1>1, <2>1, BancoTiene DEF TamCopia
<1>2. CASE "reg" \notin DOMAIN i
  <2>1. i.tam \in Palabra
    BY <1>2 DEF BienFormada
  <2> QED
    BY <1>2, <2>1, Palabras DEF TamCopia
<1> QED
  BY <1>1, <1>2

LEMMA TiposCopyMem ==
    ASSUME IInv, Tipos, NEW c \in Cpus, EjecutarCopyMem(c)
    PROVE  Tipos'
<1> DEFINE n == TamCopia(Reg(c), Actual(c))
           origen == Mmu(c, Reg(c)["SI"], n)
           destino == Mmu(c, Reg(c)["DI"], n)
           fallo == Nadie \in {origen, destino}
           avisos == (IF origen = Nadie THEN 1 ELSE 0) + (IF destino = Nadie THEN 1 ELSE 0)
           a == [dir |-> IF origen = Nadie THEN ErrorSegFault ELSE origen,
                 falta |-> n, datos |-> <<>>, fallo |-> fallo]
<1>1. /\ cpu[c].fase = "fetch" /\ Actual(c).op = "COPY_MEM"
      /\ estado' = IF fallo THEN [estado EXCEPT ![cpu[c].pid] = "EXIT"] ELSE estado
      /\ cpu' = [cpu EXCEPT ![c].fase = "leyendo", ![c].acceso = a, ![c].avisos = avisos]
      /\ UNCHANGED <<contextos, memoria, sticks_km, ms, pendientes, desalojo, pedido,
                     salida, compac, canal_sano, perdidos>>
  BY DEF EjecutarCopyMem, AntesDe, En, Pid
<1>2. /\ Reg(c) \in BancoRegistros /\ BienFormada(Actual(c)) /\ cpu[c].pid \in Pids
      /\ ~cpu[c].acceso.fallo /\ FormaCpu(c)
  BY <1>1, EnFetchBien
<1>3. n \in Nat
  BY <1>1, <1>2, TamCopiaBien
<1>4. cpu[c].fase \in ConContexto /\ cpu[c].fase \in Confia
  BY <1>1 DEF ConContexto, Confia
<1>5. origen = Nadie \/ origen \in Nat
  BY <1>3, <1>4, MmuBien
<1>6. /\ a \in [dir : Nat, falta : Nat, datos : Seq(Byte), fallo : BOOLEAN]
      /\ Len(a.datos) + a.falta = n
  <2>1. (IF origen = Nadie THEN ErrorSegFault ELSE origen) \in Nat
    BY <1>5, CPUAssumption
  <2>2. fallo \in BOOLEAN
    OBVIOUS
  <2> HIDE DEF n, origen, destino, fallo
  <2>3. /\ DOMAIN a = {"dir", "falta", "datos", "fallo"}
        /\ a.falta = n /\ a.datos = <<>>
    OBVIOUS
  <2>4. a \in [dir : Nat, falta : Nat, datos : Seq(Byte), fallo : BOOLEAN]
    BY <1>3, <2>1, <2>2
  <2>5. Len(<<>>) + n = n
    BY <1>3
  <2> QED
    BY <2>3, <2>4, <2>5
<1>7. n = TamCopia(Reg(c), Actual(c))
  OBVIOUS
<1>8. avisos \in 0 .. 2
  <2> HIDE DEF origen, destino
  <2> QED
    OBVIOUS
<1>9. CpuBien(c)' /\ \A d \in Cpus \ {c} : cpu'[d] = cpu[d]
  <2>1. cpu' = [cpu EXCEPT ![c].fase = "leyendo", ![c].acceso = a, ![c].avisos = avisos]
    BY <1>1
  <2>2. UNCHANGED <<contextos, compac>>
    BY <1>1
  <2> HIDE DEF n, origen, destino, fallo, avisos, a
  <2> QED
    BY <1>1, <1>2, <1>4, <1>6, <1>7, <1>8, <2>1, <2>2, AccesoCambiaBien
<1>10. \A d \in Cpus : CpuBien(d)'
  BY <1>1, <1>9, BienDeUna
<1>11. estado' \in [Pids -> {"READY", "RUNNING", "BLOCK", "EXIT"}]
  <2> HIDE DEF n, origen, destino, fallo, avisos, a
  <2> QED
    BY <1>1 DEF Tipos, Resto
<1>12. ContextosBien' /\ Resto'
  BY <1>1, <1>11 DEF Tipos, ContextosBien, Resto
<1> QED
  BY <1>10, <1>12 DEF Tipos

-----------------------------------------------------------------------------
(* Types: the pieces of an access *)

LEMMA MenorDeDos ==
    ASSUME NEW x \in Nat, NEW y \in Nat
    PROVE  Min({x, y}) \in {x, y} /\ Min({x, y}) <= x /\ Min({x, y}) <= y
<1>1. \E m \in {x, y} : \A z \in {x, y} : m <= z
  OBVIOUS
<1> QED
  BY <1>1 DEF Min

\* A piece is in addresses that exist, and no longer than what is missing.
LEMMA PiezaBien ==
    ASSUME Tipos, NEW c \in Cpus, Alcanza(c)
    PROVE  /\ cpu[c].acceso.dir \in Nat /\ cpu[c].acceso.falta \in Nat
           /\ cpu[c].acceso.datos \in Seq(Byte) /\ cpu[c].acceso.fallo \in BOOLEAN
           /\ DOMAIN cpu[c].acceso = {"dir", "falta", "datos", "fallo"}
           /\ Pieza(cpu[c].acceso) \in Nat
           /\ Pieza(cpu[c].acceso) <= cpu[c].acceso.falta
           /\ \A k \in 1 .. Pieza(cpu[c].acceso) : cpu[c].acceso.dir + k - 1 \in Direcciones
<1> DEFINE a == cpu[c].acceso
           n == Pieza(a)
<1>1. a \in [dir : Nat, falta : Nat, datos : Seq(Byte), fallo : BOOLEAN]
  BY DEF Tipos, CpuBien
<1>2. CASE a.falta = 0
  BY <1>1, <1>2 DEF Pieza
<1>3. CASE a.falta # 0
  <2>1. a.dir \in Direcciones
    BY <1>3 DEF Alcanza, Conoce
  <2>2. /\ FinStick(a.dir) \in Nat /\ a.dir < FinStick(a.dir)
        /\ FinStick(a.dir) <= BaseStick[Len(TamanioStick) + 1]
    BY <2>1, StickDeBien
  <2>3. FinStick(a.dir) - a.dir \in Nat /\ a.dir \in Nat /\ a.falta \in Nat
    BY <1>1, <2>2
  <2>4. n = Min({a.falta, FinStick(a.dir) - a.dir})
    BY <1>3 DEF Pieza
  <2>5. n \in {a.falta, FinStick(a.dir) - a.dir} /\ n <= a.falta /\ n <= FinStick(a.dir) - a.dir
    <3> HIDE DEF n, a
    <3> QED
      BY <2>3, <2>4, MenorDeDos
  <2>6. n \in Nat
    <3> HIDE DEF n, a
    <3> QED
      BY <2>3, <2>5
  <2>7. ASSUME NEW k \in 1 .. n PROVE a.dir + k - 1 \in Direcciones
    <3>1. BaseStick[Len(TamanioStick) + 1] \in Nat
      <4>1. Len(TamanioStick) \in Nat
        BY BaseStickValores
      <4>2. Len(TamanioStick) + 1 \in 1 .. Len(TamanioStick) + 1
        BY <4>1
      <4> QED
        BY <4>2, BaseStickValores
    <3> HIDE DEF n, a
    <3> QED
      BY <2>2, <2>3, <2>5, <2>6, <3>1 DEF Direcciones
  <2> QED
    BY <1>1, <2>5, <2>6, <2>7
<1> QED
  BY <1>2, <1>3

\* The bytes a piece brings.
LEMMA LeidoBien ==
    ASSUME NEW datos \in Seq(Byte), NEW n \in Nat, NEW dir \in Nat,
           NEW m \in [Direcciones -> Byte], \A k \in 1 .. n : dir + k - 1 \in Direcciones
    PROVE  LET leido == datos \o [k \in 1 .. n |-> m[dir + k - 1]]
           IN  leido \in Seq(Byte) /\ Len(leido) = Len(datos) + n
<1> DEFINE s == [k \in 1 .. n |-> m[dir + k - 1]]
<1>1. \A k \in 1 .. n : m[dir + k - 1] \in Byte
  OBVIOUS
<1>2. s \in Seq(Byte) /\ Len(s) = n
  BY <1>1
<1> HIDE DEF s
<1>3. datos \o s \in Seq(Byte) /\ Len(datos \o s) = Len(datos) + n
  BY <1>2
<1> QED
  BY <1>3 DEF s

LEMMA TiposLeerPieza ==
    ASSUME IInv, Tipos, NEW c \in Cpus, LeerPieza(c)
    PROVE  Tipos'
<1> DEFINE a == cpu[c].acceso
           n == Pieza(a)
           leido == a.datos \o [k \in 1 .. n |-> memoria[a.dir + k - 1]]
<1>1. /\ cpu[c].fase = "leyendo" /\ Alcanza(c)
      /\ cpu' = IF n = a.falta THEN TrasLeer(c, leido)
                ELSE [cpu EXCEPT ![c].acceso.dir = @ + n, ![c].acceso.falta = @ - n,
                                 ![c].acceso.datos = leido]
      /\ UNCHANGED <<contextos, memoria, sticks_km, ms, pendientes, estado, desalojo, pedido,
                     salida, compac, canal_sano, perdidos>>
  BY DEF LeerPieza, En
<1>2. /\ a.dir \in Nat /\ a.falta \in Nat /\ a.datos \in Seq(Byte) /\ a.fallo \in BOOLEAN
      /\ DOMAIN a = {"dir", "falta", "datos", "fallo"}
      /\ n \in Nat /\ n <= a.falta /\ \A k \in 1 .. n : a.dir + k - 1 \in Direcciones
  BY <1>1, PiezaBien
<1>3. leido \in Seq(Byte) /\ Len(leido) = Len(a.datos) + n
  <2>1. memoria \in [Direcciones -> Byte]
    BY DEF Tipos, Resto
  <2> HIDE DEF a, n
  <2> QED
    BY <1>2, <2>1, LeidoBien
<1>4. cpu[c].fase \in ConContexto /\ cpu[c].fase \in Confia
  BY <1>1 DEF ConContexto, Confia
<1>5. /\ cpu[c].ctx \in Contexto /\ Reg(c) \in BancoRegistros /\ BienFormada(Actual(c))
      /\ DOMAIN cpu = Cpus /\ FormaCpu(c)
  BY <1>4, ConContextoBien
<1>6. \/ /\ Actual(c).op = "MOV_IN" /\ Len(a.datos) + a.falta = TamReg(Actual(c).dest)
      \/ /\ Actual(c).op = "COPY_MEM" /\ Len(a.datos) + a.falta = TamCopia(Reg(c), Actual(c))
  BY <1>1 DEF Tipos, CpuBien
<1>7. Len(a.datos) \in Nat
  BY <1>2
<1>8. CpuBien(c)' /\ \A d \in Cpus \ {c} : cpu'[d] = cpu[d]
  <2>1. CASE n # a.falta
    <3> DEFINE b == [dir |-> a.dir + n, falta |-> a.falta - n, datos |-> leido,
                     fallo |-> a.fallo]
    <3>1. cpu' = [cpu EXCEPT ![c].acceso.dir = @ + n, ![c].acceso.falta = @ - n,
                             ![c].acceso.datos = leido]
      BY <1>1, <2>1
    <3>2. b \in [dir : Nat, falta : Nat, datos : Seq(Byte), fallo : BOOLEAN]
      <4> HIDE DEF a, n, leido
      <4> QED
        BY <1>2, <1>3
    <3>3. /\ Len(b.datos) + b.falta = Len(a.datos) + a.falta
          /\ b.fallo = a.fallo
      <4> HIDE DEF a, n, leido
      <4> QED
        BY <1>2, <1>3, <1>7
    <3>4. /\ cpu'[c].fase = "leyendo" /\ cpu'[c].pid = cpu[c].pid /\ cpu'[c].ctx = cpu[c].ctx
          /\ cpu'[c].sticks = cpu[c].sticks /\ cpu'[c].avisos \in 0 .. 2
          /\ cpu'[c].acceso = b
          /\ \A d \in Cpus \ {c} : cpu'[d] = cpu[d]
      <4> HIDE DEF n, leido
      <4>1. /\ cpu'[c].fase = "leyendo" /\ cpu'[c].pid = cpu[c].pid /\ cpu'[c].ctx = cpu[c].ctx
            /\ cpu'[c].sticks = cpu[c].sticks /\ cpu'[c].avisos = cpu[c].avisos
            /\ \A d \in Cpus \ {c} : cpu'[d] = cpu[d]
        BY <1>1, <1>5, <3>1 DEF FormaCpu
      <4>2. cpu'[c].acceso = [a EXCEPT !.dir = a.dir + n, !.falta = a.falta - n,
                                       !.datos = leido]
        BY <1>5, <3>1 DEF FormaCpu
      <4>3. cpu'[c].acceso = b
        <5> HIDE DEF a
        <5> QED
          BY <1>2, <4>2
      <4> QED
        BY <4>1, <4>3 DEF Tipos, CpuBien
    <3> HIDE DEF b
    <3>5. CpuBien(c)'
      BY <1>1, <1>4, <1>6, <3>2, <3>3, <3>4, AccesoValeBien
    <3> QED
      BY <3>4, <3>5
  <2>2. CASE n = a.falta /\ Actual(c).op = "MOV_IN"
    <3> DEFINE reg == [Reg(c) EXCEPT ![Actual(c).dest] = ValorDe(leido)]
    <3>1. Actual(c).dest \in Registros
      BY <1>5, <2>2 DEF BienFormada
    <3>2. Len(leido) = TamReg(Actual(c).dest)
      <4> HIDE DEF a, n, leido
      <4> QED
        BY <1>3, <1>6, <2>2
    <3>3. ValorDe(leido) \in 0 .. Modulo(Actual(c).dest) - 1
      <4> HIDE DEF leido
      <4> QED
        BY <1>3, <3>2, ValorDeBien DEF Modulo
    <3> HIDE DEF leido, n
    <3>4. reg \in BancoRegistros
      BY <1>5, <3>1, <3>3, BancoCon
    <3>5. Avanzar(reg) \in BancoRegistros
      <4> HIDE DEF reg
      <4> QED
        BY <3>4, AvanzarBanco
    <3>6. cpu' = Cumplida(c, Avanzar(reg))
      BY <1>1, <2>2 DEF TrasLeer
    <3> HIDE DEF reg
    <3>7. ~cpu[c].acceso.fallo
      BY <2>2 DEF IInv, SegunFase
    <3>8. contextos[cpu[c].pid] \in Contexto
      BY <1>4, <3>7 DEF EnUso, Tipos, CpuBien
    <3>9. CpuBien(c)'
      <4>1. cpu[c].pid \notin desalojo' => contextos'[cpu[c].pid] \in Contexto
        BY <1>1, <3>8
      <4>2. Forma
        BY DEF IInv
      <4> QED
        BY <1>5, <3>5, <3>6, <4>1, <4>2, CumplidaBien
    <3>10. \A d \in Cpus \ {c} : cpu'[d] = cpu[d]
      BY <1>5, <3>6 DEF Cumplida
    <3> QED
      BY <3>9, <3>10
  <2>3. CASE n = a.falta /\ Actual(c).op # "MOV_IN"
    <3> DEFINE destino == Mmu(c, Reg(c)["DI"], Len(leido))
               dir == IF destino = Nadie THEN ErrorSegFault ELSE destino
               b == [dir |-> dir, falta |-> Len(leido), datos |-> leido, fallo |-> a.fallo]
    <3>1. cpu' = [cpu EXCEPT ![c].fase = "escribiendo", ![c].acceso.dir = dir,
                             ![c].acceso.falta = Len(leido), ![c].acceso.datos = leido]
      BY <1>1, <2>3 DEF TrasLeer
    <3>2. Len(leido) \in Nat
      <4> HIDE DEF leido
      <4> QED
        BY <1>3
    <3> HIDE DEF leido, n
    <3>3. dir \in Nat
      <4>1. destino = Nadie \/ destino \in Nat
        BY <1>4, <3>2, MmuBien
      <4>2. ErrorSegFault \in Nat
        BY CPUAssumption
      <4> QED
        BY <4>1, <4>2
    <3> HIDE DEF dir, destino
    <3>4. b \in [dir : Nat, falta : Nat, datos : Seq(Byte), fallo : BOOLEAN]
      BY <1>2, <1>3, <3>2, <3>3
    <3>5. /\ cpu'[c].fase = "escribiendo" /\ cpu'[c].pid = cpu[c].pid
          /\ cpu'[c].ctx = cpu[c].ctx
          /\ cpu'[c].sticks = cpu[c].sticks /\ cpu'[c].avisos \in 0 .. 2
          /\ cpu'[c].acceso = b
          /\ \A d \in Cpus \ {c} : cpu'[d] = cpu[d]
      BY <1>1, <1>2, <1>5, <3>1 DEF FormaCpu, Tipos, CpuBien
    <3>6. Len(b.datos) = b.falta /\ b.fallo = a.fallo
      OBVIOUS
    <3> HIDE DEF b
    <3>7. CpuBien(c)'
      BY <1>1, <1>4, <3>4, <3>5, <3>6, AccesoValeBien
    <3> QED
      BY <3>5, <3>7
  <2> QED
    BY <2>1, <2>2, <2>3
<1>9. \A d \in Cpus : CpuBien(d)'
  BY <1>1, <1>8, BienDeUna
<1>10. ContextosBien' /\ Resto'
  BY <1>1 DEF Tipos, ContextosBien, Resto
<1> QED
  BY <1>9, <1>10 DEF Tipos

LEMMA FinAccesoBien ==
    ASSUME IInv, Tipos, NEW c \in Cpus, cpu[c].fase \in {"leyendo", "escribiendo"},
           cpu' = FinAcceso(c), UNCHANGED <<contextos, desalojo>>
    PROVE  CpuBien(c)' /\ \A d \in Cpus \ {c} : cpu'[d] = cpu[d]
<1>1. Forma /\ FormaCpu(c)
  BY DEF IInv, Forma
<1>2. cpu[c].fase \in ConContexto /\ cpu[c].fase \in Confia
  BY DEF ConContexto, Confia
<1>3. cpu[c].ctx \in Contexto /\ Reg(c) \in BancoRegistros
  BY <1>2, ConContextoBien
<1>4. CASE cpu[c].acceso.fallo /\ cpu[c].avisos = 0
  <2>1. cpu' = Libre(c)
    BY <1>4 DEF FinAcceso
  <2>2. CpuBien(c)'
    BY <1>1, <2>1, LibreBien
  <2> QED
    BY <1>1, <2>1, <2>2 DEF Forma, Libre
<1>5. CASE cpu[c].acceso.fallo /\ cpu[c].avisos # 0
  <2>1. cpu' = [cpu EXCEPT ![c].fase = "finalizando", ![c].ctx = Nadie,
                           ![c].acceso = SinAcceso]
    BY <1>5 DEF FinAcceso
  <2>2. CpuBien(c)'
    <3>1. cpu[c].avisos \in 0 .. 2
      BY DEF Tipos, CpuBien
    <3>2. cpu' = [cpu EXCEPT ![c].fase = "finalizando", ![c].ctx = Nadie,
                             ![c].acceso = SinAcceso, ![c].avisos = cpu[c].avisos]
      BY <1>1, <2>1 DEF Forma, FormaCpu
    <3> QED
      BY <1>1, <3>1, <3>2, FinBien
  <2> QED
    BY <1>1, <2>1, <2>2 DEF Forma
<1>6. CASE ~cpu[c].acceso.fallo
  <2>1. cpu' = Cumplida(c, Avanzar(Reg(c)))
    BY <1>6 DEF FinAcceso
  <2>2. Avanzar(Reg(c)) \in BancoRegistros
    BY <1>3, AvanzarBanco
  <2>3. contextos[cpu[c].pid] \in Contexto
    BY <1>2, <1>6 DEF EnUso, Tipos, CpuBien
  <2>4. CpuBien(c)'
    BY <1>1, <1>3, <2>1, <2>2, <2>3, CumplidaBien
  <2> QED
    BY <1>1, <2>1, <2>4 DEF Forma, Cumplida
<1> QED
  BY <1>1, <1>4, <1>5, <1>6 DEF FormaCpu

LEMMA TiposEscribirPieza ==
    ASSUME IInv, Tipos, NEW c \in Cpus, EscribirPieza(c)
    PROVE  Tipos'
<1> DEFINE a == cpu[c].acceso
           n == Pieza(a)
<1>1. /\ cpu[c].fase = "escribiendo" /\ Alcanza(c)
      /\ memoria' = [d \in Direcciones |->
             IF d \in a.dir .. a.dir + n - 1 THEN a.datos[d - a.dir + 1] ELSE memoria[d]]
      /\ cpu' = IF n = a.falta THEN FinAcceso(c)
                ELSE [cpu EXCEPT ![c].acceso.dir = @ + n, ![c].acceso.falta = @ - n,
                                 ![c].acceso.datos = SubSeq(@, n + 1, Len(@))]
      /\ UNCHANGED <<contextos, sticks_km, ms, pendientes, estado, desalojo, pedido,
                     salida, compac, canal_sano>>
      /\ perdidos' \subseteq perdidos \cup Pids
  BY DEF EscribirPieza, En, Victimas
<1>2. /\ a.dir \in Nat /\ a.falta \in Nat /\ a.datos \in Seq(Byte) /\ a.fallo \in BOOLEAN
      /\ DOMAIN a = {"dir", "falta", "datos", "fallo"}
      /\ n \in Nat /\ n <= a.falta
  BY <1>1, PiezaBien
<1>3. Len(a.datos) = a.falta
  BY <1>1 DEF Tipos, CpuBien
<1>4. DOMAIN cpu = Cpus /\ FormaCpu(c)
  BY DEF IInv, Forma
<1>5. memoria' \in [Direcciones -> Byte]
  <2>1. memoria \in [Direcciones -> Byte]
    BY DEF Tipos, Resto
  <2>2. ASSUME NEW d \in Direcciones, d \in a.dir .. a.dir + n - 1
        PROVE  a.datos[d - a.dir + 1] \in Byte
    <3>1. d - a.dir + 1 \in 1 .. Len(a.datos)
      <4> HIDE DEF a, n
      <4> QED
        BY <1>2, <1>3, <2>2
    <3> HIDE DEF a, n
    <3> QED
      BY <1>2, <3>1
  <2> HIDE DEF a, n
  <2> QED
    BY <1>1, <2>1, <2>2
<1>6. CpuBien(c)' /\ \A d \in Cpus \ {c} : cpu'[d] = cpu[d]
  <2>1. CASE n = a.falta
    BY <1>1, <2>1, FinAccesoBien
  <2>2. CASE n # a.falta
    <3> DEFINE resto == SubSeq(a.datos, n + 1, Len(a.datos))
               b == [dir |-> a.dir + n, falta |-> a.falta - n, datos |-> resto,
                     fallo |-> a.fallo]
    <3>1. cpu' = [cpu EXCEPT ![c].acceso.dir = @ + n, ![c].acceso.falta = @ - n,
                             ![c].acceso.datos = SubSeq(@, n + 1, Len(@))]
      BY <1>1, <2>2
    <3>2. resto \in Seq(Byte) /\ Len(resto) = a.falta - n
      <4> HIDE DEF a, n
      <4> QED
        BY <1>2, <1>3
    <3>3. cpu'[c].acceso = b
      <4>1. cpu'[c].acceso = [a EXCEPT !.dir = a.dir + n, !.falta = a.falta - n,
                                       !.datos = resto]
        <5> HIDE DEF n
        <5> QED
          BY <1>4, <3>1 DEF FormaCpu
      <4> HIDE DEF a, n, resto
      <4> QED
        BY <1>2, <4>1
    <3>4. /\ cpu'[c].fase = "escribiendo" /\ cpu'[c].pid = cpu[c].pid
          /\ cpu'[c].ctx = cpu[c].ctx /\ cpu'[c].sticks = cpu[c].sticks
          /\ cpu'[c].avisos \in 0 .. 2
          /\ \A d \in Cpus \ {c} : cpu'[d] = cpu[d]
      <4> HIDE DEF n
      <4> QED
        BY <1>1, <1>4, <3>1 DEF FormaCpu, Tipos, CpuBien
    <3>5. b \in [dir : Nat, falta : Nat, datos : Seq(Byte), fallo : BOOLEAN]
      <4> HIDE DEF a, n, resto
      <4> QED
        BY <1>2, <3>2
    <3>6. Len(b.datos) = b.falta /\ b.fallo = a.fallo
      BY <3>2
    <3>7. cpu[c].fase \in Confia
      BY <1>1 DEF Confia
    <3> HIDE DEF b
    <3>8. CpuBien(c)'
      BY <1>1, <3>3, <3>4, <3>5, <3>6, <3>7, AccesoValeBien
    <3> QED
      BY <3>4, <3>8
  <2> QED
    BY <2>1, <2>2
<1>7. \A d \in Cpus : CpuBien(d)'
  BY <1>1, <1>6, BienDeUna
<1>8. ContextosBien' /\ Resto'
  BY <1>1, <1>5 DEF Tipos, ContextosBien, Resto
<1> QED
  BY <1>7, <1>8 DEF Tipos

LEMMA TiposAccesoSinStick ==
    ASSUME IInv, Tipos, NEW c \in Cpus, AccesoSinStick(c)
    PROVE  Tipos'
<1>1. /\ cpu[c].fase \in {"leyendo", "escribiendo"}
      /\ cpu' = [cpu EXCEPT ![c].fase = "colgada"] \/ cpu' = FinAcceso(c)
      /\ perdidos' = IF cpu[c].acceso.fallo THEN perdidos ELSE perdidos \cup {cpu[c].pid}
      /\ UNCHANGED <<contextos, memoria, sticks_km, ms, pendientes, estado, desalojo,
                     pedido, salida, compac, canal_sano>>
  BY DEF AccesoSinStick, Pid
<1>2. cpu[c].fase \in ConContexto
  BY <1>1 DEF ConContexto, Confia
<1>3. cpu[c].pid \in Pids /\ Forma
  BY <1>2, ConContextoBien DEF IInv
<1>4. CpuBien(c)' /\ \A d \in Cpus \ {c} : cpu'[d] = cpu[d]
  <2>1. CASE cpu' = [cpu EXCEPT ![c].fase = "colgada"]
    BY <1>3, <2>1, FaseBien DEF Forma
  <2>2. CASE cpu' = FinAcceso(c)
    BY <1>1, <2>2, FinAccesoBien
  <2> QED
    BY <1>1, <2>1, <2>2
<1>5. \A d \in Cpus : CpuBien(d)'
  BY <1>1, <1>4, BienDeUna
<1>6. ContextosBien' /\ Resto'
  BY <1>1, <1>3 DEF Tipos, ContextosBien, Resto
<1> QED
  BY <1>5, <1>6 DEF Tipos

-----------------------------------------------------------------------------
(* Types: the segments *)

LEMMA TablaBien ==
    ASSUME ContextosBien, NEW p \in Pids
    PROVE  /\ Tabla(p) \in Seq(Segmento)
           /\ DOMAIN Tabla(p) = 1 .. Len(Tabla(p))
           /\ \A k \in DOMAIN Tabla(p) : /\ Tabla(p)[k] \in Segmento
                                         /\ Tabla(p)[k].base \in Nat /\ Tabla(p)[k].tam \in Nat
<1>1. Tabla(p) \in Seq(Segmento)
  BY ContextoTiene DEF ContextosBien, Tabla
<1>2. DOMAIN Tabla(p) = 1 .. Len(Tabla(p))
  BY <1>1
<1>3. \A k \in DOMAIN Tabla(p) : Tabla(p)[k] \in Segmento
  BY <1>1, <1>2
<1> QED
  BY <1>1, <1>2, <1>3 DEF Segmento

LEMMA FinBienDefinido ==
    ASSUME sticks_km \in Sticks
    PROVE  /\ Fin \in Nat /\ BaseStick[Len(TamanioStick) + 1] \in Nat
           /\ Fin <= BaseStick[Len(TamanioStick) + 1]
<1>1. /\ sticks_km + 1 \in 1 .. Len(TamanioStick) + 1 /\ BaseStick[sticks_km + 1] \in Nat
      /\ sticks_km + 1 \in Nat
  BY SticksHasta
<1>2. Len(TamanioStick) \in Nat
  BY BaseStickValores
<1>3. Len(TamanioStick) + 1 \in 1 .. Len(TamanioStick) + 1
  BY <1>2
<1>4. sticks_km + 1 <= Len(TamanioStick) + 1
  BY <1>1, <1>2
<1>5. BaseStick[Len(TamanioStick) + 1] \in Nat
  BY <1>3, BaseStickValores
<1>6. BaseStick[sticks_km + 1] <= BaseStick[Len(TamanioStick) + 1]
  BY <1>1, <1>3, <1>4, BaseStickCrece
<1> QED
  BY <1>1, <1>5, <1>6 DEF Fin

\* The bytes taken, seen as cells of the memory.
LEMMA CeldasOcupadas ==
    ASSUME NEW p \in Pids, NEW k \in DOMAIN Tabla(p)
    PROVE  Celdas(Tabla(p)[k]) \subseteq Ocupadas
BY DEF Ocupadas

\* The bytes taken lie below the end of the memory, so they can be counted.
LEMMA OcupadasBien ==
    ASSUME ContextosBien, EnMemoria, sticks_km \in Sticks
    PROVE  /\ Ocupadas \subseteq 0 .. Fin - 1 /\ Ocupadas \subseteq Nat
           /\ Ocupadas \subseteq Direcciones
           /\ IsFiniteSet(Ocupadas)
           /\ Cardinality(Ocupadas) \in Nat /\ Cardinality(Ocupadas) <= Fin
<1>1. Fin \in Nat /\ BaseStick[Len(TamanioStick) + 1] \in Nat
      /\ Fin <= BaseStick[Len(TamanioStick) + 1]
  BY FinBienDefinido
<1>2. ASSUME NEW p \in Pids, NEW k \in DOMAIN Tabla(p), NEW d \in Celdas(Tabla(p)[k])
      PROVE  d \in 0 .. Fin - 1
  <2>1. Tabla(p)[k].base \in Nat /\ Tabla(p)[k].tam \in Nat
    BY TablaBien
  <2>2. Tabla(p)[k].base + Tabla(p)[k].tam <= Fin
    BY DEF EnMemoria
  <2> QED
    BY <1>1, <2>1, <2>2 DEF Celdas
<1>3. Ocupadas \subseteq 0 .. Fin - 1
  BY <1>2 DEF Ocupadas
<1>4. Ocupadas \subseteq Direcciones /\ Ocupadas \subseteq Nat
  <2>1. \A d \in 0 .. Fin - 1 : d \in Direcciones /\ d \in Nat
    BY <1>1 DEF Direcciones
  <2> QED
    BY <1>3, <2>1
<1>5. IsFiniteSet(0 .. Fin - 1) /\ Cardinality(0 .. Fin - 1) = Fin
  <2>1. 0 \in Int /\ Fin - 1 \in Int
    BY <1>1
  <2>2. /\ IsFiniteSet(0 .. Fin - 1)
        /\ Cardinality(0 .. Fin - 1) = IF 0 > Fin - 1 THEN 0 ELSE (Fin - 1) - 0 + 1
    BY <2>1, FS_Interval
  <2> QED
    BY <1>1, <2>2
<1>6. IsFiniteSet(Ocupadas) /\ Cardinality(Ocupadas) <= Cardinality(0 .. Fin - 1)
  <2>1. Ocupadas \in SUBSET (0 .. Fin - 1)
    BY <1>3
  <2> QED
    BY <1>5, <2>1, FS_Subset
<1> QED
  BY <1>3, <1>4, <1>5, <1>6, FS_CardinalityType

\* A packed address.
LEMMA CompactadaBien ==
    ASSUME ContextosBien, EnMemoria, sticks_km \in Sticks, NEW a
    PROVE  /\ Compactada(a) = Cuantas(Ocupadas, a)
           /\ Compactada(a) \in Nat /\ Compactada(a) <= Cardinality(Ocupadas)
<1>1. Compactada(a) = Cuantas(Ocupadas, a)
  BY DEF Compactada, Cuantas, Debajo
<1> QED
  BY <1>1, OcupadasBien, DebajoFinito

\* The CPU goes on to interrupt() and is going to be evicted.
LEMMA MarcadaBien ==
    ASSUME Tipos, NEW c \in Cpus, cpu[c].pid \in desalojo',
           cpu'[c].fase = "interrupt", cpu'[c].pid = cpu[c].pid, cpu'[c].ctx \in Contexto,
           cpu'[c].sticks = cpu[c].sticks, cpu'[c].acceso = cpu[c].acceso,
           cpu'[c].avisos = cpu[c].avisos
    PROVE  CpuBien(c)'
BY DEF Tipos, CpuBien, EnUso, Fases, Confia

\* What the CPU is granted has the type of a table.
LEMMA ConcedidaBien ==
    ASSUME IInv, Tipos, NEW c \in Cpus, cpu[c].fase \in {"fetch", "espera"},
           Actual(c).op = "MEM_ALLOC", NEW tablas,
           DOMAIN tablas = Pids, \A p \in Pids : tablas[p] = Nadie \/ tablas[p] \in Contexto,
           tablas[cpu[c].pid] \in Contexto,
           NEW b \in Nat, Concedida(c, tablas, b), desalojo' = desalojo \cup {cpu[c].pid}
    PROVE  /\ CpuBien(c)' /\ ContextosBien'
           /\ \A d \in Cpus \ {c} : cpu'[d] = cpu[d]
           /\ \A p \in Pids \ {cpu[c].pid} : contextos'[p] = tablas[p]
<1> DEFINE s == [id |-> Actual(c).id, base |-> b, tam |-> Actual(c).tam]
<1>1. /\ contextos' = [tablas EXCEPT ![cpu[c].pid].tabla = Append(@, s)]
      /\ cpu' = [cpu EXCEPT ![c].fase = "interrupt", ![c].ctx.reg = Avanzar(@),
                            ![c].ctx.tabla = Append(@, s)]
  BY DEF Concedida, Pid
<1>2. cpu[c].fase \in ConContexto
  BY DEF ConContexto, Confia
<1>3. /\ cpu[c].ctx \in Contexto /\ Reg(c) \in BancoRegistros
      /\ cpu[c].ctx.tabla \in Seq(Segmento)
      /\ cpu[c].pid \in Pids /\ BienFormada(Actual(c)) /\ DOMAIN cpu = Cpus /\ FormaCpu(c)
  BY <1>2, ConContextoBien
<1>4. s \in Segmento
  BY <1>3 DEF BienFormada, Segmento
<1> HIDE DEF s
<1>5. Append(cpu[c].ctx.tabla, s) \in Seq(Segmento)
  BY <1>3, <1>4
<1>6. Avanzar(Reg(c)) \in BancoRegistros
  BY <1>3, AvanzarBanco
<1>7. /\ cpu'[c].fase = "interrupt" /\ cpu'[c].pid = cpu[c].pid
      /\ cpu'[c].sticks = cpu[c].sticks /\ cpu'[c].avisos = cpu[c].avisos
      /\ cpu'[c].acceso = cpu[c].acceso
      /\ \A d \in Cpus \ {c} : cpu'[d] = cpu[d]
  BY <1>1, <1>3 DEF FormaCpu
<1>8. cpu'[c].ctx \in Contexto
  <2> DEFINE x == [cpu[c].ctx EXCEPT !.reg = Avanzar(Reg(c))]
             t == Append(cpu[c].ctx.tabla, s)
  <2>1. x \in Contexto /\ x.tabla = cpu[c].ctx.tabla
    BY <1>3, <1>6, ContextoTiene
  <2>2. cpu'[c].ctx = [x EXCEPT !.tabla = t]
    BY <1>1, <1>3, <2>1, ContextoTiene DEF FormaCpu, Reg
  <2> HIDE DEF x, t
  <2> QED
    <3>1. t \in Seq(Segmento)
      BY <1>5 DEF t
    <3> QED
      BY <2>1, <2>2, <3>1, ContextoTiene
<1>9. CpuBien(c)'
  BY <1>7, <1>8, MarcadaBien
<1>10. \A p \in Pids \ {cpu[c].pid} : contextos'[p] = tablas[p]
  BY <1>1
<1>11. contextos'[cpu[c].pid] \in Contexto
  <2> DEFINE t == Append(tablas[cpu[c].pid].tabla, s)
  <2>1. contextos'[cpu[c].pid] = [tablas[cpu[c].pid] EXCEPT !.tabla = t]
    BY <1>1, <1>3
  <2>2. t \in Seq(Segmento)
    BY <1>4, ContextoTiene
  <2> HIDE DEF t
  <2> QED
    BY <2>1, <2>2, ContextoTiene
<1> QED
  BY <1>7, <1>9, <1>10, <1>11 DEF ContextosBien

\* A request of memory: granted, refused for ever, or left for a compaction.
LEMMA TiposMemAlloc ==
    ASSUME IInv, Tipos, NEW c \in Cpus, EjecutarMemAlloc(c)
    PROVE  Tipos'
<1> DEFINE tam == Actual(c).tam
<1>1. /\ cpu[c].fase = "fetch" /\ Actual(c).op = "MEM_ALLOC" /\ compac.quien = Nadie
      /\ UNCHANGED <<memoria, sticks_km, ms, pendientes, estado, pedido, salida,
                     canal_sano, perdidos>>
  BY DEF EjecutarMemAlloc, AntesDe, En, KmLibre
<1>2. /\ cpu[c].ctx \in Contexto /\ Reg(c) \in BancoRegistros /\ cpu[c].pid \in Pids
      /\ contextos[cpu[c].pid] \in Contexto /\ DOMAIN cpu = Cpus /\ FormaCpu(c)
  BY <1>1, EnFetchBien
<1>3. /\ compac \in [valor : BOOLEAN, sem : BOOLEAN, quien : Cpus \cup {Nadie}]
      /\ desalojo \subseteq Pids
  BY DEF Tipos, Resto
<1>4. Forma /\ DOMAIN contextos = Pids
  BY DEF IInv, Forma
<1>5. /\ CpuBien(c)' /\ ContextosBien' /\ \A d \in Cpus \ {c} : cpu'[d] = cpu[d]
      /\ \A p \in Pids \ {cpu[c].pid} : contextos'[p] = contextos[p]
      /\ compac' \in [valor : BOOLEAN, sem : BOOLEAN, quien : Cpus \cup {Nadie}]
      /\ desalojo \subseteq desalojo' /\ desalojo' \subseteq Pids
  <2>1. CASE /\ \E b \in Huecos(tam) : Concedida(c, contextos, b)
             /\ Marcar(Pid(c)) /\ UNCHANGED compac
    <3>1. PICK b \in Huecos(tam) : Concedida(c, contextos, b)
      BY <2>1
    <3>2. b \in Nat
      BY DEF Huecos
    <3>3. desalojo' = desalojo \cup {cpu[c].pid}
      BY <2>1 DEF Marcar, Pid
    <3>4. \A p \in Pids : contextos[p] = Nadie \/ contextos[p] \in Contexto
      BY DEF Tipos, ContextosBien
    <3>5. /\ CpuBien(c)' /\ ContextosBien' /\ \A d \in Cpus \ {c} : cpu'[d] = cpu[d]
          /\ \A p \in Pids \ {cpu[c].pid} : contextos'[p] = contextos[p]
      BY <1>1, <1>2, <1>4, <3>1, <3>2, <3>3, <3>4, ConcedidaBien
    <3> QED
      BY <1>2, <1>3, <2>1, <3>3, <3>5
  <2>2. CASE /\ compac' = [compac EXCEPT !.valor = TRUE, !.quien = c]
             /\ cpu' = [cpu EXCEPT ![c].fase = "espera"]
             /\ UNCHANGED <<contextos, desalojo>>
    <3>1. /\ cpu'[c].fase = "espera" /\ cpu'[c].pid = cpu[c].pid /\ cpu'[c].ctx = cpu[c].ctx
          /\ cpu'[c].sticks = cpu[c].sticks /\ cpu'[c].avisos = cpu[c].avisos
          /\ cpu'[c].acceso = cpu[c].acceso
          /\ \A d \in Cpus \ {c} : cpu'[d] = cpu[d]
      BY <1>2, <2>2 DEF FormaCpu
    <3>2. /\ compac' \in [valor : BOOLEAN, sem : BOOLEAN, quien : Cpus \cup {Nadie}]
          /\ compac'.quien = c
      BY <1>3, <2>2
    <3>3. Actual(c)' = Actual(c)
      BY <3>1 DEF Actual, Pid, Reg
    <3>4. "espera" \in Fases
      BY DEF Fases
    <3>5. CpuBien(c)'
      BY <1>1, <1>2, <2>2, <3>1, <3>2, <3>3, <3>4 DEF Tipos, CpuBien
    <3>6. ContextosBien'
      BY <2>2 DEF Tipos, ContextosBien
    <3> QED
      BY <1>3, <2>2, <3>1, <3>2, <3>5, <3>6
  <2>3. CASE cpu' = Cumplida(c, Reg(c)) /\ Marcar(Pid(c)) /\ UNCHANGED <<contextos, compac>>
    <3>1. desalojo' = desalojo \cup {cpu[c].pid}
      BY <2>3 DEF Marcar, Pid
    <3>2. CpuBien(c)'
      BY <1>2, <1>4, <2>3, CumplidaBien
    <3>3. \A d \in Cpus \ {c} : cpu'[d] = cpu[d]
      BY <1>2, <2>3 DEF Cumplida
    <3>4. ContextosBien'
      BY <2>3 DEF Tipos, ContextosBien
    <3> QED
      BY <1>2, <1>3, <2>3, <3>1, <3>2, <3>3, <3>4
  <2> QED
    BY <2>1, <2>2, <2>3 DEF EjecutarMemAlloc
<1>6. \A d \in Cpus : CpuBien(d)'
  BY <1>1, <1>5, BienDeUna
<1>7. Resto'
  BY <1>1, <1>5 DEF Tipos, Resto
<1> QED
  BY <1>5, <1>6, <1>7 DEF Tipos

\* Moving the segments down keeps the contexts contexts.
LEMMA MovidosBien ==
    ASSUME ContextosBien, EnMemoria, sticks_km \in Sticks, NEW p \in Pids
    PROVE  /\ contextos[p] = Nadie => Movidos[p] = Nadie
           /\ contextos[p] # Nadie =>
                /\ Movidos[p] \in Contexto
                /\ Len(Movidos[p].tabla) = Len(Tabla(p))
                /\ \A k \in 1 .. Len(Tabla(p)) :
                     /\ Movidos[p].tabla[k].base = Compactada(Tabla(p)[k].base)
                     /\ Movidos[p].tabla[k].tam = Tabla(p)[k].tam
<1>1. contextos[p] = Nadie => Movidos[p] = Nadie
  BY DEF Movidos
<1> SUFFICES ASSUME contextos[p] # Nadie
             PROVE  /\ Movidos[p] \in Contexto
                    /\ Len(Movidos[p].tabla) = Len(Tabla(p))
                    /\ \A k \in 1 .. Len(Tabla(p)) :
                         /\ Movidos[p].tabla[k].base = Compactada(Tabla(p)[k].base)
                         /\ Movidos[p].tabla[k].tam = Tabla(p)[k].tam
  BY <1>1
<1> DEFINE t == Tabla(p)
           u == Mover(t)
<1>2. contextos[p] \in Contexto /\ t = contextos[p].tabla
  BY DEF ContextosBien, Tabla
<1>3. Movidos[p] = [contextos[p] EXCEPT !.tabla = u]
  BY <1>2 DEF Movidos
<1>4. t \in Seq(Segmento) /\ DOMAIN t = 1 .. Len(t) /\ Len(t) \in Nat
  BY TablaBien
<1>10. u = [k \in DOMAIN t |-> [t[k] EXCEPT !.base = Compactada(t[k].base)]]
  BY DEF Mover
<1>5. ASSUME NEW k \in 1 .. Len(t)
      PROVE  u[k] \in Segmento /\ u[k].base = Compactada(t[k].base) /\ u[k].tam = t[k].tam
  <2>1. t[k] \in Segmento
    BY <1>4
  <2>2. Compactada(t[k].base) \in Nat
    BY CompactadaBien
  <2>3. u[k] = [t[k] EXCEPT !.base = Compactada(t[k].base)]
    BY <1>4, <1>10
  <2> HIDE DEF t, u
  <2> QED
    BY <2>1, <2>2, <2>3 DEF Segmento
<1>6. DOMAIN u = 1 .. Len(t)
  BY <1>4, <1>10
<1> HIDE DEF t, u
<1>7. u \in Seq(Segmento) /\ Len(u) = Len(t)
  <2>1. u = [k \in 1 .. Len(t) |-> u[k]]
    BY <1>4, <1>6, <1>10
  <2>2. u \in [1 .. Len(t) -> Segmento]
    BY <1>5, <2>1
  <2> QED
    BY <1>4, <2>2
<1>8. Movidos[p] \in Contexto /\ Movidos[p].tabla = u
  BY <1>2, <1>3, <1>7, ContextoTiene
<1> QED
  BY <1>5, <1>7, <1>8 DEF t

LEMMA TiposCompactar ==
    ASSUME IInv, Tipos, EnMemoria, NEW c \in Cpus, Compactar(c)
    PROVE  Tipos'
<1>1. /\ cpu[c].fase = "espera"
      /\ \A p \in Pids \ {Pid(c)} : estado[p] # "RUNNING"
      /\ memoria' = [a \in Direcciones |->
             IF a < Cardinality(Ocupadas)
             THEN memoria[CHOOSE d \in Ocupadas : Compactada(d) = a]
             ELSE memoria[a]]
      /\ Concedida(c, Movidos, Cardinality(Ocupadas))
      /\ Marcar(Pid(c))
      /\ compac' = SinCompac
      /\ UNCHANGED <<sticks_km, ms, pendientes, estado, pedido, salida, canal_sano, perdidos>>
  BY DEF Compactar, En, NadieMasEjecuta
<1>2. /\ Actual(c).op = "MEM_ALLOC" /\ compac.quien = c /\ contextos[cpu[c].pid] \in Contexto
      /\ ContextosBien /\ sticks_km \in Sticks /\ memoria \in [Direcciones -> Byte]
      /\ desalojo \subseteq Pids
  BY <1>1 DEF Tipos, CpuBien, Resto
<1>3. cpu[c].fase \in ConContexto
  BY <1>1 DEF ConContexto
<1>4. cpu[c].pid \in Pids
  BY <1>3, ConContextoBien
<1>5. /\ Ocupadas \subseteq Nat /\ Ocupadas \subseteq Direcciones /\ IsFiniteSet(Ocupadas)
      /\ Cardinality(Ocupadas) \in Nat
  BY <1>2, OcupadasBien
<1>6. /\ DOMAIN Movidos = Pids
      /\ \A p \in Pids : Movidos[p] = Nadie \/ Movidos[p] \in Contexto
      /\ \A p \in Pids : contextos[p] = Nadie => Movidos[p] = Nadie
  BY <1>2, MovidosBien DEF Movidos
<1>7. Movidos[cpu[c].pid] \in Contexto
  BY <1>2, <1>4, MovidosBien
<1>8. desalojo' = desalojo \cup {cpu[c].pid}
  BY <1>1 DEF Marcar, Pid
<1>9. /\ CpuBien(c)' /\ ContextosBien'
      /\ \A d \in Cpus \ {c} : cpu'[d] = cpu[d]
      /\ \A p \in Pids \ {cpu[c].pid} : contextos'[p] = Movidos[p]
  BY <1>1, <1>2, <1>5, <1>6, <1>7, <1>8, ConcedidaBien
<1>10. \A d \in Cpus : CpuBien(d)'
  BY <1>1, <1>2, <1>8, <1>9, BienDeUna DEF Pid
<1>11. memoria' \in [Direcciones -> Byte]
  <2>1. ASSUME NEW a \in Direcciones, a < Cardinality(Ocupadas)
        PROVE  memoria[CHOOSE d \in Ocupadas : Compactada(d) = a] \in Byte
    <3>1. a \in Nat
      BY DEF Direcciones
    <3>2. \E d \in Ocupadas : Cuantas(Ocupadas, d) = a
      BY <1>5, <2>1, <3>1, CuantasLlena
    <3>3. \E d \in Ocupadas : Compactada(d) = a
      BY <3>2 DEF Compactada, Cuantas, Debajo
    <3>4. (CHOOSE d \in Ocupadas : Compactada(d) = a) \in Direcciones
      BY <1>5, <3>3
    <3> QED
      BY <1>2, <3>4
  <2> QED
    BY <1>1, <1>2, <2>1
<1>12. compac' \in [valor : BOOLEAN, sem : BOOLEAN, quien : Cpus \cup {Nadie}]
  BY <1>1 DEF SinCompac
<1>13. desalojo' \subseteq Pids
  BY <1>2, <1>4, <1>8
<1>14. Resto'
  BY <1>1, <1>11, <1>12, <1>13 DEF Tipos, Resto
<1> QED
  BY <1>9, <1>10, <1>14 DEF Tipos

LEMMA TiposMemFree ==
    ASSUME IInv, Tipos, NEW c \in Cpus, EjecutarMemFree(c)
    PROVE  Tipos'
<1> DEFINE id == Actual(c).id
<1>1. /\ cpu[c].fase = "fetch"
      /\ desalojo' = desalojo \cup {cpu[c].pid}
      /\ UNCHANGED <<memoria, sticks_km, ms, pendientes, estado, pedido, salida, compac,
                     canal_sano, perdidos>>
  BY DEF EjecutarMemFree, AntesDe, En, Marcar, Pid
<1>2. /\ contextos' = [contextos EXCEPT ![cpu[c].pid].tabla = SinElDe(@, id)]
      /\ cpu' = [cpu EXCEPT ![c].fase = "interrupt", ![c].ctx.reg = Avanzar(@),
                            ![c].ctx.tabla = SinElDe(@, id)]
  BY PasoMemFree DEF Pid
<1>3. /\ cpu[c].ctx \in Contexto /\ Reg(c) \in BancoRegistros /\ cpu[c].pid \in Pids
      /\ cpu[c].ctx.tabla \in Seq(Segmento)
      /\ contextos[cpu[c].pid] \in Contexto /\ DOMAIN cpu = Cpus /\ FormaCpu(c)
  BY <1>1, EnFetchBien
<1> HIDE DEF id
<1>4. SinElDe(cpu[c].ctx.tabla, id) \in Seq(Segmento)
  BY <1>3, SinElDeBien
<1>5. Avanzar(Reg(c)) \in BancoRegistros
  BY <1>3, AvanzarBanco
<1>6. /\ cpu'[c].fase = "interrupt" /\ cpu'[c].pid = cpu[c].pid
      /\ cpu'[c].sticks = cpu[c].sticks /\ cpu'[c].avisos = cpu[c].avisos
      /\ cpu'[c].acceso = cpu[c].acceso
      /\ \A d \in Cpus \ {c} : cpu'[d] = cpu[d]
  BY <1>2, <1>3 DEF FormaCpu
<1>7. cpu'[c].ctx \in Contexto
  <2> DEFINE x == [cpu[c].ctx EXCEPT !.reg = Avanzar(Reg(c))]
  <2>1. x \in Contexto /\ x.tabla = cpu[c].ctx.tabla
    BY <1>3, <1>5, ContextoTiene
  <2>2. cpu'[c].ctx = [x EXCEPT !.tabla = SinElDe(cpu[c].ctx.tabla, id)]
    BY <1>2, <1>3, <2>1, ContextoTiene DEF FormaCpu, Reg
  <2> HIDE DEF x
  <2> QED
    BY <1>4, <2>1, <2>2, ContextoTiene
<1>8. CpuBien(c)'
  <2>1. cpu[c].pid \in desalojo'
    BY <1>1
  <2> QED
    BY <1>6, <1>7, <2>1, MarcadaBien
<1>9. \A p \in Pids \ {cpu[c].pid} : contextos'[p] = contextos[p]
  BY <1>2
<1>10. contextos'[cpu[c].pid] \in Contexto
  <2>1. DOMAIN contextos = Pids
    BY DEF IInv, Forma
  <2>2. contextos'[cpu[c].pid]
          = [contextos[cpu[c].pid] EXCEPT !.tabla = SinElDe(contextos[cpu[c].pid].tabla, id)]
    BY <1>2, <1>3, <2>1
  <2>3. SinElDe(contextos[cpu[c].pid].tabla, id) \in Seq(Segmento)
    BY <1>3, ContextoTiene, SinElDeBien
  <2> QED
    BY <1>3, <2>2, <2>3, ContextoTiene
<1>11. ContextosBien'
  BY <1>9, <1>10 DEF Tipos, ContextosBien
<1>12. \A d \in Cpus : CpuBien(d)'
  BY <1>1, <1>6, <1>8, <1>9, BienDeUna
<1>13. Resto'
  BY <1>1, <1>3 DEF Tipos, Resto
<1> QED
  BY <1>11, <1>12, <1>13 DEF Tipos

-----------------------------------------------------------------------------
(* Types: the other steps *)

LEMMA TiposSyscall ==
    ASSUME IInv, Tipos, NEW c \in Cpus, EjecutarSyscall(c)
    PROVE  Tipos'
<1>1. /\ cpu[c].fase = "fetch"
      /\ cpu' = Cumplida(c, Avanzar(Reg(c)))
      /\ desalojo' = desalojo \/ desalojo' = desalojo \cup {cpu[c].pid}
      /\ UNCHANGED <<contextos, memoria, sticks_km, ms, pendientes, estado, pedido,
                     salida, compac, canal_sano, perdidos>>
  BY DEF EjecutarSyscall, AntesDe, En, Marcar, Pid
<1>2. /\ cpu[c].ctx \in Contexto /\ Reg(c) \in BancoRegistros /\ cpu[c].pid \in Pids
      /\ contextos[cpu[c].pid] \in Contexto /\ Forma
  BY <1>1, EnFetchBien DEF IInv
<1>3. Avanzar(Reg(c)) \in BancoRegistros
  BY <1>2, AvanzarBanco
<1>4. \A d \in Cpus \ {c} : cpu'[d] = cpu[d]
  BY <1>1, <1>2 DEF Forma, Cumplida
<1>5. CpuBien(c)'
  BY <1>1, <1>2, <1>3, CumplidaBien
<1>6. \A d \in Cpus : CpuBien(d)'
  BY <1>1, <1>4, <1>5, BienDeUna
<1>7. ContextosBien' /\ Resto'
  BY <1>1, <1>2 DEF Tipos, ContextosBien, Resto
<1> QED
  BY <1>6, <1>7 DEF Tipos

LEMMA TiposEspera ==
    ASSUME IInv, Tipos, NEW c \in Cpus, EjecutarEspera(c)
    PROVE  Tipos'
<1> DEFINE i == Actual(c)
           pide == IF i.op \in {"STDIN", "STDOUT"}
                   THEN [op |-> i.op, dir |-> Reg(c)[i.dir], tam |-> Reg(c)[i.tam]]
                   ELSE SinPedido
<1>1. /\ cpu[c].fase = "fetch"
      /\ estado' = [estado EXCEPT ![cpu[c].pid] = "BLOCK"]
      /\ pedido' = [pedido EXCEPT ![cpu[c].pid] = pide]
      /\ cpu' = Cumplida(c, Avanzar(Reg(c)))
      /\ desalojo' = desalojo \cup {cpu[c].pid}
      /\ UNCHANGED <<contextos, memoria, sticks_km, ms, pendientes, salida, compac,
                     canal_sano, perdidos>>
  BY DEF EjecutarEspera, AntesDe, En, Marcar, Pid
<1>2. /\ cpu[c].ctx \in Contexto /\ Reg(c) \in BancoRegistros /\ cpu[c].pid \in Pids
      /\ contextos[cpu[c].pid] \in Contexto /\ Forma /\ BienFormada(Actual(c))
  BY <1>1, EnFetchBien DEF IInv
<1>3. Avanzar(Reg(c)) \in BancoRegistros
  BY <1>2, AvanzarBanco
<1>4. \A d \in Cpus \ {c} : cpu'[d] = cpu[d]
  BY <1>1, <1>2 DEF Forma, Cumplida
<1>5. CpuBien(c)'
  BY <1>1, <1>2, <1>3, CumplidaBien
<1>6. \A d \in Cpus : CpuBien(d)'
  BY <1>1, <1>4, <1>5, BienDeUna
<1>7. pide \in [op : {"nada", "STDIN", "STDOUT"}, dir : Palabra, tam : Palabra]
  <2>1. CASE i.op \in {"STDIN", "STDOUT"}
    <3>1. i.dir \in Registros /\ i.tam \in Registros
      BY <1>2, <2>1 DEF BienFormada
    <3>2. Reg(c)[i.dir] \in Palabra /\ Reg(c)[i.tam] \in Palabra
      BY <1>2, <3>1, BancoTiene
    <3> QED
      BY <2>1, <3>2
  <2>2. CASE i.op \notin {"STDIN", "STDOUT"}
    BY <2>2, Palabras DEF SinPedido
  <2> QED
    BY <2>1, <2>2
<1> HIDE DEF pide
<1>8. estado' \in [Pids -> {"READY", "RUNNING", "BLOCK", "EXIT"}] /\ desalojo' \subseteq Pids
  BY <1>1, <1>2 DEF Tipos, Resto
<1>9. \A p \in Pids : pedido'[p] \in [op : {"nada", "STDIN", "STDOUT"}, dir : Palabra,
                                      tam : Palabra]
  <2> SUFFICES ASSUME NEW p \in Pids
               PROVE  pedido'[p] \in [op : {"nada", "STDIN", "STDOUT"}, dir : Palabra,
                                      tam : Palabra]
    OBVIOUS
  <2>1. pedido[p] \in [op : {"nada", "STDIN", "STDOUT"}, dir : Palabra, tam : Palabra]
    BY DEF Tipos, Resto
  <2>2. pedido'[p] = pedido[p] \/ pedido'[p] = pide
    BY <1>1
  <2> QED
    BY <1>7, <2>1, <2>2
<1>10. ContextosBien' /\ Resto'
  BY <1>1, <1>8, <1>9 DEF Tipos, ContextosBien, Resto
<1> QED
  BY <1>6, <1>10 DEF Tipos

LEMMA TiposExit ==
    ASSUME IInv, Tipos, NEW c \in Cpus, EjecutarExit(c)
    PROVE  Tipos'
<1>1. /\ cpu[c].fase = "fetch"
      /\ cpu' = [cpu EXCEPT ![c].fase = "finalizando", ![c].ctx = Nadie, ![c].avisos = 1]
      /\ UNCHANGED <<contextos, memoria, sticks_km, ms, pendientes, estado, desalojo, pedido,
                     salida, compac, canal_sano, perdidos>>
  BY DEF EjecutarExit, AntesDe, En
<1>2. cpu[c].pid \in Pids /\ DOMAIN cpu = Cpus /\ FormaCpu(c)
  BY <1>1, EnFetchBien
<1>3. /\ cpu'[c].fase = "finalizando" /\ cpu'[c].pid = cpu[c].pid /\ cpu'[c].ctx = Nadie
      /\ cpu'[c].sticks = cpu[c].sticks /\ cpu'[c].avisos = 1
      /\ cpu'[c].acceso = cpu[c].acceso
      /\ \A d \in Cpus \ {c} : cpu'[d] = cpu[d]
  BY <1>1, <1>2 DEF FormaCpu
<1>4. CpuBien(c)'
  BY <1>2, <1>3, SueltaBien
<1>5. \A d \in Cpus : CpuBien(d)'
  BY <1>1, <1>3, <1>4, BienDeUna
<1>6. ContextosBien' /\ Resto'
  BY <1>1 DEF Tipos, ContextosBien, Resto
<1> QED
  BY <1>5, <1>6 DEF Tipos

LEMMA TiposFinalizar ==
    ASSUME IInv, Tipos, NEW c \in Cpus, Finalizar(c)
    PROVE  Tipos'
<1>1. /\ cpu[c].fase = "finalizando" \/ (cpu[c].acceso.fallo /\ cpu[c].avisos > 0)
      /\ contextos' = [contextos EXCEPT ![cpu[c].pid] = Nadie]
      /\ estado' = [estado EXCEPT ![cpu[c].pid] = "EXIT"]
      /\ cpu' = IF cpu[c].fase = "finalizando" /\ cpu[c].avisos <= 1 THEN Libre(c)
                ELSE [cpu EXCEPT ![c].avisos = @ - 1]
      /\ UNCHANGED <<memoria, sticks_km, ms, pendientes, desalojo, pedido, salida,
                     compac, canal_sano, perdidos>>
  BY DEF Finalizar, En, Pid
<1>2. Forma /\ SegunFase(c) /\ CpuBien(c) /\ FormaCpu(c)
  BY DEF IInv, Forma, Tipos
<1>3. CpuBien(c)' /\ \A d \in Cpus \ {c} : cpu'[d] = cpu[d]
  <2>1. CASE cpu[c].fase = "finalizando" /\ cpu[c].avisos <= 1
    <3>1. cpu' = Libre(c)
      BY <1>1, <2>1
    <3> QED
      BY <1>2, <3>1, LibreBien DEF Forma, Libre
  <2>2. CASE ~(cpu[c].fase = "finalizando" /\ cpu[c].avisos <= 1)
    <3>1. cpu' = [cpu EXCEPT ![c].avisos = @ - 1]
      BY <1>1, <2>2
    <3>2. cpu[c].avisos \in 0 .. 2 /\ cpu[c].avisos > 0
      BY <1>1, <1>2, <2>2 DEF CpuBien
    <3>3. /\ cpu'[c].fase = cpu[c].fase /\ cpu'[c].pid = cpu[c].pid /\ cpu'[c].ctx = cpu[c].ctx
          /\ cpu'[c].sticks = cpu[c].sticks /\ cpu'[c].acceso = cpu[c].acceso
          /\ cpu'[c].avisos = cpu[c].avisos - 1
          /\ \A d \in Cpus \ {c} : cpu'[d] = cpu[d]
      BY <1>2, <3>1 DEF Forma, FormaCpu
    <3>4. ~EnUso(c)' /\ cpu[c].fase # "espera"
      BY <1>1, <1>2, <3>3 DEF SegunFase, EnUso, EnAcceso, Confia
    <3>5. Actual(c)' = Actual(c) /\ Reg(c)' = Reg(c)
      BY <3>3 DEF Actual, Pid, Reg
    <3>6. cpu'[c].avisos \in 0 .. 2
      BY <3>2, <3>3
    <3> QED
      BY <1>2, <3>3, <3>4, <3>5, <3>6 DEF CpuBien
  <2> QED
    BY <2>1, <2>2
<1>4. \A p \in Pids \ {cpu[c].pid} : contextos'[p] = contextos[p]
  BY <1>1
<1>5. \A d \in Cpus : CpuBien(d)'
  BY <1>1, <1>3, <1>4, BienDeUna
<1>6. ContextosBien'
  BY <1>1, <1>2 DEF Tipos, ContextosBien, Forma
<1>7. estado' \in [Pids -> {"READY", "RUNNING", "BLOCK", "EXIT"}]
  BY <1>1 DEF Tipos, Resto
<1>8. Resto'
  BY <1>1, <1>7 DEF Tipos, Resto
<1> QED
  BY <1>5, <1>6, <1>8 DEF Tipos

LEMMA TiposInterrupt ==
    ASSUME IInv, Tipos, NEW c \in Cpus, Interrupt(c)
    PROVE  Tipos'
<1>1. /\ cpu[c].fase = "interrupt"
      /\ desalojo' = desalojo \/ desalojo' = desalojo \ {cpu[c].pid}
      /\ UNCHANGED <<contextos, memoria, sticks_km, ms, estado, pedido, salida, compac,
                     canal_sano, perdidos>>
  BY DEF Interrupt, En, Pid
<1>2. cpu[c].fase \in ConContexto
  BY <1>1 DEF ConContexto
<1>3. /\ cpu[c].ctx \in Contexto /\ FormaCpu(c) /\ DOMAIN cpu = Cpus /\ Forma /\ CpuBien(c)
      /\ pendientes \in Seq(Sticks)
  BY <1>2, ConContextoBien DEF IInv, Tipos, Resto
<1>4. /\ CpuBien(c)' /\ \A d \in Cpus \ {c} : cpu'[d] = cpu[d]
      /\ pendientes' \in Seq(Sticks)
  <2>1. CASE cpu' = [cpu EXCEPT ![c].fase = "guardar"] /\ UNCHANGED pendientes
    BY <1>3, <2>1, FaseBien
  <2>2. CASE /\ cpu[c].pid \notin desalojo
             /\ \E x : x \subseteq Sticks /\ cpu' = [cpu EXCEPT ![c].fase = "fetch", ![c].sticks = x]
             /\ pendientes' \in Seq(Sticks)
    <3>1. PICK x : x \subseteq Sticks /\ cpu' = [cpu EXCEPT ![c].fase = "fetch", ![c].sticks = x]
      BY <2>2
    <3>2. /\ cpu'[c].fase = "fetch" /\ cpu'[c].pid = cpu[c].pid /\ cpu'[c].ctx = cpu[c].ctx
          /\ cpu'[c].sticks = x /\ cpu'[c].acceso = cpu[c].acceso
          /\ cpu'[c].avisos = cpu[c].avisos
          /\ \A d \in Cpus \ {c} : cpu'[d] = cpu[d]
      BY <1>3, <3>1 DEF FormaCpu
    <3>3. contextos'[cpu[c].pid] \in Contexto
      BY <1>1, <1>3, <2>2 DEF EnUso, CpuBien
    <3>4. "fetch" \in Fases
      BY DEF Fases, Confia
    <3>5. CpuBien(c)'
      BY <1>3, <3>1, <3>2, <3>3, <3>4 DEF CpuBien
    <3> QED
      BY <2>2, <3>2, <3>5
  <2>3. CASE /\ cpu[c].pid \notin desalojo /\ pendientes # <<>>
             /\ cpu' = [cpu EXCEPT ![c].fase = "fetch", ![c].sticks = @ \cup {Head(pendientes)}]
             /\ pendientes' = Tail(pendientes)
    <3> DEFINE x == cpu[c].sticks \cup {Head(pendientes)}
    <3>1. Head(pendientes) \in Sticks /\ pendientes' \in Seq(Sticks)
      BY <1>3, <2>3
    <3>2. x \subseteq Sticks
      BY <1>3, <3>1 DEF CpuBien
    <3>3. cpu' = [cpu EXCEPT ![c].fase = "fetch", ![c].sticks = x]
      BY <1>3, <2>3 DEF FormaCpu
    <3> HIDE DEF x
    <3> QED
      BY <2>2, <2>3, <3>1, <3>2, <3>3
  <2>4. CASE /\ cpu[c].pid \notin desalojo
             /\ cpu' = [cpu EXCEPT ![c].fase = "fetch"]
             /\ UNCHANGED pendientes
    <3> DEFINE x == cpu[c].sticks
    <3>1. cpu' = [cpu EXCEPT ![c].fase = "fetch", ![c].sticks = x]
      BY <1>3, <2>4 DEF FormaCpu
    <3>2. x \subseteq Sticks
      BY <1>3 DEF CpuBien
    <3> HIDE DEF x
    <3> QED
      BY <1>3, <2>2, <2>4, <3>1, <3>2
  <2> QED
    BY <2>1, <2>3, <2>4 DEF Interrupt, Pid
<1>5. \A d \in Cpus : CpuBien(d)'
  BY <1>1, <1>4, BienDeUna
<1>6. ContextosBien' /\ Resto'
  BY <1>1, <1>4 DEF Tipos, ContextosBien, Resto
<1> QED
  BY <1>5, <1>6 DEF Tipos

LEMMA TiposGuardarContexto ==
    ASSUME IInv, Tipos, NEW c \in Cpus, GuardarContexto(c)
    PROVE  Tipos'
<1>1. /\ cpu[c].fase = "guardar"
      /\ contextos' = IF contextos[cpu[c].pid] = Nadie THEN contextos
                      ELSE [contextos EXCEPT ![cpu[c].pid].reg = Reg(c)]
      /\ cpu' = [cpu EXCEPT ![c].fase = "avisar"]
      /\ UNCHANGED <<memoria, sticks_km, ms, pendientes, estado, desalojo, pedido,
                     salida, compac, canal_sano, perdidos>>
  BY DEF GuardarContexto, En, Pid
<1>2. cpu[c].fase \in ConContexto
  BY <1>1 DEF ConContexto
<1>3. Reg(c) \in BancoRegistros /\ cpu[c].pid \in Pids /\ Forma /\ ContextosBien
  BY <1>2, ConContextoBien DEF IInv, Tipos
<1>4. CpuBien(c)' /\ \A d \in Cpus \ {c} : cpu'[d] = cpu[d]
  BY <1>1, <1>3, FaseBien DEF Forma
<1>5. \A p \in Pids \ {cpu[c].pid} : contextos'[p] = contextos[p]
  BY <1>1
<1>6. contextos[cpu[c].pid] # Nadie => contextos'[cpu[c].pid] \in Contexto
  <2> SUFFICES ASSUME contextos[cpu[c].pid] # Nadie PROVE contextos'[cpu[c].pid] \in Contexto
    OBVIOUS
  <2>1. contextos[cpu[c].pid] \in Contexto
    BY <1>3 DEF ContextosBien
  <2>2. contextos'[cpu[c].pid] = [contextos[cpu[c].pid] EXCEPT !.reg = Reg(c)]
    BY <1>1, <1>3 DEF Forma
  <2> QED
    BY <1>3, <2>1, <2>2, ContextoTiene
<1>7. ContextosBien'
  BY <1>1, <1>3, <1>5, <1>6 DEF ContextosBien
<1>8. \A d \in Cpus : CpuBien(d)'
  BY <1>1, <1>4, <1>5, BienDeUna
<1>9. Resto'
  BY <1>1 DEF Tipos, Resto
<1> QED
  BY <1>7, <1>8, <1>9 DEF Tipos

LEMMA TiposAvisar ==
    ASSUME IInv, Tipos, NEW c \in Cpus, Avisar(c)
    PROVE  Tipos'
<1>1. /\ cpu' = Libre(c)
      /\ estado' = IF estado[cpu[c].pid] = "RUNNING"
                   THEN [estado EXCEPT ![cpu[c].pid] = "READY"] ELSE estado
      /\ UNCHANGED <<contextos, memoria, sticks_km, ms, pendientes, desalojo, pedido,
                     salida, compac, canal_sano, perdidos>>
  BY DEF Avisar, Pid
<1>2. Forma
  BY DEF IInv
<1>3. CpuBien(c)' /\ \A d \in Cpus \ {c} : cpu'[d] = cpu[d]
  BY <1>1, <1>2, LibreBien DEF Forma, Libre
<1>4. \A d \in Cpus : CpuBien(d)'
  BY <1>1, <1>3, BienDeUna
<1>5. estado' \in [Pids -> {"READY", "RUNNING", "BLOCK", "EXIT"}]
  BY <1>1 DEF Tipos, Resto
<1>6. ContextosBien' /\ Resto'
  BY <1>1, <1>5 DEF Tipos, ContextosBien, Resto
<1> QED
  BY <1>4, <1>6 DEF Tipos

LEMMA TiposNuevaCpu ==
    ASSUME IInv, Tipos, NEW c \in Cpus, NuevaCpu(c)
    PROVE  Tipos'
<1>1. /\ cpu[c].fase = "fuera"
      /\ cpu' = [cpu EXCEPT ![c].fase = "libre", ![c].sticks = ms]
      /\ UNCHANGED <<contextos, memoria, sticks_km, ms, pendientes, estado, desalojo,
                     pedido, salida, compac, canal_sano, perdidos>>
  BY DEF NuevaCpu, En
<1>2. /\ cpu'[c].fase = "libre" /\ cpu'[c].pid = cpu[c].pid /\ cpu'[c].ctx = cpu[c].ctx
      /\ cpu'[c].sticks = ms /\ cpu'[c].acceso = cpu[c].acceso
      /\ cpu'[c].avisos = cpu[c].avisos
      /\ \A d \in Cpus \ {c} : cpu'[d] = cpu[d]
  BY <1>1 DEF IInv, Forma, FormaCpu
<1>3. ms \subseteq Sticks
  BY DEF Tipos, Resto
<1>4. CpuBien(c)'
  BY <1>2, <1>3 DEF Tipos, CpuBien, EnUso, Fases, ConContexto, Confia
<1>5. \A d \in Cpus : CpuBien(d)'
  BY <1>1, <1>2, <1>4, BienDeUna
<1>6. ContextosBien' /\ Resto'
  BY <1>1 DEF Tipos, ContextosBien, Resto
<1> QED
  BY <1>5, <1>6 DEF Tipos

LEMMA TiposRecibirContexto ==
    ASSUME IInv, Tipos, NEW c \in Cpus, RecibirContexto(c)
    PROVE  Tipos'
<1>1. /\ cpu[c].fase = "despachada" /\ contextos[cpu[c].pid] # Nadie
      /\ cpu' = [cpu EXCEPT ![c].fase = "fetch", ![c].ctx = contextos[cpu[c].pid]]
      /\ UNCHANGED <<contextos, memoria, sticks_km, ms, pendientes, estado, desalojo,
                     pedido, salida, compac, canal_sano, perdidos>>
  BY DEF RecibirContexto, En, Pid
<1>2. cpu[c].pid \in Pids
  BY <1>1, ConProceso
<1>3. contextos[cpu[c].pid] \in Contexto
  BY <1>1, <1>2 DEF Tipos, ContextosBien
<1>4. /\ cpu'[c].fase = "fetch" /\ cpu'[c].pid = cpu[c].pid
      /\ cpu'[c].ctx = contextos[cpu[c].pid]
      /\ cpu'[c].sticks = cpu[c].sticks /\ cpu'[c].avisos = cpu[c].avisos
      /\ cpu'[c].acceso = cpu[c].acceso
      /\ \A d \in Cpus \ {c} : cpu'[d] = cpu[d]
  BY <1>1 DEF IInv, Forma, FormaCpu
<1>5. CpuBien(c)'
  BY <1>1, <1>3, <1>4 DEF Tipos, CpuBien, Fases, Confia
<1>6. \A d \in Cpus : CpuBien(d)'
  BY <1>1, <1>4, <1>5, BienDeUna
<1>7. ContextosBien' /\ Resto'
  BY <1>1 DEF Tipos, ContextosBien, Resto
<1> QED
  BY <1>6, <1>7 DEF Tipos

LEMMA TiposDespachar ==
    ASSUME IInv, Tipos, NEW p \in Pids, NEW c \in Cpus, Despachar(p, c)
    PROVE  Tipos'
<1>1. /\ cpu[c].fase = "libre" /\ estado[p] = "READY"
      /\ estado' = [estado EXCEPT ![p] = "RUNNING"]
      /\ desalojo' = desalojo \ {p}
      /\ cpu' = [cpu EXCEPT ![c].fase = "despachada", ![c].pid = p]
      /\ UNCHANGED <<contextos, memoria, sticks_km, ms, pendientes, pedido, salida,
                     compac, canal_sano, perdidos>>
  BY DEF Despachar, En
<1>2. /\ cpu'[c].fase = "despachada" /\ cpu'[c].pid = p /\ cpu'[c].ctx = cpu[c].ctx
      /\ cpu'[c].sticks = cpu[c].sticks /\ cpu'[c].avisos = cpu[c].avisos
      /\ cpu'[c].acceso = cpu[c].acceso
      /\ \A d \in Cpus \ {c} : cpu'[d] = cpu[d]
  BY <1>1 DEF IInv, Forma, FormaCpu
<1>3. CpuBien(c)'
  BY <1>1, <1>2 DEF Tipos, CpuBien, EnUso, Fases, ConContexto, Confia
<1>4. ASSUME NEW d \in Cpus, d # c PROVE CpuBien(d)'
  <2>1. cpu'[d] = cpu[d] /\ CpuBien(d) /\ SegunFase(d) /\ FormaCpu(d)
    BY <1>2, <1>4 DEF IInv, Forma, Tipos
  <2>2. Actual(d)' = Actual(d) /\ Reg(d)' = Reg(d)
    BY <2>1 DEF Actual, Pid, Reg
  <2>3. EnUso(d)' => EnUso(d)
    <3>1. cpu[d].fase = "interrupt" => cpu[d].pid # p
      BY <1>1, <2>1 DEF SegunFase, FormaCpu
    <3>2. /\ cpu'[d].fase = cpu[d].fase /\ cpu'[d].pid = cpu[d].pid
          /\ cpu'[d].acceso = cpu[d].acceso
      BY <2>1
    <3>3. ASSUME cpu[d].fase = "interrupt", cpu[d].pid \in desalojo'
          PROVE  cpu[d].pid \in desalojo
      BY <1>1, <3>3
    <3>4. ASSUME cpu[d].fase = "interrupt", cpu[d].pid \notin desalojo'
          PROVE  cpu[d].pid \notin desalojo
      BY <1>1, <3>1, <3>4
    <3> QED
      BY <1>1, <3>1, <3>2, <3>3, <3>4 DEF EnUso
  <2> QED
    BY <1>1, <2>1, <2>2, <2>3 DEF CpuBien
<1>5. \A d \in Cpus : CpuBien(d)'
  BY <1>3, <1>4
<1>6. /\ estado' \in [Pids -> {"READY", "RUNNING", "BLOCK", "EXIT"}] /\ desalojo' \subseteq Pids
  BY <1>1 DEF Tipos, Resto
<1>7. ContextosBien' /\ Resto'
  BY <1>1, <1>6 DEF Tipos, ContextosBien, Resto
<1> QED
  BY <1>5, <1>7 DEF Tipos

\* A step no CPU takes part in.
LEMMA BienDeNinguna ==
    ASSUME IInv, Tipos, UNCHANGED <<cpu, contextos>>,
           compac'.quien = compac.quien, desalojo \subseteq desalojo'
    PROVE  (\A d \in Cpus : CpuBien(d)') /\ ContextosBien'
<1>1. ASSUME NEW d \in Cpus PROVE CpuBien(d)'
  <2>1. CpuBien(d)
    BY DEF Tipos
  <2>2. Actual(d)' = Actual(d) /\ Reg(d)' = Reg(d)
    BY DEF Actual, Pid, Reg
  <2>3. EnUso(d)' => EnUso(d)
    BY DEF EnUso
  <2> QED
    BY <2>1, <2>2, <2>3 DEF CpuBien
<1>2. ContextosBien'
  BY DEF Tipos, ContextosBien
<1> QED
  BY <1>1, <1>2

\* A request that Kernel Memory carries out lies in addresses that exist.
LEMMA PedidoCabe ==
    ASSUME Tipos, NEW p \in Pids, DirPedido(p) # Nadie, CabeEnUnStick(p)
    PROVE  /\ DirPedido(p) \in Nat /\ pedido[p].tam \in Nat
           /\ \A d \in DirPedido(p) .. DirPedido(p) + pedido[p].tam - 1 : d \in Direcciones
<1>1. /\ pedido[p].dir \in Nat /\ pedido[p].tam \in Nat
      /\ ContextosBien /\ sticks_km \in Sticks
  <2>1. pedido[p] \in [op : {"nada", "STDIN", "STDOUT"}, dir : Palabra, tam : Palabra]
    BY DEF Tipos, Resto
  <2>2. pedido[p].dir \in Palabra /\ pedido[p].tam \in Palabra
    BY <2>1
  <2> QED
    BY <2>2, Palabras DEF Tipos, Resto
<1>2. SEGMENT_MAX_SIZE \in Nat \ {0}
  BY CPUAssumption
<1>3. Tabla(p) \in Seq(Segmento)
  BY <1>1, TablaBien
<1>4. DirPedido(p) \in Nat
  <2> DEFINE x == Traducir(Tabla(p), SEGMENT_MAX_SIZE, pedido[p].dir, pedido[p].tam)
  <2>1. x = DirPedido(p)
    BY DEF DirPedido
  <2>2. x # Nadie
    BY <2>1
  <2>3. PICK k \in 1 .. Len(Tabla(p)) :
           x = Tabla(p)[k].base + (pedido[p].dir % SEGMENT_MAX_SIZE)
    BY <1>1, <1>2, <1>3, <2>2, TraducirBien
  <2>4. Tabla(p)[k] \in Segmento
    BY <1>3
  <2>5. Tabla(p)[k].base \in Nat
    BY <2>4 DEF Segmento
  <2>6. pedido[p].dir % SEGMENT_MAX_SIZE \in Nat
    BY <1>1, <1>2, RestoMenor
  <2>7. x \in Nat
    BY <2>3, <2>5, <2>6
  <2> QED
    BY <2>1, <2>7
<1>5. /\ Fin \in Nat /\ BaseStick[Len(TamanioStick) + 1] \in Nat
      /\ Fin <= BaseStick[Len(TamanioStick) + 1]
  BY <1>1, FinBienDefinido
<1>6. DirPedido(p) < Fin /\ DirPedido(p) + pedido[p].tam <= FinStick(DirPedido(p))
  BY DEF CabeEnUnStick
<1>7. DirPedido(p) \in Direcciones
  BY <1>4, <1>5, <1>6 DEF Direcciones
<1>8. FinStick(DirPedido(p)) \in Nat
      /\ FinStick(DirPedido(p)) <= BaseStick[Len(TamanioStick) + 1]
  BY <1>7, StickDeBien
<1> QED
  BY <1>1, <1>4, <1>5, <1>6, <1>8 DEF Direcciones

\* To have asked for nothing has the type of a request.
LEMMA SinPedidoBien ==
    SinPedido \in [op : {"nada", "STDIN", "STDOUT"}, dir : Palabra, tam : Palabra]
BY Palabras DEF SinPedido

LEMMA TiposEscribirStdin ==
    ASSUME IInv, Tipos, NEW p \in Pids, EscribirStdin(p)
    PROVE  Tipos'
<1> DEFINE dir == DirPedido(p)
           tam == pedido[p].tam
<1>1. /\ pedido' = [pedido EXCEPT ![p] = SinPedido]
      /\ UNCHANGED <<cpu, contextos, sticks_km, ms, pendientes, estado, desalojo,
                     salida, compac, canal_sano>>
      /\ perdidos' = perdidos \/ perdidos' = perdidos \cup {p}
  BY DEF EscribirStdin
<1>2. memoria \in [Direcciones -> Byte]
  BY DEF Tipos, Resto
<1>3. memoria' \in [Direcciones -> Byte]
  <2>1. CASE memoria' = memoria
    BY <1>2, <2>1
  <2>2. CASE /\ dir # Nadie /\ CabeEnUnStick(p)
             /\ \E bytes \in [1 .. tam -> Entradas] :
                  memoria' = [d \in Direcciones |->
                      IF d \in dir .. dir + tam - 1 THEN bytes[d - dir + 1] ELSE memoria[d]]
    <3>1. PICK bytes \in [1 .. tam -> Entradas] :
             memoria' = [d \in Direcciones |->
                 IF d \in dir .. dir + tam - 1 THEN bytes[d - dir + 1] ELSE memoria[d]]
      BY <2>2
    <3>2. dir \in Nat /\ tam \in Nat
      BY <2>2, PedidoCabe
    <3>3. Entradas \subseteq Byte
      BY CPUAssumption
    <3> HIDE DEF dir, tam
    <3>4. ASSUME NEW d \in dir .. dir + tam - 1 PROVE bytes[d - dir + 1] \in Byte
      <4>1. d - dir + 1 \in 1 .. tam
        BY <3>2
      <4> QED
        BY <3>3, <4>1
    <3> QED
      BY <1>2, <3>1, <3>4
  <2> QED
    BY <2>1, <2>2 DEF EscribirStdin
<1>4. (\A d \in Cpus : CpuBien(d)') /\ ContextosBien'
  BY <1>1, BienDeNinguna
<1>5. \A q \in Pids : pedido'[q] \in [op : {"nada", "STDIN", "STDOUT"}, dir : Palabra,
                                      tam : Palabra]
  <2> SUFFICES ASSUME NEW q \in Pids
               PROVE  pedido'[q] \in [op : {"nada", "STDIN", "STDOUT"}, dir : Palabra,
                                      tam : Palabra]
    OBVIOUS
  <2>1. pedido[q] \in [op : {"nada", "STDIN", "STDOUT"}, dir : Palabra, tam : Palabra]
    BY DEF Tipos, Resto
  <2>2. pedido'[q] = pedido[q] \/ pedido'[q] = SinPedido
    BY <1>1
  <2> QED
    BY <2>1, <2>2, SinPedidoBien
<1>6. Resto'
  BY <1>1, <1>3, <1>5 DEF Tipos, Resto
<1> QED
  BY <1>4, <1>6 DEF Tipos

LEMMA TiposLeerStdout ==
    ASSUME IInv, Tipos, NEW p \in Pids, LeerStdout(p)
    PROVE  Tipos'
<1> DEFINE dir == DirPedido(p)
           tam == pedido[p].tam
<1>1. /\ UNCHANGED <<cpu, contextos, memoria, sticks_km, ms, pendientes, estado, desalojo,
                     compac>>
      /\ canal_sano' = canal_sano \/ canal_sano' = FALSE
      /\ perdidos' = perdidos \/ perdidos' = perdidos \cup {p}
      /\ pedido' = pedido \/ pedido' = [pedido EXCEPT ![p] = SinPedido]
  BY DEF LeerStdout
<1>2. memoria \in [Direcciones -> Byte] /\ salida \in [Pids -> Seq(Byte)]
  BY DEF Tipos, Resto
<1>3. salida' \in [Pids -> Seq(Byte)]
  <2>1. CASE salida' = salida
    BY <1>2, <2>1
  <2>2. CASE /\ dir # Nadie /\ CabeEnUnStick(p)
             /\ salida' = [salida EXCEPT ![p] = [k \in 1 .. tam |-> memoria[dir + k - 1]]]
    <3>1. /\ dir \in Nat /\ tam \in Nat
          /\ \A d \in dir .. dir + tam - 1 : d \in Direcciones
      BY <2>2, PedidoCabe
    <3> HIDE DEF dir, tam
    <3> DEFINE s == [k \in 1 .. tam |-> memoria[dir + k - 1]]
    <3>2. ASSUME NEW k \in 1 .. tam PROVE memoria[dir + k - 1] \in Byte
      <4>1. dir + k - 1 \in dir .. dir + tam - 1
        BY <3>1
      <4>2. dir + k - 1 \in Direcciones
        BY <3>1, <4>1
      <4> QED
        BY <1>2, <4>2
    <3>3. s \in Seq(Byte)
      BY <3>1, <3>2
    <3>4. salida' = [salida EXCEPT ![p] = s]
      BY <2>2
    <3> HIDE DEF s
    <3> QED
      BY <1>2, <3>3, <3>4
  <2> QED
    BY <2>1, <2>2 DEF LeerStdout
<1>4. (\A d \in Cpus : CpuBien(d)') /\ ContextosBien'
  BY <1>1, BienDeNinguna
<1>5. \A q \in Pids : pedido'[q] \in [op : {"nada", "STDIN", "STDOUT"}, dir : Palabra,
                                      tam : Palabra]
  <2> SUFFICES ASSUME NEW q \in Pids
               PROVE  pedido'[q] \in [op : {"nada", "STDIN", "STDOUT"}, dir : Palabra,
                                      tam : Palabra]
    OBVIOUS
  <2>1. pedido[q] \in [op : {"nada", "STDIN", "STDOUT"}, dir : Palabra, tam : Palabra]
    BY DEF Tipos, Resto
  <2>2. pedido'[q] = pedido[q] \/ pedido'[q] = SinPedido
    <3>1. CASE pedido' = pedido
      BY <3>1
    <3>2. CASE pedido' = [pedido EXCEPT ![p] = SinPedido]
      BY <3>2 DEF IInv, Forma
    <3> QED
      BY <1>1, <3>1, <3>2
  <2> QED
    BY <2>1, <2>2, SinPedidoBien
<1>6. canal_sano' \in BOOLEAN /\ perdidos' \subseteq Pids
  BY <1>1 DEF Tipos, Resto
<1>7. Resto'
  BY <1>1, <1>3, <1>5, <1>6 DEF Tipos, Resto
<1> QED
  BY <1>4, <1>7 DEF Tipos

LEMMA TiposKernel ==
    ASSUME IInv, Tipos, PasoKernel
    PROVE  Tipos'
<1>1. CASE ConectarStick
  <2>1. /\ sticks_km' = sticks_km + 1 /\ sticks_km < Len(TamanioStick)
        /\ UNCHANGED <<cpu, contextos, memoria, ms, pendientes, estado, desalojo, pedido,
                       salida, compac, canal_sano, perdidos>>
    BY <1>1 DEF ConectarStick
  <2>2. (\A d \in Cpus : CpuBien(d)') /\ ContextosBien'
    BY <2>1, BienDeNinguna
  <2>3. sticks_km' \in Sticks
    <3>1. Len(TamanioStick) \in Nat
      BY BaseStickValores
    <3>2. sticks_km \in 1 .. Len(TamanioStick)
      BY DEF Tipos, Resto, Sticks
    <3> QED
      BY <2>1, <3>1, <3>2 DEF Sticks
  <2>4. Resto'
    BY <2>1, <2>3 DEF Tipos, Resto
  <2> QED
    BY <2>2, <2>4 DEF Tipos
<1>2. CASE \E m \in Sticks : RecibirNuevaMemoryStick(m)
  <2>1. PICK m \in Sticks : RecibirNuevaMemoryStick(m)
    BY <1>2
  <2>2. /\ ms' = ms \cup {m} /\ pendientes' = Append(pendientes, m)
        /\ UNCHANGED <<cpu, contextos, memoria, sticks_km, estado, desalojo, pedido,
                       salida, compac, canal_sano, perdidos>>
    BY <2>1 DEF RecibirNuevaMemoryStick
  <2>3. (\A d \in Cpus : CpuBien(d)') /\ ContextosBien'
    BY <2>2, BienDeNinguna
  <2>4. pendientes' \in Seq(Sticks) /\ ms' \subseteq Sticks
    BY <2>2 DEF Tipos, Resto
  <2>5. Resto'
    BY <2>2, <2>4 DEF Tipos, Resto
  <2> QED
    BY <2>3, <2>5 DEF Tipos
<1>3. CASE \E p \in Pids, c \in Cpus : Despachar(p, c)
  BY <1>3, TiposDespachar
<1>4. CASE TomarCompactacion
  <2>1. /\ compac' = [compac EXCEPT !.sem = TRUE]
        /\ UNCHANGED <<cpu, contextos, memoria, sticks_km, ms, pendientes, estado,
                       desalojo, pedido, salida, canal_sano, perdidos>>
    BY <1>4 DEF TomarCompactacion
  <2>2. /\ compac' \in [valor : BOOLEAN, sem : BOOLEAN, quien : Cpus \cup {Nadie}]
        /\ compac'.quien = compac.quien
    BY <2>1 DEF Tipos, Resto
  <2>3. (\A d \in Cpus : CpuBien(d)') /\ ContextosBien'
    BY <2>1, <2>2, BienDeNinguna
  <2>4. Resto'
    BY <2>1, <2>2 DEF Tipos, Resto
  <2> QED
    BY <2>3, <2>4 DEF Tipos
<1>5. CASE \E p \in Pids : MarcarDesalojo(p)
  <2>1. PICK p \in Pids : MarcarDesalojo(p)
    BY <1>5
  <2>2. /\ desalojo' = desalojo \cup {p}
        /\ UNCHANGED <<cpu, contextos, memoria, sticks_km, ms, pendientes, estado, pedido,
                       salida, compac, canal_sano, perdidos>>
    BY <2>1 DEF MarcarDesalojo, Marcar
  <2>3. (\A d \in Cpus : CpuBien(d)') /\ ContextosBien'
    BY <2>2, BienDeNinguna
  <2>4. Resto'
    BY <2>2 DEF Tipos, Resto
  <2> QED
    BY <2>3, <2>4 DEF Tipos
<1>6. CASE \E p \in Pids : EscribirStdin(p)
  BY <1>6, TiposEscribirStdin
<1>7. CASE \E p \in Pids : LeerStdout(p)
  BY <1>7, TiposLeerStdout
<1>8. CASE \E p \in Pids : Despertar(p)
  <2>1. PICK p \in Pids : Despertar(p)
    BY <1>8
  <2>2. /\ estado' = [estado EXCEPT ![p] = "READY"]
        /\ UNCHANGED <<cpu, contextos, memoria, sticks_km, ms, pendientes, desalojo, pedido,
                       salida, compac, canal_sano, perdidos>>
    BY <2>1 DEF Despertar
  <2>3. (\A d \in Cpus : CpuBien(d)') /\ ContextosBien'
    BY <2>2, BienDeNinguna
  <2>4. estado' \in [Pids -> {"READY", "RUNNING", "BLOCK", "EXIT"}]
    BY <2>2 DEF Tipos, Resto
  <2>5. Resto'
    BY <2>2, <2>4 DEF Tipos, Resto
  <2> QED
    BY <2>3, <2>5 DEF Tipos
<1> QED
  BY <1>1, <1>2, <1>3, <1>4, <1>5, <1>6, <1>7, <1>8 DEF PasoKernel

LEMMA TiposSigue ==
    ASSUME IInv, Tipos, EnMemoria, [Next]_vars
    PROVE  Tipos'
<1>1. CASE PasoKernel
  BY <1>1, TiposKernel
<1>2. CASE \E c \in Cpus : PasoCpu(c)
  BY <1>2, TiposNuevaCpu, TiposRecibirContexto, TiposCalculo, TiposMovIn, TiposMovOut,
     TiposCopyMem, TiposLeerPieza, TiposEscribirPieza, TiposAccesoSinStick, TiposMemAlloc,
     TiposCompactar, TiposMemFree, TiposSyscall, TiposEspera, TiposExit, TiposFinalizar,
     TiposInterrupt, TiposGuardarContexto, TiposAvisar
     DEF PasoCpu
<1>3. CASE UNCHANGED vars
  <2>1. UNCHANGED <<cpu, contextos, memoria, sticks_km, ms, pendientes, estado, desalojo,
                    pedido, salida, compac, canal_sano, perdidos>>
    BY <1>3 DEF vars
  <2>2. (\A d \in Cpus : CpuBien(d)') /\ ContextosBien'
    BY <2>1, BienDeNinguna
  <2>3. Resto'
    BY <2>1 DEF Tipos, Resto
  <2> QED
    BY <2>2, <2>3 DEF Tipos
<1> QED
  BY <1>1, <1>2, <1>3 DEF Next

LEMMA TiposInicio ==
    ASSUME Init
    PROVE  Tipos
<1>1. \A c \in Cpus : CpuBien(c)
  BY SinAccesoBien
     DEF Init, CpuBien, EnUso, Fases, ConContexto, Confia
<1>2. ContextosBien
  <2>1. <<>> \in Seq(Segmento)
    OBVIOUS
  <2>2. [reg |-> RegistrosEnCero, tabla |-> <<>>] \in Contexto
    BY <2>1, CerosBanco DEF Contexto
  <2> QED
    BY <2>2 DEF Init, ContextosBien
<1>3. Resto
  <2>1. \A d \in Direcciones : 0 \in Byte
    BY Palabras
  <2>2. 1 .. SticksIniciales \subseteq Sticks /\ SticksIniciales \in Sticks
    <3>1. Len(TamanioStick) \in Nat
      BY BaseStickValores
    <3> QED
      BY <3>1, CPUAssumption DEF Sticks
  <2>3. <<>> \in Seq(Sticks) /\ <<>> \in Seq(Byte)
    OBVIOUS
  <2>4. SinCompac \in [valor : BOOLEAN, sem : BOOLEAN, quien : Cpus \cup {Nadie}]
    BY DEF SinCompac
  <2> QED
    BY <2>1, <2>2, <2>3, <2>4, SinPedidoBien DEF Init, Resto
<1> QED
  BY <1>1, <1>2, <1>3 DEF Tipos

-----------------------------------------------------------------------------
(* The space: segments lie in memory, those of two processes never overlap, and a *)
(* compaction under way will find the room it was started for *)

\* Two segments are apart when no cell is in both.
LEMMA ApartadosPorCeldas ==
    ASSUME NEW s \in Segmento, NEW t \in Segmento, Celdas(s) \cap Celdas(t) = {}
    PROVE  Apartados(s, t)
<1> SUFFICES ASSUME ~Apartados(s, t) PROVE FALSE
  OBVIOUS
<1>1. s.base \in Nat /\ s.tam \in Nat /\ t.base \in Nat /\ t.tam \in Nat
  BY DEF Segmento
<1>2. s.tam # 0 /\ t.tam # 0 /\ ~(s.base + s.tam <= t.base) /\ ~(t.base + t.tam <= s.base)
  BY DEF Apartados
<1>3. CASE s.base <= t.base
  <2>1. t.base \in Celdas(s) /\ t.base \in Celdas(t)
    BY <1>1, <1>2, <1>3 DEF Celdas
  <2> QED
    BY <2>1
<1>4. CASE ~(s.base <= t.base)
  <2>1. s.base \in Celdas(s) /\ s.base \in Celdas(t)
    BY <1>1, <1>2, <1>4 DEF Celdas
  <2> QED
    BY <2>1
<1> QED
  BY <1>3, <1>4

\* Of two sets, one within the other, the smaller has no more below a bound.
LEMMA CuantasMonotona ==
    ASSUME NEW S, IsFiniteSet(S), S \subseteq Nat, NEW a \in Nat, NEW b \in Nat, a <= b
    PROVE  Cuantas(S, a) <= Cuantas(S, b)
<1>1. Debajo(S, a) \in SUBSET Debajo(S, b)
  <2>1. ASSUME NEW d \in Debajo(S, a) PROVE d \in Debajo(S, b)
    <3>1. d \in Nat
      BY DEF Debajo
    <3> QED
      BY <3>1 DEF Debajo
  <2> QED
    BY <2>1
<1>2. IsFiniteSet(Debajo(S, b))
  BY DebajoFinito
<1> QED
  BY <1>1, <1>2, FS_Subset DEF Cuantas

\* Packing keeps two segments apart.
LEMMA ApartadosMovidos ==
    ASSUME NEW S, IsFiniteSet(S), S \subseteq Nat,
           NEW s \in Segmento, NEW t \in Segmento, NEW u, NEW v,
           Celdas(s) \subseteq S, Celdas(t) \subseteq S, Apartados(s, t),
           u.base = Cuantas(S, s.base), u.tam = s.tam,
           v.base = Cuantas(S, t.base), v.tam = t.tam
    PROVE  Apartados(u, v)
<1>1. s.base \in Nat /\ s.tam \in Nat /\ t.base \in Nat /\ t.tam \in Nat
  BY DEF Segmento
<1>2. Cuantas(S, s.base + s.tam) = Cuantas(S, s.base) + s.tam
  BY <1>1, CuantasIntervalo DEF Celdas
<1>3. Cuantas(S, t.base + t.tam) = Cuantas(S, t.base) + t.tam
  BY <1>1, CuantasIntervalo DEF Celdas
<1>4. s.base + s.tam \in Nat /\ t.base + t.tam \in Nat
  BY <1>1
<1>5. CASE s.base + s.tam <= t.base
  BY <1>1, <1>2, <1>4, <1>5, CuantasMonotona DEF Apartados
<1>6. CASE t.base + t.tam <= s.base
  BY <1>1, <1>3, <1>4, <1>6, CuantasMonotona DEF Apartados
<1>7. CASE s.tam = 0 \/ t.tam = 0
  BY <1>7 DEF Apartados
<1> QED
  BY <1>5, <1>6, <1>7 DEF Apartados

\* While Kernel Memory is free no CPU waits for a compaction.
LEMMA NadieEnEspera ==
    ASSUME Tipos, compac.quien = Nadie, NEW d \in Cpus
    PROVE  cpu[d].fase # "espera"
BY CPUAssumption DEF Tipos, CpuBien

\* The tables of every process, any tables, and what the space says of them.
Tablas == [p \in Pids |-> Tabla(p)]
\* Every segment of these tables ends within the memory.
Caben(T) == \A p \in Pids : \A k \in DOMAIN T[p] : T[p][k].base + T[p][k].tam <= Fin
\* No two segments of these tables share a byte.
Disjuntas(T) ==
    \A p, q \in Pids : p # q =>
        \A k \in DOMAIN T[p], j \in DOMAIN T[q] : Apartados(T[p][k], T[q][j])

\* The invariant of the space, said of the tables alone.
LEMMA EspacioDeTablas == (EnMemoria <=> Caben(Tablas)) /\ (Separados <=> Disjuntas(Tablas))
BY DEF EnMemoria, Separados, Caben, Disjuntas, Tablas

\* Segments only go.
LEMMA TablasEncogen ==
    ASSUME Espacio, UNCHANGED sticks_km,
           \A p \in Pids : \A k \in DOMAIN Tabla(p)' :
               \E i \in DOMAIN Tabla(p) : Tabla(p)'[k] = Tabla(p)[i]
    PROVE  EnMemoria' /\ Separados'
<1>1. Fin' = Fin
  BY DEF Fin
<1>2. EnMemoria'
  BY <1>1 DEF Espacio, EnMemoria
<1>3. Separados'
  <2> SUFFICES ASSUME NEW p \in Pids, NEW q \in Pids, p # q,
                      NEW k \in DOMAIN Tabla(p)', NEW j \in DOMAIN Tabla(q)'
               PROVE  Apartados(Tabla(p)'[k], Tabla(q)'[j])
    BY DEF Separados, Apartados
  <2>1. PICK i \in DOMAIN Tabla(p) : Tabla(p)'[k] = Tabla(p)[i]
    OBVIOUS
  <2>2. PICK l \in DOMAIN Tabla(q) : Tabla(q)'[j] = Tabla(q)[l]
    OBVIOUS
  <2>3. Apartados(Tabla(p)[i], Tabla(q)[l])
    BY DEF Espacio, Separados
  <2> QED
    BY <2>1, <2>2, <2>3
<1> QED
  BY <1>2, <1>3

\* A segment is added to one table.
LEMMA TablasCrecen ==
    ASSUME NEW T, \A p \in Pids : T[p] \in Seq(Segmento), Caben(T), Disjuntas(T),
           UNCHANGED sticks_km,
           NEW p \in Pids, NEW s \in Segmento, s.base + s.tam <= Fin,
           \A q \in Pids \ {p} : \A j \in DOMAIN T[q] : Apartados(s, T[q][j]),
           Tabla(p)' = Append(T[p], s),
           \A q \in Pids \ {p} : Tabla(q)' = T[q]
    PROVE  EnMemoria' /\ Separados'
<1>1. Fin' = Fin
  BY DEF Fin
<1>2. ASSUME NEW k \in DOMAIN Tabla(p)'
      PROVE  \/ k \in DOMAIN T[p] /\ Tabla(p)'[k] = T[p][k]
             \/ Tabla(p)'[k] = s
  OBVIOUS
<1>3. EnMemoria'
  <2> SUFFICES ASSUME NEW q \in Pids, NEW k \in DOMAIN Tabla(q)'
               PROVE  Tabla(q)'[k].base + Tabla(q)'[k].tam <= Fin
    BY <1>1 DEF EnMemoria
  <2>1. CASE q = p
    BY <1>2, <2>1 DEF Caben
  <2>2. CASE q # p
    BY <2>2 DEF Caben
  <2> QED
    BY <2>1, <2>2
<1>4. ASSUME NEW q \in Pids, q # p, NEW k \in DOMAIN Tabla(p)', NEW j \in DOMAIN Tabla(q)'
      PROVE  /\ Apartados(Tabla(p)'[k], Tabla(q)'[j])
             /\ Apartados(Tabla(q)'[j], Tabla(p)'[k])
  <2>1. Tabla(q)' = T[q]
    BY <1>4
  <2>2. /\ Apartados(s, T[q][j])
        /\ k \in DOMAIN T[p] => Apartados(T[p][k], T[q][j])
    BY <1>4, <2>1 DEF Disjuntas
  <2>3. Apartados(Tabla(p)'[k], Tabla(q)'[j])
    BY <1>2, <2>1, <2>2
  <2> QED
    BY <2>3 DEF Apartados
<1>5. Separados'
  <2> SUFFICES ASSUME NEW q \in Pids, NEW r \in Pids, q # r,
                      NEW k \in DOMAIN Tabla(q)', NEW j \in DOMAIN Tabla(r)'
               PROVE  Apartados(Tabla(q)'[k], Tabla(r)'[j])
    BY DEF Separados, Apartados
  <2>1. CASE q = p
    BY <1>4, <2>1
  <2>2. CASE r = p
    BY <1>4, <2>2
  <2>3. CASE q # p /\ r # p
    <3>1. Tabla(q)' = T[q] /\ Tabla(r)' = T[r]
      BY <2>3
    <3> QED
      BY <3>1 DEF Disjuntas
  <2> QED
    BY <2>1, <2>2, <2>3
<1> QED
  BY <1>3, <1>5

\* No table changes.
LEMMA EspacioIgual ==
    ASSUME Tipos, Espacio, \A p \in Pids : Tabla(p)' = Tabla(p),
           Fin \in Nat, Fin' \in Nat, Fin <= Fin',
           \A d \in Cpus : cpu'[d].fase = "espera" =>
               /\ \/ cpu[d].fase = "espera"
                  \/ Cardinality(Ocupadas) + Actual(d).tam <= Fin
               /\ Actual(d)' = Actual(d) /\ Actual(d).tam \in Nat
    PROVE  Espacio'
<1>1. ContextosBien /\ sticks_km \in Sticks
  BY DEF Tipos, Resto
<1>2. Ocupadas' = Ocupadas
  BY DEF Ocupadas
<1>3. Cardinality(Ocupadas) \in Nat
  BY <1>1, OcupadasBien DEF Espacio
<1>4. EnMemoria'
  <2> SUFFICES ASSUME NEW p \in Pids, NEW k \in DOMAIN Tabla(p)
               PROVE  Tabla(p)[k].base + Tabla(p)[k].tam <= Fin'
    BY DEF EnMemoria
  <2>1. Tabla(p)[k].base \in Nat /\ Tabla(p)[k].tam \in Nat
    BY <1>1, TablaBien
  <2>2. Tabla(p)[k].base + Tabla(p)[k].tam <= Fin
    BY DEF Espacio, EnMemoria
  <2> QED
    BY <2>1, <2>2
<1>5. Separados'
  BY DEF Espacio, Separados, Apartados
<1>6. HayLugar'
  <2> SUFFICES ASSUME NEW d \in Cpus, cpu'[d].fase = "espera"
               PROVE  Cardinality(Ocupadas) + Actual(d)'.tam <= Fin'
    BY <1>2 DEF HayLugar
  <2>1. Cardinality(Ocupadas) + Actual(d).tam <= Fin
    BY DEF Espacio, HayLugar
  <2> QED
    BY <1>3, <2>1
<1> QED
  BY <1>4, <1>5, <1>6 DEF Espacio

-----------------------------------------------------------------------------
(* The space: the steps *)

\* A step of CPU c that leaves the tables alone and does not begin a wait.
LEMMA EspacioDeUna ==
    ASSUME IInv, Tipos, Espacio, NEW c \in Cpus,
           \A d \in Cpus \ {c} : cpu'[d] = cpu[d],
           cpu'[c].fase # "espera",
           \A p \in Pids : Tabla(p)' = Tabla(p), UNCHANGED sticks_km
    PROVE  Espacio'
<1>1. Fin \in Nat /\ Fin' = Fin
  BY FinBienDefinido DEF Tipos, Resto, Fin
<1>2. ASSUME NEW d \in Cpus, cpu'[d].fase = "espera"
      PROVE  /\ cpu[d].fase = "espera"
             /\ Actual(d)' = Actual(d) /\ Actual(d).tam \in Nat
  <2>1. cpu'[d] = cpu[d]
    BY <1>2
  <2>2. cpu[d].fase = "espera" /\ Actual(d)' = Actual(d)
    BY <1>2, <2>1 DEF Actual, Pid, Reg
  <2>3. cpu[d].fase \in ConContexto
    BY <2>2 DEF ConContexto
  <2>4. BienFormada(Actual(d))
    BY <2>3, ConContextoBien
  <2>5. Actual(d).op = "MEM_ALLOC"
    BY <2>2 DEF Tipos, CpuBien
  <2>6. Actual(d).tam \in Nat
    BY <2>4, <2>5 DEF BienFormada
  <2> QED
    BY <2>2, <2>6
<1>3. Fin <= Fin' /\ Fin' \in Nat
  BY <1>1
<1> QED
  BY <1>1, <1>2, <1>3, EspacioIgual

\* A step no CPU takes part in.
LEMMA EspacioDeNinguna ==
    ASSUME IInv, Tipos, Espacio, UNCHANGED <<cpu, contextos>>,
           Fin \in Nat, Fin' \in Nat, Fin <= Fin'
    PROVE  Espacio'
<1>1. ASSUME NEW d \in Cpus, cpu'[d].fase = "espera"
      PROVE  /\ cpu[d].fase = "espera"
             /\ Actual(d)' = Actual(d) /\ Actual(d).tam \in Nat
  <2>2. cpu[d].fase = "espera" /\ Actual(d)' = Actual(d)
    BY <1>1 DEF Actual, Pid, Reg
  <2>3. cpu[d].fase \in ConContexto
    BY <2>2 DEF ConContexto
  <2>4. BienFormada(Actual(d))
    BY <2>3, ConContextoBien
  <2>5. Actual(d).op = "MEM_ALLOC"
    BY <2>2 DEF Tipos, CpuBien
  <2>6. Actual(d).tam \in Nat
    BY <2>4, <2>5 DEF BienFormada
  <2> QED
    BY <2>2, <2>6
<1>2. \A p \in Pids : Tabla(p)' = Tabla(p)
  BY DEF Tabla
<1> QED
  BY <1>1, <1>2, EspacioIgual

LEMMA EspacioKernel ==
    ASSUME IInv, Tipos, Espacio, PasoKernel
    PROVE  Espacio'
<1>1. Fin \in Nat /\ sticks_km \in Sticks
  BY FinBienDefinido DEF Tipos, Resto
<1>2. CASE ConectarStick
  <2>1. sticks_km' = sticks_km + 1 /\ sticks_km < Len(TamanioStick) /\ UNCHANGED <<cpu, contextos>>
    BY <1>2 DEF ConectarStick
  <2>2. Len(TamanioStick) \in Nat
    BY BaseStickValores
  <2>3. /\ sticks_km + 1 \in 1 .. Len(TamanioStick) + 1
        /\ sticks_km + 2 \in 1 .. Len(TamanioStick) + 1
        /\ sticks_km + 1 <= sticks_km + 2
        /\ sticks_km' + 1 = sticks_km + 2
        /\ sticks_km + 1 \in Sticks
    BY <1>1, <2>1, <2>2 DEF Sticks
  <2>4. BaseStick[sticks_km + 1] <= BaseStick[sticks_km + 2]
    BY <2>3, BaseStickCrece
  <2>5. sticks_km' \in Sticks
    BY <2>1, <2>3
  <2>6. BaseStick[sticks_km' + 1] \in Nat
    BY <2>5, SticksHasta
  <2>7. Fin' \in Nat /\ Fin <= Fin'
    BY <2>3, <2>4, <2>6 DEF Fin
  <2> QED
    BY <1>1, <2>1, <2>7, EspacioDeNinguna
<1>3. CASE \E p \in Pids, c \in Cpus : Despachar(p, c)
  <2>1. PICK p \in Pids, c \in Cpus : Despachar(p, c)
    BY <1>3
  <2>2. /\ cpu' = [cpu EXCEPT ![c].fase = "despachada", ![c].pid = p]
        /\ UNCHANGED <<contextos, sticks_km>>
    BY <2>1 DEF Despachar
  <2>3. cpu'[c].fase # "espera" /\ \A d \in Cpus \ {c} : cpu'[d] = cpu[d]
    BY <2>2 DEF IInv, Forma, FormaCpu
  <2>4. \A q \in Pids : Tabla(q)' = Tabla(q)
    BY <2>2 DEF Tabla
  <2> QED
    BY <2>2, <2>3, <2>4, EspacioDeUna
<1>4. ASSUME UNCHANGED <<cpu, contextos, sticks_km>>
      PROVE  Espacio'
  <2>1. Fin' \in Nat /\ Fin <= Fin'
    BY <1>1, <1>4 DEF Fin
  <2> QED
    BY <1>1, <1>4, <2>1, EspacioDeNinguna
<1>5. CASE TomarCompactacion \/ \E m \in Sticks : RecibirNuevaMemoryStick(m)
  BY <1>4, <1>5 DEF TomarCompactacion, RecibirNuevaMemoryStick
<1>6. CASE \E p \in Pids : \/ MarcarDesalojo(p)
                           \/ EscribirStdin(p) \/ LeerStdout(p) \/ Despertar(p)
  BY <1>4, <1>6 DEF MarcarDesalojo, EscribirStdin, LeerStdout, Despertar
<1> QED
  BY <1>2, <1>3, <1>5, <1>6 DEF PasoKernel

\* The steps of a CPU that leave the contexts as they are.
LEMMA CumplidaNoEspera ==
    ASSUME Forma, NEW c \in Cpus, NEW reg, cpu' = Cumplida(c, reg)
    PROVE  cpu'[c].fase # "espera" /\ \A d \in Cpus \ {c} : cpu'[d] = cpu[d]
BY DEF Forma, FormaCpu, Cumplida

LEMMA FinAccesoNoEspera ==
    ASSUME Forma, NEW c \in Cpus, cpu' = FinAcceso(c)
    PROVE  cpu'[c].fase # "espera" /\ \A d \in Cpus \ {c} : cpu'[d] = cpu[d]
<1>1. CASE cpu' = Libre(c)
  BY <1>1, EfectoDeLibre
<1>2. CASE cpu' = [cpu EXCEPT ![c].fase = "finalizando", ![c].ctx = Nadie,
                              ![c].acceso = SinAcceso]
  BY <1>2, EfectoDeFin
<1>3. CASE cpu' = Cumplida(c, Avanzar(Reg(c)))
  BY <1>3, CumplidaNoEspera
<1> QED
  BY <1>1, <1>2, <1>3 DEF FinAcceso

\* The steps of a CPU that leave every table and every wait as they were.
Quieto(c) ==
    \/ NuevaCpu(c) \/ RecibirContexto(c) \/ EjecutarCalculo(c)
    \/ EjecutarMovIn(c) \/ EjecutarMovOut(c) \/ EjecutarCopyMem(c)
    \/ LeerPieza(c) \/ EscribirPieza(c) \/ AccesoSinStick(c)
    \/ EjecutarSyscall(c) \/ EjecutarEspera(c) \/ EjecutarExit(c)
    \/ Interrupt(c) \/ Avisar(c)

LEMMA QuietoNoEspera ==
    ASSUME Forma, NEW c \in Cpus, Quieto(c)
    PROVE  /\ cpu'[c].fase # "espera" /\ \A d \in Cpus \ {c} : cpu'[d] = cpu[d]
           /\ UNCHANGED <<contextos, sticks_km>>
<1> DEFINE Sale == /\ cpu'[c].fase # "espera" /\ \A d \in Cpus \ {c} : cpu'[d] = cpu[d]
                   /\ UNCHANGED <<contextos, sticks_km>>
<1> SUFFICES Sale
  OBVIOUS
<1>1. Forma
  OBVIOUS
<1>2. CASE NuevaCpu(c) \/ RecibirContexto(c) \/ EjecutarExit(c)
  <2>1. Sale
    BY <1>1, <1>2 DEF Forma, FormaCpu, NuevaCpu, RecibirContexto, EjecutarExit
  <2> QED
    BY <2>1
<1>3. CASE EjecutarCalculo(c) \/ EjecutarSyscall(c) \/ EjecutarEspera(c)
  <2>1. UNCHANGED <<contextos, sticks_km>> /\ \E reg : cpu' = Cumplida(c, reg)
    BY <1>3 DEF EjecutarCalculo, EjecutarSyscall, EjecutarEspera
  <2> QED
    BY <1>1, <2>1, CumplidaNoEspera
<1>4. ASSUME SegFault(c)
      PROVE  Sale
  <2>1. /\ cpu' = [cpu EXCEPT ![c].fase = "finalizando", ![c].ctx = Nadie,
                              ![c].acceso = SinAcceso, ![c].avisos = 1]
        /\ UNCHANGED <<contextos, sticks_km>>
    BY <1>4 DEF SegFault
  <2> QED
    BY <1>1, <2>1, EfectoDeFinAvisado
<1>5. ASSUME NEW fase \in {"leyendo", "escribiendo"}, NEW dir, NEW n, NEW datos,
             Acceder(c, fase, dir, n, datos)
      PROVE  Sale
  <2>1. UNCHANGED <<contextos, sticks_km>>
    BY <1>5 DEF Acceder
  <2>2. CASE cpu' = Cumplida(c, Avanzar(Reg(c)))
    BY <1>1, <2>1, <2>2, CumplidaNoEspera
  <2>3. CASE cpu' = [cpu EXCEPT ![c].fase = fase,
                        ![c].acceso = [dir |-> dir, falta |-> n, datos |-> datos,
                                       fallo |-> FALSE]]
    BY <1>1, <2>1, <2>3 DEF Forma, FormaCpu
  <2> QED
    BY <1>5, <2>2, <2>3 DEF Acceder
<1>6. CASE EjecutarMovIn(c) \/ EjecutarMovOut(c)
  <2>1. SegFault(c) \/ \E fase \in {"leyendo", "escribiendo"} : \E dir, n, datos :
                          Acceder(c, fase, dir, n, datos)
    BY <1>6 DEF EjecutarMovIn, EjecutarMovOut
  <2> QED
    BY <1>4, <1>5, <2>1
<1>7. CASE EjecutarCopyMem(c)
  <2>1. PICK acceso, avisos :
            cpu' = [cpu EXCEPT ![c].fase = "leyendo", ![c].acceso = acceso, ![c].avisos = avisos]
    BY <1>7 DEF EjecutarCopyMem
  <2>2. UNCHANGED <<contextos, sticks_km>>
    BY <1>7 DEF EjecutarCopyMem
  <2> QED
    BY <1>1, <2>1, <2>2 DEF Forma, FormaCpu
<1>8. CASE LeerPieza(c)
  <2>1. cpu[c].fase = "leyendo" /\ UNCHANGED <<contextos, sticks_km>>
    BY <1>8 DEF LeerPieza, En
  <2>2. PICK dir, falta, leido :
            \/ cpu' = TrasLeer(c, leido)
            \/ cpu' = [cpu EXCEPT ![c].acceso.dir = dir, ![c].acceso.falta = falta,
                                  ![c].acceso.datos = leido]
    BY <1>8 DEF LeerPieza
  <2>3. CASE cpu' = TrasLeer(c, leido)
    <3>1. PICK reg, d : \/ cpu' = Cumplida(c, reg)
                        \/ cpu' = [cpu EXCEPT ![c].fase = "escribiendo",
                                      ![c].acceso.dir = d,
                                      ![c].acceso.falta = Len(leido),
                                      ![c].acceso.datos = leido]
      BY <2>3 DEF TrasLeer
    <3>2. CASE cpu' = Cumplida(c, reg)
      BY <1>1, <2>1, <3>2, CumplidaNoEspera
    <3>3. CASE cpu' = [cpu EXCEPT ![c].fase = "escribiendo", ![c].acceso.dir = d,
                          ![c].acceso.falta = Len(leido), ![c].acceso.datos = leido]
      BY <1>1, <2>1, <3>3 DEF Forma, FormaCpu
    <3> QED
      BY <3>1, <3>2, <3>3
  <2>4. CASE cpu' = [cpu EXCEPT ![c].acceso.dir = dir, ![c].acceso.falta = falta,
                                ![c].acceso.datos = leido]
    BY <1>1, <2>1, <2>4 DEF Forma, FormaCpu
  <2> QED
    BY <2>2, <2>3, <2>4
<1>9. CASE EscribirPieza(c)
  <2>1. cpu[c].fase = "escribiendo" /\ UNCHANGED <<contextos, sticks_km>>
    BY <1>9 DEF EscribirPieza, En
  <2>2. PICK dir, falta, datos :
            \/ cpu' = FinAcceso(c)
            \/ cpu' = [cpu EXCEPT ![c].acceso.dir = dir, ![c].acceso.falta = falta,
                                  ![c].acceso.datos = datos]
    BY <1>9 DEF EscribirPieza
  <2>3. CASE cpu' = FinAcceso(c)
    BY <1>1, <2>1, <2>3, FinAccesoNoEspera
  <2>4. CASE cpu' = [cpu EXCEPT ![c].acceso.dir = dir, ![c].acceso.falta = falta,
                                ![c].acceso.datos = datos]
    BY <1>1, <2>1, <2>4 DEF Forma, FormaCpu
  <2> QED
    BY <2>2, <2>3, <2>4
<1>10. CASE AccesoSinStick(c)
  <2>1. UNCHANGED <<contextos, sticks_km>>
    BY <1>10 DEF AccesoSinStick
  <2>2. CASE cpu' = [cpu EXCEPT ![c].fase = "colgada"]
    BY <1>1, <2>1, <2>2 DEF Forma, FormaCpu
  <2>3. CASE cpu' = FinAcceso(c)
    BY <1>1, <2>1, <2>3, FinAccesoNoEspera
  <2> QED
    BY <1>10, <2>2, <2>3 DEF AccesoSinStick
<1>11. CASE Interrupt(c)
  <2>1. UNCHANGED <<contextos, sticks_km>>
    BY <1>11 DEF Interrupt
  <2>2. CASE \E fase \in {"guardar", "fetch"} : cpu' = [cpu EXCEPT ![c].fase = fase]
    BY <1>1, <2>1, <2>2 DEF Forma, FormaCpu
  <2>3. CASE cpu' = [cpu EXCEPT ![c].fase = "fetch", ![c].sticks = @ \cup {Head(pendientes)}]
    BY <1>1, <2>1, <2>3 DEF Forma, FormaCpu
  <2> QED
    BY <1>11, <2>2, <2>3 DEF Interrupt
<1>12. CASE Avisar(c)
  <2>1. UNCHANGED <<contextos, sticks_km>> /\ cpu' = Libre(c)
    BY <1>12 DEF Avisar
  <2> QED
    BY <1>1, <2>1, EfectoDeLibre
<1> QED
  BY <1>2, <1>3, <1>6, <1>7, <1>8, <1>9, <1>10, <1>11, <1>12 DEF Quieto

LEMMA EspacioQuieto ==
    ASSUME IInv, Tipos, Espacio, NEW c \in Cpus, Quieto(c)
    PROVE  Espacio'
<1>1. /\ cpu'[c].fase # "espera" /\ \A d \in Cpus \ {c} : cpu'[d] = cpu[d]
      /\ UNCHANGED <<contextos, sticks_km>>
  BY QuietoNoEspera DEF IInv
<1>2. \A q \in Pids : Tabla(q)' = Tabla(q)
  BY <1>1 DEF Tabla
<1> QED
  BY <1>1, <1>2, EspacioDeUna

-----------------------------------------------------------------------------
(* The space: the steps that change a table *)

LEMMA TablaConSegmento ==
    ASSUME NEW c \in Cpus, NEW p \in Pids, p = cpu[c].pid,
           NEW tablas, DOMAIN tablas = Pids, tablas[p] \in Contexto,
           NEW b, NEW s \in Segmento,
           s = [id |-> Actual(c).id, base |-> b, tam |-> Actual(c).tam],
           Concedida(c, tablas, b)
    PROVE  /\ Tabla(p)' = Append(tablas[p].tabla, s)
           /\ \A q \in Pids \ {p} : contextos'[q] = tablas[q]
<1> DEFINE t == Append(tablas[p].tabla, s)
<1>1. contextos' = [tablas EXCEPT ![p].tabla = Append(@, s)]
  BY DEF Concedida, Pid
<1>2. contextos'[p] = [tablas[p] EXCEPT !.tabla = t]
  BY <1>1
<1>3. \A q \in Pids \ {p} : contextos'[q] = tablas[q]
  BY <1>1
<1>4. t \in Seq(Segmento)
  BY ContextoTiene
<1>5. contextos'[p].tabla = t /\ contextos'[p] # Nadie
  <2> HIDE DEF t
  <2>1. contextos'[p].tabla = t
    BY <1>2, ContextoTiene
  <2>2. contextos'[p] \in Contexto
    BY <1>2, <1>4, ContextoTiene
  <2> QED
    BY <2>1, <2>2, NadieAssumption
<1>6. Tabla(p)' = contextos'[p].tabla
  BY <1>5 DEF Tabla
<1> QED
  BY <1>3, <1>5, <1>6

\* A hole that is chosen is free from end to end.
LEMMA HuecoSirve ==
    ASSUME ContextosBien, NEW c \in Cpus, BienFormada(Actual(c)), Actual(c).op = "MEM_ALLOC",
           Fin \in Nat, NEW b \in Huecos(Actual(c).tam), NEW s,
           s = [id |-> Actual(c).id, base |-> b, tam |-> Actual(c).tam]
    PROVE  /\ s \in Segmento /\ s.base + s.tam <= Fin
           /\ \A q \in Pids : \A j \in DOMAIN Tabla(q) : Apartados(s, Tabla(q)[j])
<1>1. Actual(c).id \in Nat /\ Actual(c).tam \in Nat
  BY DEF BienFormada
<1>2. /\ b \in 0 .. Fin - Actual(c).tam
      /\ (b .. b + Actual(c).tam - 1) \cap Ocupadas = {}
  BY DEF Huecos
<1>3. s \in Segmento /\ s.base = b /\ s.tam = Actual(c).tam
  BY <1>1, <1>2 DEF Segmento
<1>4. s.base + s.tam <= Fin
  BY <1>1, <1>2, <1>3
<1>5. ASSUME NEW q \in Pids, NEW j \in DOMAIN Tabla(q)
      PROVE  Apartados(s, Tabla(q)[j])
  <2>1. Celdas(Tabla(q)[j]) \subseteq Ocupadas
    BY CeldasOcupadas
  <2>2. Celdas(s) \cap Celdas(Tabla(q)[j]) = {}
    BY <1>2, <1>3, <2>1 DEF Celdas
  <2>3. Tabla(q)[j] \in Segmento
    BY TablaBien
  <2> QED
    BY <1>3, <2>2, <2>3, ApartadosPorCeldas
<1> QED
  BY <1>3, <1>4, <1>5

LEMMA EspacioMemAlloc ==
    ASSUME IInv, Tipos, Espacio, NEW c \in Cpus, EjecutarMemAlloc(c)
    PROVE  Espacio'
<1> DEFINE tam == Actual(c).tam
<1>1. /\ cpu[c].fase = "fetch" /\ Actual(c).op = "MEM_ALLOC" /\ compac.quien = Nadie
      /\ UNCHANGED sticks_km
  BY DEF EjecutarMemAlloc, AntesDe, En, KmLibre
<1>2. PICK p \in Pids :
        /\ p = cpu[c].pid
        /\ cpu[c].ctx \in Contexto /\ BienFormada(Actual(c))
        /\ contextos[p] \in Contexto /\ DOMAIN cpu = Cpus /\ FormaCpu(c)
  BY <1>1, EnFetchBien
<1>3. Forma /\ DOMAIN contextos = Pids /\ ContextosBien /\ sticks_km \in Sticks
  BY DEF IInv, Forma, Tipos, Resto
<1>4. Fin \in Nat /\ Fin' = Fin
  BY <1>1, <1>3, FinBienDefinido DEF Fin
<1>5. CASE \E b \in Huecos(tam) : Concedida(c, contextos, b)
  <2>1. PICK b \in Huecos(tam) : Concedida(c, contextos, b)
    BY <1>5
  <2> DEFINE s == [id |-> Actual(c).id, base |-> b, tam |-> tam]
  <2>2. /\ s \in Segmento /\ s.base + s.tam <= Fin
        /\ \A q \in Pids : \A j \in DOMAIN Tabla(q) : Apartados(s, Tabla(q)[j])
    BY <1>1, <1>2, <1>3, <1>4, HuecoSirve
  <2>3. /\ Tabla(p)' = Append(contextos[p].tabla, s)
        /\ \A q \in Pids \ {p} : contextos'[q] = contextos[q]
    BY <1>2, <1>3, <2>1, <2>2, TablaConSegmento
  <2> HIDE DEF s
  <2> DEFINE T == Tablas
  <2>4. /\ \A q \in Pids : T[q] = Tabla(q)
        /\ \A q \in Pids : T[q] \in Seq(Segmento)
    BY <1>3, TablaBien DEF Tablas
  <2>5. Caben(T) /\ Disjuntas(T)
    BY EspacioDeTablas DEF Espacio
  <2>6. Tabla(p)' = Append(T[p], s)
    BY <1>2, <2>3, <2>4, NadieAssumption DEF Tabla
  <2>7. \A q \in Pids \ {p} : Tabla(q)' = T[q]
    BY <2>3, <2>4 DEF Tabla
  <2>8. \A q \in Pids \ {p} : \A j \in DOMAIN T[q] : Apartados(s, T[q][j])
    BY <2>2, <2>4
  <2> HIDE DEF T
  <2>9. EnMemoria' /\ Separados'
    BY <1>1, <1>2, <2>2, <2>4, <2>5, <2>6, <2>7, <2>8, TablasCrecen
  <2>10. cpu'[c].fase = "interrupt" /\ \A d \in Cpus \ {c} : cpu'[d] = cpu[d]
    BY <1>2, <2>1 DEF Concedida, FormaCpu
  <2>11. \A d \in Cpus : cpu[d].fase # "espera"
    BY <1>1, NadieEnEspera
  <2>12. HayLugar'
    BY <2>10, <2>11 DEF HayLugar
  <2> QED
    BY <2>9, <2>12 DEF Espacio
<1>6. CASE /\ EspacioLibre >= tam
           /\ cpu' = [cpu EXCEPT ![c].fase = "espera"] /\ UNCHANGED contextos
  <2>1. /\ cpu'[c].fase = "espera" /\ cpu'[c].pid = cpu[c].pid /\ cpu'[c].ctx = cpu[c].ctx
        /\ \A d \in Cpus \ {c} : cpu'[d] = cpu[d]
    BY <1>2, <1>6 DEF FormaCpu
  <2>2. Actual(c)' = Actual(c) /\ tam \in Nat
    BY <1>1, <1>2, <2>1 DEF Actual, Pid, Reg, BienFormada
  <2>3. Cardinality(Ocupadas) \in Nat
    BY <1>3, OcupadasBien DEF Espacio
  <2>4. Cardinality(Ocupadas) + tam <= Fin
    BY <1>4, <1>6, <2>2, <2>3 DEF EspacioLibre
  <2>5. \A d \in Cpus : cpu[d].fase # "espera"
    BY <1>1, NadieEnEspera
  <2>6. \A q \in Pids : Tabla(q)' = Tabla(q)
    BY <1>6 DEF Tabla
  <2>7. \A d \in Cpus : cpu'[d].fase = "espera" =>
            /\ \/ cpu[d].fase = "espera"
               \/ Cardinality(Ocupadas) + Actual(d).tam <= Fin
            /\ Actual(d)' = Actual(d) /\ Actual(d).tam \in Nat
    BY <2>1, <2>2, <2>4, <2>5
  <2>8. Fin' \in Nat /\ Fin <= Fin'
    BY <1>4
  <2> QED
    BY <1>4, <2>6, <2>7, <2>8, EspacioIgual
<1>7. CASE cpu' = Cumplida(c, Reg(c)) /\ UNCHANGED contextos
  <2>1. cpu'[c].fase # "espera" /\ \A d \in Cpus \ {c} : cpu'[d] = cpu[d]
    BY <1>3, <1>7, CumplidaNoEspera
  <2>2. \A q \in Pids : Tabla(q)' = Tabla(q)
    BY <1>7 DEF Tabla
  <2> QED
    BY <1>1, <2>1, <2>2, EspacioDeUna
<1> QED
  BY <1>5, <1>6, <1>7 DEF EjecutarMemAlloc

\* The tables of a compaction, before the new segment.
TablasMovidas == [p \in Pids |-> IF Movidos[p] = Nadie THEN <<>> ELSE Movidos[p].tabla]

\* What a compaction leaves of a segment.
LEMMA SegmentoMovido ==
    ASSUME ContextosBien, EnMemoria, sticks_km \in Sticks, NEW p \in Pids,
           NEW k \in DOMAIN TablasMovidas[p]
    PROVE  /\ k \in DOMAIN Tabla(p)
           /\ TablasMovidas[p][k].base = Cuantas(Ocupadas, Tabla(p)[k].base)
           /\ TablasMovidas[p][k].tam = Tabla(p)[k].tam
<1>1. contextos[p] # Nadie
  BY MovidosBien DEF TablasMovidas
<1>2. Movidos[p] \in Contexto /\ Movidos[p] # Nadie
  BY <1>1, MovidosBien, NadieAssumption
<1>3. TablasMovidas[p] = Movidos[p].tabla
  BY <1>2 DEF TablasMovidas
<1>4. DOMAIN Movidos[p].tabla = 1 .. Len(Tabla(p))
  BY <1>1, <1>2, MovidosBien, ContextoTiene
<1>5. DOMAIN Tabla(p) = 1 .. Len(Tabla(p))
  BY TablaBien
<1>6. /\ Movidos[p].tabla[k].base = Compactada(Tabla(p)[k].base)
      /\ Movidos[p].tabla[k].tam = Tabla(p)[k].tam
  BY <1>1, <1>3, <1>4, MovidosBien
<1>7. Compactada(Tabla(p)[k].base) = Cuantas(Ocupadas, Tabla(p)[k].base)
  BY CompactadaBien
<1> QED
  BY <1>3, <1>4, <1>5, <1>6, <1>7

\* A moved segment ends where as many cells as were below its end have been packed.
LEMMA FinMovido ==
    ASSUME ContextosBien, EnMemoria, sticks_km \in Sticks, NEW p \in Pids,
           NEW k \in DOMAIN TablasMovidas[p]
    PROVE  /\ TablasMovidas[p][k].base \in Nat /\ TablasMovidas[p][k].tam \in Nat
           /\ TablasMovidas[p][k].base + TablasMovidas[p][k].tam <= Cardinality(Ocupadas)
<1>1. /\ k \in DOMAIN Tabla(p)
      /\ TablasMovidas[p][k].base = Cuantas(Ocupadas, Tabla(p)[k].base)
      /\ TablasMovidas[p][k].tam = Tabla(p)[k].tam
  BY SegmentoMovido
<1>2. Tabla(p)[k].base \in Nat /\ Tabla(p)[k].tam \in Nat
  BY <1>1, TablaBien
<1>3. /\ Ocupadas \subseteq Nat /\ IsFiniteSet(Ocupadas) /\ Cardinality(Ocupadas) \in Nat
  BY OcupadasBien
<1>4. Tabla(p)[k].base .. Tabla(p)[k].base + Tabla(p)[k].tam - 1 \subseteq Ocupadas
  BY <1>1, CeldasOcupadas DEF Celdas
<1>5. Cuantas(Ocupadas, Tabla(p)[k].base + Tabla(p)[k].tam)
        = Cuantas(Ocupadas, Tabla(p)[k].base) + Tabla(p)[k].tam
  BY <1>2, <1>3, <1>4, CuantasIntervalo
<1>6. Cuantas(Ocupadas, Tabla(p)[k].base + Tabla(p)[k].tam) <= Cardinality(Ocupadas)
  BY <1>3, DebajoFinito
<1>7. Cuantas(Ocupadas, Tabla(p)[k].base) \in Nat
  BY <1>3, DebajoFinito
<1> QED
  BY <1>1, <1>2, <1>5, <1>6, <1>7

\* After a compaction every segment is within the memory and apart from the others: each
\* begins at the number of bytes taken below it.
LEMMA MovidasBien ==
    ASSUME ContextosBien, Espacio, sticks_km \in Sticks
    PROVE  /\ \A p \in Pids : TablasMovidas[p] \in Seq(Segmento)
           /\ Caben(TablasMovidas) /\ Disjuntas(TablasMovidas)
<1>1. EnMemoria /\ Separados
  BY DEF Espacio
<1>2. /\ Ocupadas \subseteq Nat /\ IsFiniteSet(Ocupadas) /\ Cardinality(Ocupadas) \in Nat
      /\ Cardinality(Ocupadas) <= Fin
  BY <1>1, OcupadasBien
<1>3. Fin \in Nat
  BY FinBienDefinido
<1>4. ASSUME NEW p \in Pids
      PROVE  TablasMovidas[p] \in Seq(Segmento)
  <2>1. CASE Movidos[p] = Nadie
    BY <2>1 DEF TablasMovidas
  <2>2. CASE Movidos[p] # Nadie
    <3>1. Movidos[p] \in Contexto
      BY <1>1, <2>2, MovidosBien
    <3>2. TablasMovidas[p] = Movidos[p].tabla
      BY <2>2 DEF TablasMovidas
    <3> QED
      BY <3>1, <3>2, ContextoTiene
  <2> QED
    BY <2>1, <2>2
<1>5. ASSUME NEW p \in Pids, NEW k \in DOMAIN TablasMovidas[p]
      PROVE  TablasMovidas[p][k].base + TablasMovidas[p][k].tam <= Fin
  <2>1. /\ TablasMovidas[p][k].base \in Nat /\ TablasMovidas[p][k].tam \in Nat
        /\ TablasMovidas[p][k].base + TablasMovidas[p][k].tam <= Cardinality(Ocupadas)
    BY <1>1, FinMovido
  <2> QED
    BY <1>2, <1>3, <2>1
<1>6. ASSUME NEW p \in Pids, NEW q \in Pids, p # q,
             NEW k \in DOMAIN TablasMovidas[p], NEW j \in DOMAIN TablasMovidas[q]
      PROVE  Apartados(TablasMovidas[p][k], TablasMovidas[q][j])
  <2> DEFINE u == TablasMovidas[p][k]
             v == TablasMovidas[q][j]
             s == Tabla(p)[k]
             t == Tabla(q)[j]
  <2>1. k \in DOMAIN Tabla(p) /\ u.base = Cuantas(Ocupadas, s.base) /\ u.tam = s.tam
    BY <1>1, SegmentoMovido
  <2>2. j \in DOMAIN Tabla(q) /\ v.base = Cuantas(Ocupadas, t.base) /\ v.tam = t.tam
    BY <1>1, SegmentoMovido
  <2>3. s \in Segmento /\ t \in Segmento
    BY <2>1, <2>2, TablaBien
  <2>4. Apartados(s, t)
    BY <1>1, <1>6, <2>1, <2>2 DEF Separados
  <2>5. Celdas(s) \subseteq Ocupadas /\ Celdas(t) \subseteq Ocupadas
    BY <2>1, <2>2, CeldasOcupadas
  <2> HIDE DEF u, v, s, t
  <2>6. Apartados(u, v)
    BY <1>2, <2>1, <2>2, <2>3, <2>4, <2>5, ApartadosMovidos
  <2> QED
    BY <2>6 DEF u, v
<1>7. Caben(TablasMovidas)
  BY <1>5 DEF Caben
<1>8. Disjuntas(TablasMovidas)
  BY <1>6 DEF Disjuntas
<1> QED
  BY <1>4, <1>7, <1>8

\* The compaction leaves room for the request it was done for: the bytes taken are now
\* those below the first free one.
LEMMA EspacioCompactar ==
    ASSUME IInv, Tipos, Espacio, NEW c \in Cpus, Compactar(c)
    PROVE  Espacio'
<1> DEFINE tam == Actual(c).tam
           b == Cardinality(Ocupadas)
           s == [id |-> Actual(c).id, base |-> b, tam |-> tam]
           T == TablasMovidas
<1>1. /\ cpu[c].fase = "espera"
      /\ Concedida(c, Movidos, b)
      /\ UNCHANGED sticks_km
  BY DEF Compactar, En
<1>2. /\ Actual(c).op = "MEM_ALLOC" /\ compac.quien = c /\ contextos[cpu[c].pid] \in Contexto
      /\ ContextosBien /\ sticks_km \in Sticks
  BY <1>1 DEF Tipos, CpuBien, Resto
<1>3. cpu[c].fase \in ConContexto
  BY <1>1 DEF ConContexto
<1>4. PICK p \in Pids : p = cpu[c].pid /\ BienFormada(Actual(c)) /\ DOMAIN cpu = Cpus /\ FormaCpu(c)
  BY <1>3, ConContextoBien
<1>5. EnMemoria /\ HayLugar
  BY DEF Espacio
<1>6. b \in Nat /\ Fin \in Nat
  BY <1>2, <1>5, OcupadasBien, FinBienDefinido
<1>7. s \in Segmento /\ s.base = b /\ s.tam = tam
  BY <1>2, <1>4, <1>6 DEF BienFormada, Segmento
<1>8. b + tam <= Fin
  BY <1>1, <1>5 DEF HayLugar
<1>9. contextos[p] # Nadie
  BY <1>2, <1>4, NadieAssumption
<1>10. Movidos[p] \in Contexto /\ Movidos[p] # Nadie /\ DOMAIN Movidos = Pids
  BY <1>2, <1>5, <1>9, MovidosBien, NadieAssumption DEF Movidos
<1>11. /\ \A q \in Pids : T[q] \in Seq(Segmento)
       /\ Caben(T) /\ Disjuntas(T)
  BY <1>2, MovidasBien
<1> HIDE DEF s
<1>12. /\ Tabla(p)' = Append(Movidos[p].tabla, s)
       /\ \A q \in Pids \ {p} : contextos'[q] = Movidos[q]
  BY <1>1, <1>4, <1>7, <1>10, TablaConSegmento DEF s
<1>13. Tabla(p)' = Append(T[p], s)
  BY <1>10, <1>12 DEF TablasMovidas
<1>14. \A q \in Pids \ {p} : Tabla(q)' = T[q]
  BY <1>12 DEF Tabla, TablasMovidas
<1>15. ASSUME NEW q \in Pids, NEW j \in DOMAIN T[q] PROVE Apartados(s, T[q][j])
  <2>1. /\ T[q][j].base \in Nat /\ T[q][j].tam \in Nat
        /\ T[q][j].base + T[q][j].tam <= b
    BY <1>2, <1>5, FinMovido
  <2> QED
    BY <1>7, <2>1 DEF Apartados
<1>16. s.base + s.tam <= Fin
  BY <1>7, <1>8
<1>17. \A q \in Pids \ {p} : \A j \in DOMAIN T[q] : Apartados(s, T[q][j])
  BY <1>15
<1> HIDE DEF T
<1>18. EnMemoria' /\ Separados'
  BY <1>1, <1>7, <1>11, <1>13, <1>14, <1>16, <1>17, TablasCrecen
<1>19. cpu'[c].fase = "interrupt" /\ \A d \in Cpus \ {c} : cpu'[d] = cpu[d]
  BY <1>1, <1>4 DEF Concedida, FormaCpu
<1>20. \A d \in Cpus : cpu[d].fase = "espera" => d = c
  BY <1>2 DEF Tipos, CpuBien
<1>21. HayLugar'
  BY <1>19, <1>20 DEF HayLugar
<1> QED
  BY <1>18, <1>21 DEF Espacio

LEMMA EspacioMemFree ==
    ASSUME IInv, Tipos, Espacio, NEW c \in Cpus, EjecutarMemFree(c)
    PROVE  Espacio'
<1> DEFINE id == Actual(c).id
<1>1. cpu[c].fase = "fetch" /\ compac.quien = Nadie /\ UNCHANGED sticks_km
  BY DEF EjecutarMemFree, AntesDe, En, KmLibre
<1>2. /\ contextos' = [contextos EXCEPT ![cpu[c].pid].tabla = SinElDe(@, id)]
      /\ cpu' = [cpu EXCEPT ![c].fase = "interrupt", ![c].ctx.reg = Avanzar(@),
                            ![c].ctx.tabla = SinElDe(@, id)]
  BY PasoMemFree DEF Pid
<1>3. PICK p \in Pids : /\ p = cpu[c].pid /\ contextos[p] \in Contexto
                        /\ DOMAIN cpu = Cpus /\ FormaCpu(c)
  BY <1>1, EnFetchBien
<1>4. DOMAIN contextos = Pids /\ ContextosBien
  BY DEF IInv, Forma, Tipos
<1> DEFINE t == SinElDe(Tabla(p), id)
<1>5. Tabla(p) = contextos[p].tabla /\ Tabla(p) \in Seq(Segmento)
  BY <1>3, <1>4, NadieAssumption, TablaBien DEF Tabla
<1>6. /\ t \in Seq(Segmento)
      /\ t = Tabla(p) \/ \E k \in 1 .. Len(Tabla(p)) : QuitadoDe(t, Tabla(p), k)
  BY <1>5, SinElDeBien
<1>7. contextos'[p] = [contextos[p] EXCEPT !.tabla = t]
  BY <1>2, <1>3, <1>4, <1>5
<1> HIDE DEF t
<1>8. Tabla(p)' = t
  <2>1. contextos'[p] \in Contexto /\ contextos'[p].tabla = t
    BY <1>3, <1>6, <1>7, ContextoTiene
  <2> QED
    BY <2>1, NadieAssumption DEF Tabla
<1>9. \A q \in Pids \ {p} : Tabla(q)' = Tabla(q)
  BY <1>2, <1>3 DEF Tabla
<1>10. ASSUME NEW k \in DOMAIN t PROVE \E i \in DOMAIN Tabla(p) : t[k] = Tabla(p)[i]
  <2>1. CASE t = Tabla(p)
    BY <2>1
  <2>2. CASE \E j \in 1 .. Len(Tabla(p)) : QuitadoDe(t, Tabla(p), j)
    <3>1. PICK j \in 1 .. Len(Tabla(p)) : QuitadoDe(t, Tabla(p), j)
      BY <2>2
    <3>2. /\ Len(t) = Len(Tabla(p)) - 1 /\ Len(Tabla(p)) \in Nat
          /\ DOMAIN t = 1 .. Len(t) /\ DOMAIN Tabla(p) = 1 .. Len(Tabla(p))
          /\ t[k] = IF k < j THEN Tabla(p)[k] ELSE Tabla(p)[k + 1]
      BY <1>5, <1>6, <3>1 DEF QuitadoDe
    <3>3. k \in DOMAIN Tabla(p) /\ k + 1 \in DOMAIN Tabla(p)
      BY <3>2
    <3> QED
      BY <3>2, <3>3
  <2> QED
    BY <1>6, <2>1, <2>2
<1>11. EnMemoria' /\ Separados'
  <2>1. \A q \in Pids : \A k \in DOMAIN Tabla(q)' :
            \E i \in DOMAIN Tabla(q) : Tabla(q)'[k] = Tabla(q)[i]
    BY <1>8, <1>9, <1>10
  <2> QED
    BY <1>1, <2>1, TablasEncogen
<1>12. cpu'[c].fase = "interrupt" /\ \A d \in Cpus \ {c} : cpu'[d] = cpu[d]
  BY <1>2, <1>3 DEF FormaCpu
<1>13. \A d \in Cpus : cpu[d].fase # "espera"
  BY <1>1, NadieEnEspera
<1>14. HayLugar'
  BY <1>12, <1>13 DEF HayLugar
<1> QED
  BY <1>11, <1>14 DEF Espacio

LEMMA EspacioFinalizar ==
    ASSUME IInv, Tipos, Espacio, NEW c \in Cpus, Finalizar(c)
    PROVE  Espacio'
<1>1. /\ compac.quien = Nadie /\ UNCHANGED sticks_km
      /\ contextos' = [contextos EXCEPT ![cpu[c].pid] = Nadie]
      /\ cpu' = Libre(c) \/ cpu' = [cpu EXCEPT ![c].avisos = @ - 1]
  BY DEF Finalizar, KmLibre, Pid
<1>2. DOMAIN contextos = Pids
  BY DEF IInv, Forma
<1>3. \A q \in Pids : Tabla(q)' = Tabla(q) \/ Tabla(q)' = <<>>
  BY <1>1, <1>2 DEF Tabla
<1>4. DOMAIN <<>> = {}
  OBVIOUS
<1>5. EnMemoria' /\ Separados'
  <2>1. \A q \in Pids : \A k \in DOMAIN Tabla(q)' :
            \E i \in DOMAIN Tabla(q) : Tabla(q)'[k] = Tabla(q)[i]
    BY <1>3, <1>4
  <2> QED
    BY <1>1, <2>1, TablasEncogen
<1>6. \A d \in Cpus : cpu[d].fase # "espera"
  BY <1>1, NadieEnEspera
<1>7. \A d \in Cpus : cpu'[d].fase # "espera"
  <2>1. CASE cpu' = Libre(c)
    BY <1>6, <2>1, EfectoDeLibre DEF IInv
  <2>2. CASE cpu' = [cpu EXCEPT ![c].avisos = @ - 1]
    BY <1>6, <2>2 DEF IInv, Forma, FormaCpu
  <2> QED
    BY <1>1, <2>1, <2>2
<1>8. HayLugar'
  BY <1>7 DEF HayLugar
<1> QED
  BY <1>5, <1>8 DEF Espacio

LEMMA EspacioGuardarContexto ==
    ASSUME IInv, Tipos, Espacio, NEW c \in Cpus, GuardarContexto(c)
    PROVE  Espacio'
<1>1. /\ cpu[c].fase = "guardar" /\ UNCHANGED sticks_km
      /\ cpu' = [cpu EXCEPT ![c].fase = "avisar"]
      /\ \/ contextos' = contextos
         \/ /\ contextos[cpu[c].pid] # Nadie
            /\ contextos' = [contextos EXCEPT ![cpu[c].pid].reg = Reg(c)]
  BY DEF GuardarContexto, En, Pid
<1>2. DOMAIN contextos = Pids /\ ContextosBien /\ Forma
  BY DEF IInv, Forma, Tipos
<1>3. cpu[c].fase \in ConContexto
  BY <1>1 DEF ConContexto
<1>4. Reg(c) \in BancoRegistros
  BY <1>3, ConContextoBien
<1>5. ASSUME NEW p \in Pids PROVE Tabla(p)' = Tabla(p)
  <2>1. CASE contextos'[p] = contextos[p]
    BY <2>1 DEF Tabla
  <2>2. CASE p = cpu[c].pid /\ contextos[p] # Nadie
             /\ contextos'[p] = [contextos[p] EXCEPT !.reg = Reg(c)]
    <3>1. contextos[p] \in Contexto
      BY <1>2, <2>2 DEF ContextosBien
    <3>2. contextos'[p] \in Contexto /\ contextos'[p].tabla = contextos[p].tabla
      BY <1>4, <2>2, <3>1, ContextoTiene
    <3> QED
      BY <2>2, <3>2, NadieAssumption DEF Tabla
  <2> QED
    BY <1>1, <1>2, <2>1, <2>2
<1>6. cpu'[c].fase # "espera" /\ \A d \in Cpus \ {c} : cpu'[d] = cpu[d]
  BY <1>1, <1>2, EfectoDeFase
<1> QED
  BY <1>1, <1>5, <1>6, EspacioDeUna

LEMMA EspacioSigue ==
    ASSUME IInv, Tipos, Espacio, [Next]_vars
    PROVE  Espacio'
<1>1. CASE PasoKernel
  BY <1>1, EspacioKernel
<1>2. CASE \E c \in Cpus : PasoCpu(c)
  <2>1. PICK c \in Cpus : PasoCpu(c)
    BY <1>2
  <2>2. \/ Quieto(c) \/ EjecutarMemAlloc(c) \/ Compactar(c) \/ EjecutarMemFree(c)
        \/ Finalizar(c) \/ GuardarContexto(c)
    BY <2>1 DEF PasoCpu, Quieto
  <2> QED
    BY <2>2, EspacioQuieto, EspacioMemAlloc, EspacioCompactar, EspacioMemFree,
       EspacioFinalizar, EspacioGuardarContexto
<1>3. CASE UNCHANGED vars
  <2>1. UNCHANGED <<cpu, contextos, sticks_km>>
    BY <1>3 DEF vars
  <2>2. Fin \in Nat /\ Fin' = Fin
    BY <2>1, FinBienDefinido DEF Tipos, Resto, Fin
  <2>3. Fin <= Fin' /\ Fin' \in Nat
    BY <2>2
  <2> QED
    BY <2>1, <2>2, <2>3, EspacioDeNinguna
<1> QED
  BY <1>1, <1>2, <1>3 DEF Next

LEMMA EspacioInicio ==
    ASSUME Init
    PROVE  Espacio
<1>1. \A p \in Pids : DOMAIN Tabla(p) = {}
  <2>1. \A p \in Pids : contextos[p] = [reg |-> RegistrosEnCero, tabla |-> <<>>]
    BY DEF Init
  <2>2. \A p \in Pids : Tabla(p) = <<>>
    <3>1. <<>> \in Seq(Segmento)
      OBVIOUS
    <3>2. [reg |-> RegistrosEnCero, tabla |-> <<>>] \in Contexto
      BY <3>1, CerosBanco DEF Contexto
    <3>3. ASSUME NEW p \in Pids PROVE Tabla(p) = <<>>
      <4>1. contextos[p].tabla = <<>> /\ contextos[p] # Nadie
        BY <2>1, <3>2, NadieAssumption
      <4> QED
        BY <4>1 DEF Tabla
    <3> QED
      BY <3>3
  <2>3. DOMAIN <<>> = {}
    OBVIOUS
  <2> QED
    BY <2>2, <2>3
<1>2. \A c \in Cpus : cpu[c].fase # "espera"
  BY DEF Init
<1> QED
  BY <1>1, <1>2 DEF Espacio, EnMemoria, Separados, HayLugar

\* In every reachable state the registers, tables, accesses and requests have their types,
\* every segment lies within the sticks that have answered, no two segments of any
\* processes share a byte, and a process that waits for its compaction will have its room:
\* the allocation, the compaction and the end of processes (kernel_memory/src/utils.c) never
\* give a byte twice, whatever the CPUs do in between.
THEOREM MemoriaSiempreRepartida == Spec => [](Tipos /\ Espacio)
<1>1. Init => IInv /\ Tipos /\ Espacio
  BY InicioIInv, TiposInicio, EspacioInicio
<1>2. IInv /\ Tipos /\ Espacio /\ [Next]_vars => (IInv /\ Tipos /\ Espacio)'
  <2> SUFFICES ASSUME IInv, Tipos, Espacio, [Next]_vars
               PROVE  IInv' /\ Tipos' /\ Espacio'
    OBVIOUS
  <2>1. IInv'
    BY PasoIInv
  <2>2. EnMemoria
    BY DEF Espacio
  <2>3. Tipos'
    BY <2>2, TiposSigue
  <2>4. Espacio'
    BY EspacioSigue
  <2> QED
    BY <2>1, <2>3, <2>4
<1> QED
  BY <1>1, <1>2, PTL DEF Spec

\* Every variable of the CPUs and of what serves them keeps its type: the registers stay
\* within their widths through every instruction of cliente.c, an access of several pieces
\* over the sticks never collects more bytes than it lacks, nor a byte outside its values.
THEOREM TiposCorrectos == Spec => []TypeOK
<1>1. Tipos => TypeOK
  BY DEF Tipos, CpuBien, ContextosBien, Resto, TypeOK
<1> QED
  BY <1>1, MemoriaSiempreRepartida, PTL

-----------------------------------------------------------------------------
(* The accesses: what a CPU has still to read or write lies in a segment *)

\* What is below a divisor is its own remainder.
LEMMA RestoIgual ==
    ASSUME NEW a \in Nat, NEW b \in Nat \ {0}, a < b
    PROVE  a % b = a
OBVIOUS

\* What the MMU accepts is within one segment, if its sum does not wrap around.
LEMMA MmuEnSegmento ==
    ASSUME IInv, Tipos, NEW c \in Cpus, cpu[c].fase \in ConContexto,
           NEW r \in {"SI", "DI"}, NEW n \in Nat, SEGMENT_MAX_SIZE + n <= Potencia[Ancho],
           Mmu(c, Reg(c)[r], n) # Nadie
    PROVE  EnSegmento(cpu[c].ctx.tabla, Mmu(c, Reg(c)[r], n), n)
<1> DEFINE dir == Mmu(c, Reg(c)[r], n)
           d == Reg(c)[r] % SEGMENT_MAX_SIZE
           t == cpu[c].ctx.tabla
<1>1. Reg(c)[r] \in Nat /\ dir \in Nat
  BY MmuBien
<1>2. PICK k \in 1 .. Len(t) : dir = t[k].base + d /\ (d + n) % Potencia[Ancho] <= t[k].tam
  BY MmuBien
<1>3. t[k].base \in Nat /\ t[k].tam \in Nat
  <2>1. t \in Seq(Segmento)
    BY ConContextoBien
  <2>2. t[k] \in Segmento
    BY <2>1
  <2> QED
    BY <2>2 DEF Segmento
<1>4. SEGMENT_MAX_SIZE \in Nat \ {0} /\ Potencia[Ancho] \in Nat \ {0}
  BY CPUAssumption, Palabras
<1>5. d \in Nat /\ d < SEGMENT_MAX_SIZE
  BY <1>1, <1>4, RestoMenor
<1> HIDE DEF d, dir, t
<1>6. d + n \in Nat /\ d + n < Potencia[Ancho]
  BY <1>4, <1>5
<1>7. (d + n) % Potencia[Ancho] = d + n
  BY <1>4, <1>6, RestoIgual
<1>8. t[k].base <= dir /\ dir + n <= t[k].base + t[k].tam
  BY <1>2, <1>3, <1>5, <1>7
<1> QED
  BY <1>8 DEF EnSegmento, t, dir

\* An access that advances stays in its segment.
LEMMA EnSegmentoAvanza ==
    ASSUME NEW t \in Seq(Segmento), NEW dir \in Nat, NEW falta \in Nat, NEW n \in Nat,
           n <= falta, EnSegmento(t, dir, falta)
    PROVE  EnSegmento(t, dir + n, falta - n)
<1>1. PICK k \in 1 .. Len(t) : t[k].base <= dir /\ dir + falta <= t[k].base + t[k].tam
  BY DEF EnSegmento
<1>2. t[k].base \in Nat /\ t[k].tam \in Nat
  <2>1. t[k] \in Segmento
    OBVIOUS
  <2> QED
    BY <2>1 DEF Segmento
<1>3. t[k].base <= dir + n /\ (dir + n) + (falta - n) <= t[k].base + t[k].tam
  BY <1>1, <1>2
<1> QED
  BY <1>3 DEF EnSegmento

LEMMA EnLugarAvanza ==
    ASSUME NEW t \in Seq(Segmento), NEW largo, NEW fallo, NEW dir \in Nat, NEW falta \in Nat,
           NEW n \in Nat, n <= falta, EnLugar(t, largo, fallo, dir, falta)
    PROVE  EnLugar(t, largo, fallo, dir + n, falta - n)
<1>1. CASE EnSegmento(t, dir, falta)
  BY <1>1, EnSegmentoAvanza DEF EnLugar
<1>2. CASE fallo /\ ErrorSegFault <= dir /\ dir + falta <= ErrorSegFault + largo
  <2>1. (dir + n) + (falta - n) = dir + falta
    OBVIOUS
  <2>2. ErrorSegFault <= dir + n
    BY <1>2, CPUAssumption
  <2> QED
    BY <1>2, <2>1, <2>2 DEF EnLugar
<1> QED
  BY <1>1, <1>2 DEF EnLugar

\* Only the CPU itself counts, and of it all but sticks and avisos.
LEMMA AccesoIgual ==
    ASSUME NEW d \in Cpus, AccesoBien(d),
           cpu'[d].fase = cpu[d].fase, cpu'[d].pid = cpu[d].pid,
           cpu'[d].ctx = cpu[d].ctx, cpu'[d].acceso = cpu[d].acceso
    PROVE  AccesoBien(d)'
<1>1. /\ Actual(d)' = Actual(d) /\ Reg(d)' = Reg(d)
      /\ \A dir, n : Mmu(d, dir, n)' = Mmu(d, dir, n)
  BY DEF Actual, Pid, Reg, Mmu
<1> QED
  BY <1>1 DEF AccesoBien

LEMMA AccesoDeOtra ==
    ASSUME NEW d \in Cpus, AccesoBien(d), cpu'[d] = cpu[d]
    PROVE  AccesoBien(d)'
BY AccesoIgual

LEMMA AccesoTermina ==
    ASSUME NEW c \in Cpus, cpu'[c].fase \notin {"leyendo", "escribiendo"}
    PROVE  AccesoBien(c)'
BY DEF AccesoBien

LEMMA FinAccesoTermina ==
    ASSUME Forma, NEW c \in Cpus, cpu' = FinAcceso(c)
    PROVE  /\ cpu'[c].fase \notin {"leyendo", "escribiendo"}
           /\ \A d \in Cpus \ {c} : cpu'[d] = cpu[d]
<1>1. CASE cpu' = Libre(c)
  BY <1>1, EfectoDeLibre
<1>2. CASE cpu' = [cpu EXCEPT ![c].fase = "finalizando", ![c].ctx = Nadie,
                              ![c].acceso = SinAcceso]
  BY <1>2, EfectoDeFin
<1>3. CASE cpu' = Cumplida(c, Avanzar(Reg(c)))
  BY <1>3 DEF Forma, FormaCpu, Cumplida
<1> QED
  BY <1>1, <1>2, <1>3 DEF FinAcceso

\* The sum of the MMU in the instructions of 1 to 4 bytes, and in COPY_MEM.
LEMMA AnchoCabe ==
    ASSUME SinDesborde, NEW r \in Registros
    PROVE  TamReg(r) \in Nat /\ SEGMENT_MAX_SIZE + TamReg(r) <= Potencia[Ancho]
<1>1. TamReg(r) \in Nat /\ TamReg(r) <= Ancho /\ Ancho \in Nat
  BY AnchoDeRegistro, InstruccionesAssumption
<1>2. SEGMENT_MAX_SIZE \in Nat /\ Potencia[Ancho] \in Nat
  BY CPUAssumption, Palabras
<1> QED
  BY <1>1, <1>2 DEF SinDesborde

LEMMA AccesoAcceder ==
    ASSUME IInv, Tipos, NEW c \in Cpus, cpu[c].fase = "fetch",
           NEW fase \in {"leyendo", "escribiendo"}, NEW dir \in Nat, NEW n \in Nat, NEW datos,
           Actual(c).op \in {"MOV_IN", "MOV_OUT"},
           EnSegmento(cpu[c].ctx.tabla, dir, n), Acceder(c, fase, dir, n, datos)
    PROVE  AccesoBien(c)' /\ \A d \in Cpus \ {c} : cpu'[d] = cpu[d]
<1>1. Forma /\ FormaCpu(c) /\ DOMAIN cpu = Cpus
  BY DEF IInv, Forma
<1>2. CASE dir = ErrorSegFault
  <2>1. cpu' = Cumplida(c, Avanzar(Reg(c)))
    BY <1>2 DEF Acceder
  <2>2. cpu'[c].fase = "interrupt" /\ \A d \in Cpus \ {c} : cpu'[d] = cpu[d]
    BY <1>1, <2>1 DEF Cumplida, FormaCpu
  <2> QED
    BY <2>2, AccesoTermina
<1>3. CASE dir # ErrorSegFault
  <2> DEFINE a == [dir |-> dir, falta |-> n, datos |-> datos, fallo |-> FALSE]
  <2>1. cpu' = [cpu EXCEPT ![c].fase = fase, ![c].acceso = a]
    BY <1>3 DEF Acceder
  <2>2. a.dir = dir /\ a.falta = n
    OBVIOUS
  <2> HIDE DEF a
  <2>3. /\ cpu'[c].fase = fase /\ cpu'[c].pid = cpu[c].pid /\ cpu'[c].ctx = cpu[c].ctx
        /\ cpu'[c].acceso = a
        /\ \A d \in Cpus \ {c} : cpu'[d] = cpu[d]
    BY <1>1, <2>1 DEF FormaCpu
  <2>4. Actual(c)' = Actual(c)
    BY <2>3 DEF Actual, Pid, Reg
  <2>5. Actual(c)'.op # "COPY_MEM"
    BY <2>4
  <2> QED
    BY <2>2, <2>3, <2>5 DEF AccesoBien, EnLugar
<1> QED
  BY <1>2, <1>3

LEMMA AccesoMovIn ==
    ASSUME IInv, Tipos, SinDesborde, NEW c \in Cpus, EjecutarMovIn(c)
    PROVE  AccesoBien(c)' /\ \A d \in Cpus \ {c} : cpu'[d] = cpu[d]
<1> DEFINE n == TamReg(Actual(c).dest)
           dir == Mmu(c, Reg(c)["SI"], n)
<1>1. /\ cpu[c].fase = "fetch" /\ Actual(c).op = "MOV_IN"
      /\ IF dir = Nadie THEN SegFault(c) ELSE Acceder(c, "leyendo", dir, n, <<>>)
  BY DEF EjecutarMovIn, AntesDe, En
<1>2. Actual(c).dest \in Registros
  BY <1>1, EnFetchBien DEF BienFormada
<1>3. n \in Nat /\ SEGMENT_MAX_SIZE + n <= Potencia[Ancho]
  BY <1>2, AnchoCabe
<1>4. cpu[c].fase \in ConContexto
  BY <1>1 DEF ConContexto, Confia
<1>5. CASE dir = Nadie
  <2>1. cpu' = [cpu EXCEPT ![c].fase = "finalizando", ![c].ctx = Nadie,
                           ![c].acceso = SinAcceso, ![c].avisos = 1]
    BY <1>1, <1>5 DEF SegFault
  <2> QED
    BY <2>1, EfectoDeFinAvisado, AccesoTermina DEF IInv
<1>6. CASE dir # Nadie
  <2>1. dir \in Nat
    BY <1>3, <1>4, <1>6, MmuBien
  <2>2. EnSegmento(cpu[c].ctx.tabla, dir, n)
    BY <1>3, <1>4, <1>6, MmuEnSegmento
  <2>3. Acceder(c, "leyendo", dir, n, <<>>)
    BY <1>1, <1>6
  <2> HIDE DEF n, dir
  <2> QED
    BY <1>1, <1>3, <2>1, <2>2, <2>3, AccesoAcceder
<1> QED
  BY <1>5, <1>6

LEMMA AccesoMovOut ==
    ASSUME IInv, Tipos, SinDesborde, NEW c \in Cpus, EjecutarMovOut(c)
    PROVE  AccesoBien(c)' /\ \A d \in Cpus \ {c} : cpu'[d] = cpu[d]
<1> DEFINE n == TamReg(Actual(c).orig)
           dir == Mmu(c, Reg(c)["DI"], n)
           datos == EnBytes(Reg(c)[Actual(c).orig], n)
<1>1. /\ cpu[c].fase = "fetch" /\ Actual(c).op = "MOV_OUT"
      /\ IF dir = Nadie THEN SegFault(c) ELSE Acceder(c, "escribiendo", dir, n, datos)
  BY DEF EjecutarMovOut, AntesDe, En
<1>2. Actual(c).orig \in Registros
  BY <1>1, EnFetchBien DEF BienFormada
<1>3. n \in Nat /\ SEGMENT_MAX_SIZE + n <= Potencia[Ancho]
  BY <1>2, AnchoCabe
<1>4. cpu[c].fase \in ConContexto
  BY <1>1 DEF ConContexto, Confia
<1>5. CASE dir = Nadie
  <2>1. cpu' = [cpu EXCEPT ![c].fase = "finalizando", ![c].ctx = Nadie,
                           ![c].acceso = SinAcceso, ![c].avisos = 1]
    BY <1>1, <1>5 DEF SegFault
  <2> QED
    BY <2>1, EfectoDeFinAvisado, AccesoTermina DEF IInv
<1>6. CASE dir # Nadie
  <2>1. dir \in Nat
    BY <1>3, <1>4, <1>6, MmuBien
  <2>2. EnSegmento(cpu[c].ctx.tabla, dir, n)
    BY <1>3, <1>4, <1>6, MmuEnSegmento
  <2>3. Acceder(c, "escribiendo", dir, n, datos)
    BY <1>1, <1>6
  <2> HIDE DEF n, dir, datos
  <2> QED
    BY <1>1, <1>3, <2>1, <2>2, <2>3, AccesoAcceder
<1> QED
  BY <1>5, <1>6

LEMMA AccesoCopyMem ==
    ASSUME IInv, Tipos, SinDesborde, NEW c \in Cpus, EjecutarCopyMem(c)
    PROVE  AccesoBien(c)' /\ \A d \in Cpus \ {c} : cpu'[d] = cpu[d]
<1> DEFINE n == TamCopia(Reg(c), Actual(c))
           origen == Mmu(c, Reg(c)["SI"], n)
           destino == Mmu(c, Reg(c)["DI"], n)
           fallo == Nadie \in {origen, destino}
           a == [dir |-> IF origen = Nadie THEN ErrorSegFault ELSE origen,
                 falta |-> n, datos |-> <<>>, fallo |-> fallo]
           avisos == (IF origen = Nadie THEN 1 ELSE 0) + (IF destino = Nadie THEN 1 ELSE 0)
           tabla == cpu[c].ctx.tabla
<1>1. /\ cpu[c].fase = "fetch" /\ Actual(c).op = "COPY_MEM" /\ AntesDe(c, {"COPY_MEM"})
      /\ cpu' = [cpu EXCEPT ![c].fase = "leyendo", ![c].acceso = a, ![c].avisos = avisos]
  BY DEF EjecutarCopyMem, AntesDe, En
<1>2. /\ Reg(c) \in BancoRegistros /\ BienFormada(Actual(c)) /\ DOMAIN cpu = Cpus /\ FormaCpu(c)
  BY <1>1, EnFetchBien
<1>3. n \in Nat /\ SEGMENT_MAX_SIZE + n <= Potencia[Ancho]
  BY <1>1, <1>2, TamCopiaBien DEF SinDesborde
<1>4. cpu[c].fase \in ConContexto
  BY <1>1 DEF ConContexto, Confia
<1>5. origen # Nadie => EnSegmento(cpu[c].ctx.tabla, origen, n)
  BY <1>3, <1>4, MmuEnSegmento
<1>6. destino # Nadie => EnSegmento(cpu[c].ctx.tabla, destino, n)
  BY <1>3, <1>4, MmuEnSegmento
<1>7. /\ a.falta = n /\ a.fallo = fallo
      /\ a.dir = IF origen = Nadie THEN ErrorSegFault ELSE origen
  OBVIOUS
<1> HIDE DEF a, avisos
<1>8. /\ cpu'[c].fase = "leyendo" /\ cpu'[c].pid = cpu[c].pid /\ cpu'[c].ctx = cpu[c].ctx
      /\ cpu'[c].acceso = a
      /\ \A d \in Cpus \ {c} : cpu'[d] = cpu[d]
  BY <1>1, <1>2 DEF FormaCpu
<1>9. /\ Actual(c)' = Actual(c) /\ Reg(c)' = Reg(c)
      /\ \A d, m : Mmu(c, d, m)' = Mmu(c, d, m)
  BY <1>8 DEF Actual, Pid, Reg, Mmu
<1>10. (origen = Nadie \/ destino = Nadie) <=> fallo
  OBVIOUS
<1> HIDE DEF fallo, origen, destino, n
<1>11. EnLugar(tabla, n, a.fallo, a.dir, a.falta)
  <2>1. CASE origen = Nadie
    <3>1. a.fallo /\ a.dir = ErrorSegFault /\ ErrorSegFault \in Nat
      BY <1>7, <1>10, <2>1, CPUAssumption
    <3>2. ErrorSegFault <= a.dir /\ a.dir + a.falta <= ErrorSegFault + n
      BY <1>3, <1>7, <3>1
    <3> QED
      BY <3>1, <3>2 DEF EnLugar
  <2>2. CASE origen # Nadie
    BY <1>5, <1>7, <2>2 DEF EnLugar
  <2> QED
    BY <2>1, <2>2
<1>12. EsDestino(tabla, n, a.fallo, destino)
  BY <1>6, <1>7, <1>10 DEF EsDestino
<1>13. TamCopia(Reg(c), Actual(c))' = n /\ Mmu(c, Reg(c)["DI"], n)' = destino /\ n' = n
  BY <1>9 DEF n, destino
<1> QED
  BY <1>8, <1>11, <1>12, <1>13 DEF AccesoBien

LEMMA AccesoLeerPieza ==
    ASSUME IInv, Tipos, NEW c \in Cpus, AccesoBien(c), LeerPieza(c)
    PROVE  AccesoBien(c)' /\ \A d \in Cpus \ {c} : cpu'[d] = cpu[d]
<1> DEFINE a == cpu[c].acceso
           n == Pieza(a)
           leido == a.datos \o [k \in 1 .. n |-> memoria[a.dir + k - 1]]
<1>1. /\ cpu[c].fase = "leyendo" /\ Alcanza(c)
      /\ cpu' = IF n = a.falta THEN TrasLeer(c, leido)
                ELSE [cpu EXCEPT ![c].acceso.dir = @ + n, ![c].acceso.falta = @ - n,
                                 ![c].acceso.datos = leido]
  BY DEF LeerPieza, En
<1>2. /\ a.dir \in Nat /\ a.falta \in Nat /\ a.datos \in Seq(Byte) /\ a.fallo \in BOOLEAN
      /\ DOMAIN a = {"dir", "falta", "datos", "fallo"}
      /\ n \in Nat /\ n <= a.falta /\ \A k \in 1 .. n : a.dir + k - 1 \in Direcciones
  BY <1>1, PiezaBien
<1>3. leido \in Seq(Byte) /\ Len(leido) = Len(a.datos) + n
  <2>1. memoria \in [Direcciones -> Byte]
    BY DEF Tipos, Resto
  <2> HIDE DEF a, n
  <2> QED
    BY <1>2, <2>1, LeidoBien
<1>4. cpu[c].fase \in ConContexto
  BY <1>1 DEF ConContexto, Confia
<1>5. cpu[c].ctx.tabla \in Seq(Segmento) /\ DOMAIN cpu = Cpus /\ FormaCpu(c)
  BY <1>4, ConContextoBien
<1>6. \/ Actual(c).op = "MOV_IN"
      \/ /\ Actual(c).op = "COPY_MEM" /\ Len(a.datos) + a.falta = TamCopia(Reg(c), Actual(c))
  BY <1>1 DEF Tipos, CpuBien
<1>7. CASE n # a.falta
  <2> DEFINE dir == a.dir + n
             falta == a.falta - n
  <2>1. cpu' = [cpu EXCEPT ![c].acceso.dir = @ + n, ![c].acceso.falta = @ - n,
                           ![c].acceso.datos = leido]
    BY <1>1, <1>7
  <2>2. /\ cpu'[c].fase = "leyendo" /\ cpu'[c].pid = cpu[c].pid /\ cpu'[c].ctx = cpu[c].ctx
        /\ \A d \in Cpus \ {c} : cpu'[d] = cpu[d]
    <3> HIDE DEF n, leido
    <3> QED
      BY <1>1, <1>5, <2>1 DEF FormaCpu
  <2>3. /\ cpu'[c].acceso.dir = dir /\ cpu'[c].acceso.falta = falta
        /\ cpu'[c].acceso.fallo = a.fallo
    <3>1. cpu'[c].acceso = [a EXCEPT !.dir = dir, !.falta = falta, !.datos = leido]
      <4> HIDE DEF n, leido
      <4> QED
        BY <1>5, <2>1 DEF FormaCpu
    <3> HIDE DEF a, n, leido, dir, falta
    <3> QED
      BY <1>2, <3>1
  <2>4. /\ Actual(c)' = Actual(c) /\ Reg(c)' = Reg(c)
        /\ \A d, m : Mmu(c, d, m)' = Mmu(c, d, m)
    BY <2>2 DEF Actual, Pid, Reg, Mmu
  <2> DEFINE tabla == cpu[c].ctx.tabla
             copia == TamCopia(Reg(c), Actual(c))
             destino == Mmu(c, Reg(c)["DI"], copia)
  <2>5. EnLugar(tabla, copia, a.fallo, dir, falta)
    <3>1. EnLugar(tabla, copia, a.fallo, a.dir, a.falta)
      BY <1>1 DEF AccesoBien
    <3> HIDE DEF a, n, copia
    <3> QED
      BY <1>2, <1>5, <3>1, EnLugarAvanza
  <2>6. Actual(c).op = "COPY_MEM" => EsDestino(tabla, copia, a.fallo, destino)
    BY <1>1 DEF AccesoBien
  <2>7. copia' = copia
    BY <2>4
  <2>8. destino' = destino /\ tabla' = tabla
    <3> HIDE DEF copia
    <3> QED
      BY <2>2, <2>4, <2>7
  <2> HIDE DEF n, leido, dir, falta, destino, copia
  <2>9. Actual(c)'.op = "COPY_MEM" => EsDestino(tabla', copia', cpu'[c].acceso.fallo, destino')
    BY <2>3, <2>4, <2>6, <2>7, <2>8
  <2>10. EnLugar(tabla', copia', cpu'[c].acceso.fallo, cpu'[c].acceso.dir, cpu'[c].acceso.falta)
    BY <2>3, <2>5, <2>7, <2>8
  <2>11. AccesoBien(c)'
    BY <2>9, <2>10 DEF AccesoBien, copia, destino
  <2> QED
    BY <2>2, <2>11
<1>8. CASE n = a.falta /\ Actual(c).op = "MOV_IN"
  <2>1. \E reg : cpu' = Cumplida(c, reg)
    BY <1>1, <1>8 DEF TrasLeer
  <2>2. PICK reg : cpu' = Cumplida(c, reg)
    BY <2>1
  <2>3. cpu'[c].fase = "interrupt" /\ \A d \in Cpus \ {c} : cpu'[d] = cpu[d]
    BY <1>5, <2>2 DEF Cumplida, FormaCpu
  <2> QED
    BY <2>3, AccesoTermina
<1>9. CASE n = a.falta /\ Actual(c).op # "MOV_IN"
  <2> DEFINE destino == Mmu(c, Reg(c)["DI"], Len(leido))
             dir == IF destino = Nadie THEN ErrorSegFault ELSE destino
             largo == Len(leido)
  <2>1. cpu' = [cpu EXCEPT ![c].fase = "escribiendo", ![c].acceso.dir = dir,
                           ![c].acceso.falta = largo, ![c].acceso.datos = leido]
    BY <1>1, <1>9 DEF TrasLeer
  <2>2. Actual(c).op = "COPY_MEM" /\ largo = TamCopia(Reg(c), Actual(c))
    <3>1. Len(leido) = Len(a.datos) + a.falta
      BY <1>3, <1>9
    <3> QED
      BY <1>6, <1>9, <3>1
  <2>3. EsDestino(cpu[c].ctx.tabla, largo, a.fallo, destino)
    <3> HIDE DEF leido
    <3> QED
      BY <1>1, <2>2 DEF AccesoBien
  <2>4. EnLugar(cpu[c].ctx.tabla, largo, a.fallo, dir, largo)
    <3>1. ErrorSegFault \in Nat /\ largo \in Nat
      <4> HIDE DEF leido
      <4> QED
        BY <1>3, CPUAssumption
    <3>2. ErrorSegFault <= ErrorSegFault /\ ErrorSegFault + largo <= ErrorSegFault + largo
      <4> HIDE DEF largo
      <4> QED
        BY <3>1
    <3> HIDE DEF destino, largo
    <3> QED
      BY <2>3, <3>2 DEF EnLugar, EsDestino
  <2> HIDE DEF leido, n, destino, dir, largo
  <2>5. /\ cpu'[c].fase = "escribiendo" /\ cpu'[c].ctx = cpu[c].ctx /\ cpu'[c].pid = cpu[c].pid
        /\ cpu'[c].acceso.dir = dir /\ cpu'[c].acceso.falta = largo
        /\ cpu'[c].acceso.fallo = a.fallo
        /\ \A d \in Cpus \ {c} : cpu'[d] = cpu[d]
    BY <1>1, <1>2, <1>5, <2>1 DEF FormaCpu
  <2>6. TamCopia(Reg(c), Actual(c))' = largo
    BY <2>2, <2>5 DEF Actual, Pid, Reg
  <2> QED
    BY <2>4, <2>5, <2>6 DEF AccesoBien
<1> QED
  BY <1>7, <1>8, <1>9

LEMMA AccesoEscribirPieza ==
    ASSUME IInv, Tipos, NEW c \in Cpus, AccesoBien(c), EscribirPieza(c)
    PROVE  AccesoBien(c)' /\ \A d \in Cpus \ {c} : cpu'[d] = cpu[d]
<1> DEFINE a == cpu[c].acceso
           n == Pieza(a)
<1>1. /\ cpu[c].fase = "escribiendo" /\ Alcanza(c)
      /\ cpu' = IF n = a.falta THEN FinAcceso(c)
                ELSE [cpu EXCEPT ![c].acceso.dir = @ + n, ![c].acceso.falta = @ - n,
                                 ![c].acceso.datos = SubSeq(@, n + 1, Len(@))]
      /\ UNCHANGED <<contextos, desalojo>>
  BY DEF EscribirPieza, En
<1>2. /\ a.dir \in Nat /\ a.falta \in Nat /\ a.fallo \in BOOLEAN
      /\ DOMAIN a = {"dir", "falta", "datos", "fallo"}
      /\ n \in Nat /\ n <= a.falta
  BY <1>1, PiezaBien
<1>3. cpu[c].fase \in ConContexto
  BY <1>1 DEF ConContexto, Confia
<1>4. cpu[c].ctx.tabla \in Seq(Segmento) /\ DOMAIN cpu = Cpus /\ FormaCpu(c)
  BY <1>3, ConContextoBien
<1>5. CASE n = a.falta
  <2>1. cpu' = FinAcceso(c)
    BY <1>1, <1>5
  <2> QED
    BY <2>1, FinAccesoTermina, AccesoTermina DEF IInv
<1>6. CASE n # a.falta
  <2> DEFINE dir == a.dir + n
             falta == a.falta - n
             datos == SubSeq(a.datos, n + 1, Len(a.datos))
  <2>1. cpu' = [cpu EXCEPT ![c].acceso.dir = @ + n, ![c].acceso.falta = @ - n,
                           ![c].acceso.datos = SubSeq(@, n + 1, Len(@))]
    BY <1>1, <1>6
  <2>2. /\ cpu'[c].fase = "escribiendo" /\ cpu'[c].ctx = cpu[c].ctx /\ cpu'[c].pid = cpu[c].pid
        /\ \A d \in Cpus \ {c} : cpu'[d] = cpu[d]
    <3> HIDE DEF n
    <3> QED
      BY <1>1, <1>4, <2>1 DEF FormaCpu
  <2>3. /\ cpu'[c].acceso.dir = dir /\ cpu'[c].acceso.falta = falta
        /\ cpu'[c].acceso.fallo = a.fallo
    <3>1. cpu'[c].acceso = [a EXCEPT !.dir = dir, !.falta = falta, !.datos = datos]
      <4> HIDE DEF n
      <4> QED
        BY <1>4, <2>1 DEF FormaCpu
    <3> HIDE DEF a, n, dir, falta, datos
    <3> QED
      BY <1>2, <3>1
  <2> DEFINE copia == TamCopia(Reg(c), Actual(c))
  <2>4. EnLugar(cpu[c].ctx.tabla, copia, a.fallo, dir, falta)
    <3>1. EnLugar(cpu[c].ctx.tabla, copia, a.fallo, a.dir, a.falta)
      BY <1>1 DEF AccesoBien
    <3> HIDE DEF a, n, copia
    <3> QED
      BY <1>2, <1>4, <3>1, EnLugarAvanza
  <2>5. copia' = copia
    BY <2>2 DEF Actual, Pid, Reg
  <2> HIDE DEF n, dir, falta, datos
  <2> QED
    BY <2>2, <2>3, <2>4, <2>5 DEF AccesoBien
<1> QED
  BY <1>5, <1>6

LEMMA AccesoFueraDe ==
    ASSUME IInv, Tipos, NEW c \in Cpus, PasoCpu(c),
           ~EjecutarMovIn(c), ~EjecutarMovOut(c), ~EjecutarCopyMem(c),
           ~LeerPieza(c), ~EscribirPieza(c)
    PROVE  /\ \/ cpu'[c].fase \notin {"leyendo", "escribiendo"}
              \/ /\ cpu'[c].fase = cpu[c].fase /\ cpu'[c].pid = cpu[c].pid
                 /\ cpu'[c].ctx = cpu[c].ctx /\ cpu'[c].acceso = cpu[c].acceso
           /\ \A d \in Cpus \ {c} : cpu'[d] = cpu[d]
<1> DEFINE Sale == /\ cpu'[c].fase \notin {"leyendo", "escribiendo"}
                   /\ \A d \in Cpus \ {c} : cpu'[d] = cpu[d]
           Queda == /\ cpu'[c].fase = cpu[c].fase /\ cpu'[c].pid = cpu[c].pid
                    /\ cpu'[c].ctx = cpu[c].ctx /\ cpu'[c].acceso = cpu[c].acceso
                    /\ \A d \in Cpus \ {c} : cpu'[d] = cpu[d]
<1> SUFFICES Queda \/ Sale
  OBVIOUS
<1>1. Forma /\ FormaCpu(c) /\ DOMAIN cpu = Cpus
  BY DEF IInv, Forma
<1>2. ASSUME NEW reg, cpu' = Cumplida(c, reg) PROVE Sale
  BY <1>1, <1>2 DEF FormaCpu, Cumplida
<1>3. ASSUME NEW fase, fase \notin {"leyendo", "escribiendo"},
             cpu' = [cpu EXCEPT ![c].fase = fase]
      PROVE  Sale
  BY <1>1, <1>3, EfectoDeFase
<1>4. ASSUME cpu' = Libre(c) PROVE Sale
  BY <1>1, <1>4, EfectoDeLibre
<1>5. ASSUME NEW tablas, NEW b, Concedida(c, tablas, b) PROVE Sale
  BY <1>1, <1>5 DEF FormaCpu, Concedida
<1>6. CASE NuevaCpu(c) \/ RecibirContexto(c) \/ EjecutarExit(c)
  BY <1>1, <1>6 DEF FormaCpu, NuevaCpu, RecibirContexto, EjecutarExit
<1>7. CASE EjecutarCalculo(c) \/ EjecutarSyscall(c) \/ EjecutarEspera(c)
  <2>1. \E reg : cpu' = Cumplida(c, reg)
    BY <1>7 DEF EjecutarCalculo, EjecutarSyscall, EjecutarEspera
  <2> QED
    BY <1>2, <2>1
<1>8. CASE AccesoSinStick(c)
  <2>1. CASE cpu' = [cpu EXCEPT ![c].fase = "colgada"]
    <3>1. "colgada" \notin {"leyendo", "escribiendo"}
      OBVIOUS
    <3>2. Sale
      BY <1>3, <2>1, <3>1
    <3> QED
      BY <3>2
  <2>2. CASE cpu' = FinAcceso(c)
    BY <1>1, <2>2, FinAccesoTermina
  <2> QED
    BY <1>8, <2>1, <2>2 DEF AccesoSinStick
<1>9. CASE EjecutarMemAlloc(c) \/ Compactar(c)
  <2>1. \/ \E tablas, b : Concedida(c, tablas, b)
        \/ cpu' = [cpu EXCEPT ![c].fase = "espera"]
        \/ \E reg : cpu' = Cumplida(c, reg)
    BY <1>9 DEF EjecutarMemAlloc, Compactar
  <2> QED
    BY <1>2, <1>3, <1>5, <2>1
<1>10. CASE EjecutarMemFree(c)
  <2>1. \E x : cpu' = [cpu EXCEPT ![c].fase = "interrupt", ![c].ctx.reg = Avanzar(@),
                                  ![c].ctx.tabla = SinElDe(@, Actual(c).id)]
    BY <1>10, PasoMemFree
  <2> QED
    BY <1>1, <2>1 DEF FormaCpu
<1>11. CASE Finalizar(c)
  <2>1. cpu' = Libre(c) \/ cpu' = [cpu EXCEPT ![c].avisos = @ - 1]
    BY <1>11 DEF Finalizar
  <2>2. CASE cpu' = [cpu EXCEPT ![c].avisos = @ - 1]
    <3>1. Queda
      BY <1>1, <2>2 DEF FormaCpu
    <3> QED
      BY <3>1
  <2> QED
    BY <1>4, <2>1, <2>2
<1>12. CASE Interrupt(c)
  <2>1. CASE \E fase \in {"guardar", "fetch"} : cpu' = [cpu EXCEPT ![c].fase = fase]
    BY <1>3, <2>1
  <2>2. CASE cpu' = [cpu EXCEPT ![c].fase = "fetch", ![c].sticks = @ \cup {Head(pendientes)}]
    BY <1>1, <2>2 DEF FormaCpu
  <2> QED
    BY <1>12, <2>1, <2>2 DEF Interrupt
<1>13. CASE GuardarContexto(c) \/ Avisar(c)
  BY <1>3, <1>4, <1>13 DEF GuardarContexto, Avisar
<1> QED
  BY <1>6, <1>7, <1>8, <1>9, <1>10, <1>11, <1>12, <1>13 DEF PasoCpu

LEMMA AccesosSiguen ==
    ASSUME IInv, Tipos, SinDesborde, \A c \in Cpus : AccesoBien(c), [Next]_vars
    PROVE  \A c \in Cpus : AccesoBien(c)'
<1>1. ASSUME cpu' = cpu PROVE \A c \in Cpus : AccesoBien(c)'
  BY <1>1, AccesoDeOtra
<1>2. ASSUME NEW c \in Cpus, AccesoBien(c)', \A d \in Cpus \ {c} : cpu'[d] = cpu[d]
      PROVE  \A d \in Cpus : AccesoBien(d)'
  <2> SUFFICES ASSUME NEW d \in Cpus, d # c PROVE AccesoBien(d)'
    BY <1>2
  <2>1. cpu'[d] = cpu[d]
    BY <1>2
  <2> QED
    BY <2>1, AccesoDeOtra
<1>3. CASE PasoKernel
  <2>1. CASE \E p \in Pids, c \in Cpus : Despachar(p, c)
    <3>1. PICK p \in Pids, c \in Cpus : Despachar(p, c)
      BY <2>1
    <3>2. cpu' = [cpu EXCEPT ![c].fase = "despachada", ![c].pid = p]
      BY <3>1 DEF Despachar
    <3>3. cpu'[c].fase = "despachada" /\ \A d \in Cpus \ {c} : cpu'[d] = cpu[d]
      BY <3>2 DEF IInv, Forma, FormaCpu
    <3>4. AccesoBien(c)'
      BY <3>3, AccesoTermina
    <3> QED
      BY <1>2, <3>3, <3>4
  <2>2. CASE ~\E p \in Pids, c \in Cpus : Despachar(p, c)
    <3>1. cpu' = cpu
      BY <1>3, <2>2
         DEF PasoKernel, ConectarStick, RecibirNuevaMemoryStick, TomarCompactacion,
             MarcarDesalojo, EscribirStdin, LeerStdout, Despertar
    <3> QED
      BY <1>1, <3>1
  <2> QED
    BY <2>1, <2>2
<1>4. ASSUME NEW c \in Cpus, PasoCpu(c) PROVE \A d \in Cpus : AccesoBien(d)'
  <2>1. CASE \/ EjecutarMovIn(c) \/ EjecutarMovOut(c) \/ EjecutarCopyMem(c)
             \/ LeerPieza(c) \/ EscribirPieza(c)
    <3>1. AccesoBien(c)' /\ \A d \in Cpus \ {c} : cpu'[d] = cpu[d]
      BY <2>1, AccesoMovIn, AccesoMovOut, AccesoCopyMem, AccesoLeerPieza, AccesoEscribirPieza
    <3> QED
      BY <1>2, <3>1
  <2>2. CASE /\ ~EjecutarMovIn(c) /\ ~EjecutarMovOut(c) /\ ~EjecutarCopyMem(c)
             /\ ~LeerPieza(c) /\ ~EscribirPieza(c)
    <3>1. /\ \/ cpu'[c].fase \notin {"leyendo", "escribiendo"}
             \/ /\ cpu'[c].fase = cpu[c].fase /\ cpu'[c].pid = cpu[c].pid
                /\ cpu'[c].ctx = cpu[c].ctx /\ cpu'[c].acceso = cpu[c].acceso
          /\ \A d \in Cpus \ {c} : cpu'[d] = cpu[d]
      BY <1>4, <2>2, AccesoFueraDe
    <3>2. AccesoBien(c)'
      BY <3>1, AccesoTermina, AccesoIgual
    <3> QED
      BY <1>2, <3>1, <3>2
  <2> QED
    BY <2>1, <2>2
<1>5. CASE UNCHANGED vars
  BY <1>1, <1>5 DEF vars
<1> QED
  BY <1>3, <1>4, <1>5 DEF Next

\* Two segments apart share no cell.
LEMMA CeldasDeApartados ==
    ASSUME NEW s \in Segmento, NEW t \in Segmento, Apartados(s, t)
    PROVE  Celdas(s) \cap Celdas(t) = {}
<1>1. s.base \in Nat /\ s.tam \in Nat /\ t.base \in Nat /\ t.tam \in Nat
  BY DEF Segmento
<1> SUFFICES ASSUME NEW d \in Celdas(s), d \in Celdas(t) PROVE FALSE
  OBVIOUS
<1>2. d \in Int /\ s.base <= d /\ d <= s.base + s.tam - 1
  BY <1>1 DEF Celdas
<1>3. t.base <= d /\ d <= t.base + t.tam - 1
  BY <1>1 DEF Celdas
<1> QED
  BY <1>1, <1>2, <1>3 DEF Apartados

\* The access of a CPU whose COPY_MEM was refused.
LEMMA AccesoRefutado ==
    ASSUME IInv, Tipos, NEW c \in Cpus, AccesoBien(c),
           cpu[c].fase \in {"leyendo", "escribiendo"}, cpu[c].acceso.fallo
    PROVE  LET celdas == cpu[c].acceso.dir .. cpu[c].acceso.dir + cpu[c].acceso.falta - 1
               propia == cpu[c].ctx.tabla
               trece == ErrorSegFault .. ErrorSegFault + TamCopia(Reg(c), Actual(c)) - 1
           IN  \/ celdas \subseteq trece
               \/ \E k \in DOMAIN propia : celdas \subseteq Celdas(propia[k])
<1> DEFINE dir == cpu[c].acceso.dir
           falta == cpu[c].acceso.falta
           t == cpu[c].ctx.tabla
           n == TamCopia(Reg(c), Actual(c))
<1>1. cpu[c].fase \in ConContexto
  BY DEF Confia, ConContexto
<1>2. t \in Seq(Segmento) /\ Reg(c) \in BancoRegistros /\ BienFormada(Actual(c))
  BY <1>1, ConContextoBien
<1>3. dir \in Nat /\ falta \in Nat /\ ErrorSegFault \in Nat
  BY CPUAssumption DEF Tipos, CpuBien
<1>4. n \in Nat
  <2>1. Actual(c).op = "COPY_MEM"
    BY DEF IInv, SegunFase
  <2> QED
    BY <1>2, <2>1, TamCopiaBien
<1>5. EnLugar(t, n, cpu[c].acceso.fallo, dir, falta)
  BY DEF AccesoBien
<1>6. CASE EnSegmento(t, dir, falta)
  <2>1. PICK k \in 1 .. Len(t) : t[k].base <= dir /\ dir + falta <= t[k].base + t[k].tam
    BY <1>6 DEF EnSegmento
  <2>2. DOMAIN t = 1 .. Len(t) /\ t[k] \in Segmento
    BY <1>2
  <2>3. t[k].base \in Nat /\ t[k].tam \in Nat
    BY <2>2 DEF Segmento
  <2>4. dir .. dir + falta - 1 \subseteq Celdas(t[k])
    <3> HIDE DEF dir, falta, t
    <3> QED
      BY <1>3, <2>1, <2>3 DEF Celdas
  <2> HIDE DEF dir, falta, t, n
  <2> QED
    BY <2>2, <2>4 DEF dir, falta, t
<1>7. CASE ErrorSegFault <= dir /\ dir + falta <= ErrorSegFault + n
  <2>1. dir .. dir + falta - 1 \subseteq ErrorSegFault .. ErrorSegFault + n - 1
    <3> HIDE DEF dir, falta, n
    <3> QED
      BY <1>3, <1>4, <1>7
  <2> QED
    BY <2>1
<1> QED
  BY <1>5, <1>6, <1>7 DEF EnLugar

\* The access of a CPU that the MMU let through.
LEMMA AccesoPermitido ==
    ASSUME IInv, Tipos, Espacio, NEW c \in Cpus, AccesoBien(c),
           cpu[c].fase \in {"leyendo", "escribiendo"}, ~cpu[c].acceso.fallo
    PROVE  LET celdas == cpu[c].acceso.dir .. cpu[c].acceso.dir + cpu[c].acceso.falta - 1
           IN  /\ \E k \in DOMAIN Tabla(Pid(c)) : celdas \subseteq Celdas(Tabla(Pid(c))[k])
               /\ \A q \in Pids \ {Pid(c)} : \A k \in DOMAIN Tabla(q) :
                      celdas \cap Celdas(Tabla(q)[k]) = {}
<1> DEFINE dir == cpu[c].acceso.dir
           falta == cpu[c].acceso.falta
           celdas == dir .. dir + falta - 1
           p == Pid(c)
           t == Tabla(p)
<1>1. EnUso(c) /\ cpu[c].fase \in ConContexto
  BY DEF EnUso, Confia, ConContexto
<1>2. cpu[c].ctx.tabla = t /\ p \in Pids
  BY <1>1, ConContextoBien DEF IInv, SegunFase, Pid
<1>3. dir \in Nat /\ falta \in Nat /\ ContextosBien
  BY DEF Tipos, CpuBien
<1>4. t \in Seq(Segmento) /\ DOMAIN t = 1 .. Len(t)
  BY <1>2, <1>3, TablaBien
<1>5. EnSegmento(t, dir, falta)
  BY <1>2 DEF AccesoBien, EnLugar
<1>6. PICK k \in DOMAIN t : t[k].base <= dir /\ dir + falta <= t[k].base + t[k].tam
  BY <1>4, <1>5 DEF EnSegmento
<1>7. t[k] \in Segmento /\ t[k].base \in Nat /\ t[k].tam \in Nat
  BY <1>2, <1>3, TablaBien
<1>8. celdas \subseteq Celdas(t[k])
  <2> HIDE DEF dir, falta, t
  <2> QED
    BY <1>3, <1>6, <1>7 DEF Celdas
<1>9. ASSUME NEW q \in Pids \ {p}, NEW j \in DOMAIN Tabla(q)
      PROVE  celdas \cap Celdas(Tabla(q)[j]) = {}
  <2>1. Tabla(q)[j] \in Segmento
    BY <1>3, TablaBien
  <2>2. Apartados(t[k], Tabla(q)[j])
    BY <1>2 DEF Espacio, Separados
  <2>3. Celdas(t[k]) \cap Celdas(Tabla(q)[j]) = {}
    BY <1>7, <2>1, <2>2, CeldasDeApartados
  <2> HIDE DEF celdas, t
  <2> QED
    BY <1>8, <2>3
<1> QED
  BY <1>8, <1>9

LEMMA AccesosPropios ==
    ASSUME IInv, Tipos, Espacio, \A c \in Cpus : AccesoBien(c)
    PROVE  AccesoPropio
BY AccesoRefutado, AccesoPermitido DEF AccesoPropio

\* Every byte a CPU is about to read or write in a stick belongs to a segment of its process,
\* and to no other's, at each piece of an access split over several sticks and whatever is
\* allocated, freed or compacted before the next piece; after a COPY_MEM that the MMU refused
\* it may be anybody's, but it is one of the TamCopia bytes from address 13 on, or of a segment
\* the process had when it was refused (cliente.c:978-983).  The hypothesis is that the sum
\* of 32 bits that pedir_direccion_mmu compares with the bound does not wrap (cliente.c:1392).
THEOREM AccesoSiemprePropio == Spec /\ []SinDesborde => []AccesoPropio
<1> DEFINE I == IInv /\ Tipos /\ Espacio /\ \A c \in Cpus : AccesoBien(c)
<1>1. Init => I
  <2>1. Init => \A c \in Cpus : AccesoBien(c)
    BY DEF Init, AccesoBien
  <2> QED
    BY <2>1, InicioIInv, TiposInicio, EspacioInicio
<1>2. I /\ SinDesborde /\ [Next]_vars => I'
  <2> SUFFICES ASSUME I, SinDesborde, [Next]_vars PROVE I'
    OBVIOUS
  <2>1. IInv' /\ Tipos' /\ Espacio'
    <3>1. EnMemoria
      BY DEF Espacio
    <3> QED
      BY <3>1, PasoIInv, TiposSigue, EspacioSigue
  <2>2. \A c \in Cpus : AccesoBien(c)'
    BY AccesosSiguen
  <2> QED
    BY <2>1, <2>2
<1>3. I => AccesoPropio
  BY AccesosPropios
<1> QED
  BY <1>1, <1>2, <1>3, PTL DEF Spec

=============================================================================
